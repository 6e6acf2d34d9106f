CONSTANTS
  Handlers = {h1, h2, h3}
  Interval = 2
  MaxClock = 5
SPECIFICATION Spec
INVARIANT LinesApart
PROPERTY DueErrorReported
