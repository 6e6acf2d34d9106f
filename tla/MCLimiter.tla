----------------------------- MODULE MCLimiter -----------------------------
(***************************************************************************)
(* Three exporters whose errors race, over three intervals.                *)
(***************************************************************************)
EXTENDS ErrorLimiter
=============================================================================
