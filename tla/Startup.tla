------------------------------- MODULE Startup -------------------------------
(***************************************************************************)
(* From the configuration file to Plugin.clients: run loads and validates  *)
(* the file, sets up telemetry, which validates its section again, and the *)
(* token; authz.New validates everything a third time and enters the       *)
(* clients, in the unspecified order of a Go map, into a map from common   *)
(* names.                                                                  *)
(*                                                                         *)
(* The telemetry section, Nil when there is none, is [service, reserved,   *)
(* ratio, interval, traces, metrics, protocol, endpoint, headers].         *)
(* reserved tells whether the resource attributes name the service; ratio  *)
(* is in percent and interval in seconds, Nil where left out, Invalid for  *)
(* what is no such number; endpoint and headers are "ok", "bad" or "";     *)
(* service is "edge" for any name other than the default.                  *)
(***************************************************************************)
EXTENDS Config

CONSTANT Configs   \* the configurations an operator may write

\* What the decoder makes of a telemetry section.
Sections == [service : {"", "dockauthz", "edge"}, reserved : BOOLEAN, ratio : Int \cup {Nil}, interval : Int \cup {Nil},
             traces : BOOLEAN, metrics : BOOLEAN, protocol : STRING,
             endpoint : {"", "ok", "bad"}, headers : {"", "ok", "bad"}]

\* Parse fills a typed Config, or fails.
ASSUME ConfigsAssumption ==
  /\ Nil \notin Sections \cup Int
  /\ \A c \in Configs :
       /\ c.telemetry \in Sections \cup {Nil}
       /\ \A name \in DOMAIN c.clients : \A key \in DOMAIN c.clients[name].permissions :
            c.clients[name].permissions[key] \in Permissions

VARIABLES
  cfg,        \* the parsed file; telemetry is part of it
  telemetry,
  signals,    \* telemetry.Runtime: the protocol of each signal that is exported
  phase,      \* one of Phases
  registered, \* names of the clients the loop in New has been through
  clients     \* Plugin.clients: from common names to client names

vars == <<cfg, telemetry, signals, phase, registered, clients>>

Phases == {"load", "setup", "new", "register", "serving", "failed"}

Invalid == -1

CNs == {cfg.clients[name].cn : name \in DOMAIN cfg.clients}

\* Plugin.clients holds client names under their common names (authz.New), and only what
\* the section names is exported (Setup).
TypeOK ==
  /\ telemetry = Nil <=> cfg.telemetry = Nil
  /\ DOMAIN signals \subseteq {"traces", "metrics"}
  /\ phase \in Phases
  /\ registered \subseteq DOMAIN cfg.clients
  /\ clients \in [CNs -> DOMAIN cfg.clients \cup {Nil}]

Init ==
  /\ cfg \in Configs
  /\ telemetry = cfg.telemetry
  /\ signals = <<>>
  /\ phase = "load"
  /\ registered = {}
  /\ clients = [cn \in CNs |-> Nil]

\* The defaults that Telemetry.Validate fills in.
Defaulted(t) ==
  [t EXCEPT !.service  = IF @ = "" THEN "dockauthz" ELSE @,
            !.ratio    = IF @ = Nil THEN 100 ELSE @,
            !.interval = IF @ = Nil THEN 30 ELSE @]

\* Mutated form: only traces ask for an endpoint and a protocol.
AddressedForTraces(t) == t.traces => t.endpoint # "" /\ t.protocol # ""

\* What is to be exported needs to know where to.
Addressed(t) == t.traces \/ t.metrics => t.endpoint # "" /\ t.protocol # ""

\* Telemetry.Validate, with the defaults filled in.
ValidTelemetry(t) ==
  /\ ~t.reserved
  /\ t.ratio \in 0..100 /\ t.interval > 0
  /\ t.protocol \in {"", "grpc", "http"}
  /\ Addressed(t)
  /\ t.endpoint # "bad" /\ t.headers # "bad"

\* Config.Validate goes through clients and permissions first; a valid section keeps its
\* defaults.
ValidateThen(next) ==
  LET t == IF telemetry = Nil THEN Nil ELSE Defaulted(telemetry)
      ok == ValidConfig(cfg) /\ (t # Nil => ValidTelemetry(t))
  IN  /\ phase' = IF ok THEN next ELSE "failed"
      /\ telemetry' = IF ok THEN t ELSE telemetry

\* config.Load of a file that parses to cfg.  The process ends on an error.
Load ==
  /\ phase = "load"
  /\ ValidateThen("setup")
  /\ UNCHANGED <<cfg, signals, registered, clients>>

\* The file cannot be opened, is too large, or is no YAML of the strict kind that Parse
\* asks for; no token can be drawn.
Fail ==
  /\ phase \in {"load", "new"}
  /\ phase' = "failed"
  /\ UNCHANGED <<cfg, telemetry, signals, registered, clients>>

Enabled(t) == {signal \in {"traces", "metrics"} : t[signal]}

\* Setup validates the section by itself.  An exporter that cannot be had disables its
\* signal and nothing else.
Setup ==
  /\ phase = "setup"
  /\ \/ telemetry = Nil /\ phase' = "new" /\ UNCHANGED <<telemetry, signals>>
     \/ /\ telemetry # Nil /\ ~ValidTelemetry(Defaulted(telemetry))
        /\ phase' = "failed" /\ UNCHANGED <<telemetry, signals>>
     \/ /\ telemetry # Nil /\ ValidTelemetry(Defaulted(telemetry))
        /\ telemetry' = Defaulted(telemetry)
        /\ \E made \in SUBSET Enabled(telemetry) :
             signals' = [signal \in made |-> IF telemetry.protocol = "grpc" THEN "grpc" ELSE "http"]
        /\ phase' = "new"
  /\ UNCHANGED <<cfg, registered, clients>>

\* The token is there, and New validates the configuration once more.
New ==
  /\ phase = "new"
  /\ ValidateThen("register")
  /\ UNCHANGED <<cfg, signals, registered, clients>>

\* Mutated form: the common name is entered instead of the client.
RegisterCommonName(name) ==
  /\ phase = "register"
  /\ name \in DOMAIN cfg.clients \ registered
  /\ clients' = [clients EXCEPT ![cfg.clients[name].cn] = cfg.clients[name].cn]
  /\ registered' = registered \cup {name}
  /\ UNCHANGED <<cfg, telemetry, signals, phase>>

\* One turn of the loop in New.
Register(name) ==
  /\ phase = "register"
  /\ name \in DOMAIN cfg.clients \ registered
  /\ clients' = [clients EXCEPT ![cfg.clients[name].cn] = name]
  /\ registered' = registered \cup {name}
  /\ UNCHANGED <<cfg, telemetry, signals, phase>>

\* The loop is through, and run calls ServeUnix.
Serve ==
  /\ phase = "register"
  /\ registered = DOMAIN cfg.clients
  /\ phase' = "serving"
  /\ UNCHANGED <<cfg, telemetry, signals, registered, clients>>

Next == Load \/ Fail \/ Setup \/ New \/ Serve \/ \E name \in DOMAIN cfg.clients : Register(name)

Spec == Init /\ [][Next]_vars

-----------------------------------------------------------------------------

\* No client of an accepted configuration shadows another one: whatever the order of
\* the loop in New, every client is reached by its common name (Config.Validate).
EveryClientReachable ==
  phase = "serving" =>
    \A name \in DOMAIN cfg.clients : clients[cfg.clients[name].cn] = name

\* Whatever is exported has a protocol the operator chose, an endpoint, a sample ratio that
\* NewTracerProvider can be given by reference, and a positive interval: Setup takes them
\* from the section without looking (Telemetry.Validate, its defaults).
ExportersUsable ==
  \A signal \in DOMAIN signals :
    /\ signals[signal] = telemetry.protocol /\ telemetry.endpoint = "ok"
    /\ telemetry.service # "" /\ telemetry.ratio # Nil /\ telemetry.interval \notin {Nil, Invalid, 0}

\* The operations that match a permission under this key.
Operations(key) ==
  {op \in Resources \X Actions : Supports(op[1], op[2]) /\ key[1] \in {op[1], "*"} /\ key[2] \in {op[2], "*"}}

\* A permission of an accepted configuration can be judged for every operation it
\* matches: there is an object to inspect for its selector, a body with labels for its
\* request constraint, a service spec and known fields for its mutation constraint.
\* permission() and mutation.Validate refuse the other cases for good.
EveryPermissionUsable ==
  phase = "serving" =>
    \A name \in DOMAIN cfg.clients : \A key \in DOMAIN cfg.clients[name].permissions :
      LET p == cfg.clients[name].permissions[key]
      IN  /\ Operations(key) # {}
          /\ \A op \in Operations(key) :
               /\ p.selector # Nil => op[2] \notin {"list", "create"}
               /\ p.request # Nil => op[1] \in {"service", "secret"} /\ op[2] \in {"create", "update"}
               /\ p.mutation # Nil => /\ op = <<"service", "update">>
                                      /\ Fields(p.mutation) # {}
                                      /\ Fields(p.mutation) \subseteq MutationFields
=============================================================================
