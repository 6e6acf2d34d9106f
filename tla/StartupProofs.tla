---------------------------- MODULE StartupProofs ----------------------------
(***************************************************************************)
(* Proofs about Startup for every configuration and every order of the     *)
(* loop in New: the clients that are served are found by their common      *)
(* names, their permissions can be judged, and what is exported has all it *)
(* needs.                                                                  *)
(***************************************************************************)
EXTENDS Startup, TLAPS

\* The map New fills has a place for every common name.
Places == clients \in [CNs -> DOMAIN cfg.clients \cup {Nil}]

\* New has validated the configuration before the first client is entered.
Checked ==
  /\ cfg \in Configs
  /\ phase \in {"register", "serving"} => ValidConfig(cfg)

\* No client that has been entered is overwritten by a later one.
Entered ==
  /\ registered \subseteq DOMAIN cfg.clients
  /\ \A name \in registered : clients[cfg.clients[name].cn] = name
  /\ phase = "serving" => registered = DOMAIN cfg.clients

IInv == Places /\ Checked /\ Entered

\* The start: nothing is entered yet.
LEMMA InitInvariant == Init => IInv
  BY DEF Init, IInv, Places, Checked, Entered, CNs

\* One turn of the loop leaves what the earlier turns have entered: two clients that share
\* a common name would not have passed Config.Validate.
LEMMA RegisterInvariant ==
  ASSUME IInv, NEW name \in DOMAIN cfg.clients, Register(name)
  PROVE  IInv'
<1> USE DEF IInv
<1>1. UNCHANGED <<cfg, phase>> /\ phase = "register"
  BY DEF Register
<1>2. cfg.clients[name].cn \in CNs
  BY DEF CNs
<1>3. Places'
  BY <1>1, <1>2 DEF Places, Register, CNs
<1>4. Checked'
  BY <1>1 DEF Checked
<1>5. ASSUME NEW other \in registered'
      PROVE  clients'[cfg.clients[other].cn] = other
  <2>1. CASE other = name
    BY <2>1, <1>2 DEF Register, Places
  <2>2. CASE other # name
    <3>1. other \in registered /\ other \in DOMAIN cfg.clients
      BY <2>2 DEF Register, Entered
    <3>2. cfg.clients[other].cn # cfg.clients[name].cn
      BY <2>2, <3>1, <1>1 DEF Checked, ValidConfig, ValidNames
    <3>3. cfg.clients[other].cn \in CNs
      BY <3>1 DEF CNs
    <3> QED
      BY <3>1, <3>2, <3>3 DEF Register, Places, Entered
  <2> QED BY <2>1, <2>2
<1>6. Entered'
  BY <1>1, <1>5 DEF Entered, Register
<1> QED BY <1>3, <1>4, <1>6

\* Every other step leaves the map alone, or comes after a validation.
LEMMA NextInvariant == IInv /\ [Next]_vars => IInv'
<1> SUFFICES ASSUME IInv, [Next]_vars PROVE IInv'
  OBVIOUS
<1>1. ASSUME NEW name \in DOMAIN cfg.clients, Register(name) PROVE IInv'
  BY <1>1, RegisterInvariant
<1>2. ASSUME phase' \notin {"register", "serving"}, UNCHANGED <<cfg, registered, clients>> PROVE IInv'
  BY <1>2 DEF IInv, Places, Checked, Entered, CNs
<1>3. CASE Load
  <2>1. phase' \in {"setup", "failed"} /\ UNCHANGED <<cfg, registered, clients>>
    BY <1>3 DEF Load, ValidateThen
  <2> QED BY <2>1, <1>2
<1>4. CASE Fail
  BY <1>4, <1>2 DEF Fail
<1>5. CASE Setup
  <2>1. phase' \in {"new", "failed"} /\ UNCHANGED <<cfg, registered, clients>>
    BY <1>5 DEF Setup
  <2> QED BY <2>1, <1>2
<1>6. CASE New
  <2>1. UNCHANGED <<cfg, registered, clients>> /\ phase' \in {"register", "failed"}
    BY <1>6 DEF New, ValidateThen
  <2>2. phase' = "register" => ValidConfig(cfg)
    BY <1>6 DEF New, ValidateThen
  <2> QED BY <2>1, <2>2 DEF IInv, Places, Checked, Entered, CNs
<1>7. CASE Serve
  BY <1>7 DEF Serve, IInv, Places, Checked, Entered, CNs
<1>8. CASE UNCHANGED vars
  BY <1>8 DEF vars, IInv, Places, Checked, Entered, CNs
<1> QED BY <1>1, <1>3, <1>4, <1>5, <1>6, <1>7, <1>8 DEF Next

\* No client of a configuration that is served shadows another one in Plugin.clients, for
\* every configuration and every order of the loop in authz.New.
THEOREM ClientsReachable == Spec => []EveryClientReachable
<1>1. IInv => EveryClientReachable
  BY DEF IInv, Entered, EveryClientReachable
<1> QED BY <1>1, InitInvariant, NextInvariant, PTL DEF Spec

-----------------------------------------------------------------------------
(* Permissions *)

\* Every operation that matches a permission's key is one the permission stands for, and
\* there is at least one (Config.Validate expands a wildcard resource).
LEMMA OperationsOf ==
  ASSUME NEW key, NEW p, ValidPermission(key[1], key[2], p)
  PROVE  /\ Operations(key) # {}
         /\ key[2] # "*" => \A op \in Operations(key) : op[2] = key[2] /\ op[1] \in Expand(key[1], key[2])
<1>1. CASE key[2] = "*"
  <2>1. \E resource \in Resources : Supports(resource, "inspect") /\ key[1] \in {resource, "*"}
    <3>1. CASE key[1] = "*"
      BY <3>1 DEF Supports, Resources, Actions
    <3>2. CASE key[1] # "*"
      BY <3>2 DEF ValidPermission, Supports, Resources
    <3> QED BY <3>1, <3>2
  <2>2. PICK resource \in Resources : Supports(resource, "inspect") /\ key[1] \in {resource, "*"}
    BY <2>1
  <2>3. <<resource, "inspect">> \in Operations(key)
    BY <1>1, <2>2 DEF Operations, Actions
  <2> QED BY <1>1, <2>3
<1>2. CASE key[2] # "*"
  <2>1. PICK resource \in Expand(key[1], key[2]) : Supports(resource, key[2])
    BY <1>2 DEF ValidPermission, Applies
  <2>2. resource \in Resources /\ key[2] \in Actions
    BY <2>1 DEF Supports, Resources, Actions
  <2>3. <<resource, key[2]>> \in Operations(key)
    BY <2>1, <2>2 DEF Operations, Expand
  <2>4. ASSUME NEW op \in Operations(key) PROVE op[2] = key[2] /\ op[1] \in Expand(key[1], key[2])
    BY <1>2 DEF Operations, Expand
  <2> QED BY <2>3, <2>4
<1> QED BY <1>1, <1>2

\* What Config.Validate accepts of one permission can be judged for every operation that
\* matches it.
LEMMA PermissionUsable ==
  ASSUME NEW key, NEW p \in Permissions, ValidPermission(key[1], key[2], p), NEW op \in Operations(key)
  PROVE  /\ p.selector # Nil => op[2] \notin {"list", "create"}
         /\ p.request # Nil => op[1] \in {"service", "secret"} /\ op[2] \in {"create", "update"}
         /\ p.mutation # Nil => /\ op = <<"service", "update">>
                                /\ Fields(p.mutation) # {}
                                /\ Fields(p.mutation) \subseteq MutationFields
<1>1. CASE key[2] = "*"
  BY <1>1 DEF ValidPermission, Unconditional
<1>2. CASE key[2] # "*"
  <2>1. op[2] = key[2] /\ op[1] \in Expand(key[1], key[2]) /\ Applies(key[1], key[2], p) /\ WellFormed(p)
    BY <1>2, OperationsOf DEF ValidPermission
  <2>2. /\ Supports(op[1], op[2])
        /\ p.selector # Nil => op[2] \in {"inspect", "update", "delete"}
        /\ p.request # Nil => op[2] \in {"create", "update"}
        /\ p.mutation # Nil => op[1] = "service" /\ op[2] = "update"
    BY <2>1 DEF Applies
  <2>3. p.request # Nil => op[1] \in {"service", "secret"}
    BY <2>2 DEF Supports
  <2>4. p.mutation # Nil => op = <<"service", "update">>
    BY <2>2 DEF Operations
  <2>5. ASSUME p.mutation # Nil
        PROVE  Fields(p.mutation) # {} /\ Fields(p.mutation) \subseteq MutationFields
    <3>1. p.mutation \in Seq(STRING) /\ p.mutation # <<>>
      BY <2>1, <2>5 DEF WellFormed, Permissions
    <3>2. 1 \in DOMAIN p.mutation
      BY <3>1
    <3> QED BY <2>1, <2>5, <3>2 DEF WellFormed, Fields
  <2> QED BY <2>2, <2>3, <2>4, <2>5
<1> QED BY <1>1, <1>2

\* No permission of a configuration that is served is dead: Config.Validate has rejected
\* the ones that permission() and mutation.Validate refuse for good.
THEOREM PermissionsUsable == Spec => []EveryPermissionUsable
<1>1. ASSUME IInv PROVE EveryPermissionUsable
  <2> SUFFICES ASSUME phase = "serving",
                      NEW name \in DOMAIN cfg.clients, NEW key \in DOMAIN cfg.clients[name].permissions
               PROVE  LET p == cfg.clients[name].permissions[key]
                      IN  /\ Operations(key) # {}
                          /\ \A op \in Operations(key) :
                               /\ p.selector # Nil => op[2] \notin {"list", "create"}
                               /\ p.request # Nil => op[1] \in {"service", "secret"} /\ op[2] \in {"create", "update"}
                               /\ p.mutation # Nil => /\ op = <<"service", "update">>
                                                      /\ Fields(p.mutation) # {}
                                                      /\ Fields(p.mutation) \subseteq MutationFields
    BY DEF EveryPermissionUsable
  <2> DEFINE p == cfg.clients[name].permissions[key]
  <2>1. ValidPermission(key[1], key[2], p)
    BY <1>1 DEF IInv, Checked, ValidConfig
  <2>2. p \in Permissions
    BY <1>1, ConfigsAssumption DEF IInv, Checked
  <2> QED BY <2>1, <2>2, OperationsOf, PermissionUsable
<1> QED BY <1>1, InitInvariant, NextInvariant, PTL DEF Spec

-----------------------------------------------------------------------------
(* Telemetry *)

\* The section keeps its type, and what is exported rests on a section that has its
\* defaults, has passed validation and enables the signal.
Exported ==
  /\ telemetry \in Sections \cup {Nil}
  /\ telemetry = Nil <=> cfg.telemetry = Nil
  /\ DOMAIN signals \subseteq {"traces", "metrics"}
  /\ phase \in {"load", "setup"} => signals = <<>>
  /\ \A signal \in DOMAIN signals :
       /\ telemetry # Nil
       /\ Defaulted(telemetry) = telemetry
       /\ ValidTelemetry(telemetry)
       /\ signal \in Enabled(telemetry)
       /\ signals[signal] = IF telemetry.protocol = "grpc" THEN "grpc" ELSE "http"

\* The defaults complete a section, and filling them in again changes nothing.
LEMMA DefaultedSection ==
  ASSUME NEW t \in Sections
  PROVE  /\ Defaulted(t) \in Sections
         /\ Defaulted(t) # Nil
         /\ Defaulted(Defaulted(t)) = Defaulted(t)
         /\ Defaulted(t).ratio \in Int /\ Defaulted(t).interval \in Int /\ Defaulted(t).service # ""
         /\ Defaulted(t).protocol = t.protocol /\ Enabled(Defaulted(t)) = Enabled(t)
<1> DEFINE service  == IF t.service = "" THEN "dockauthz" ELSE t.service
           ratio    == IF t.ratio = Nil THEN 100 ELSE t.ratio
           interval == IF t.interval = Nil THEN 30 ELSE t.interval
<1>1. service \in {"dockauthz", "edge"}
  BY DEF Sections
<1>2. ratio \in Int
  <2>1. t.ratio \in Int \/ t.ratio = Nil
    BY DEF Sections
  <2> QED BY <2>1
<1>3. interval \in Int
  <2>1. t.interval \in Int \/ t.interval = Nil
    BY DEF Sections
  <2> QED BY <2>1
<1>4. Defaulted(t) = [t EXCEPT !.service = service, !.ratio = ratio, !.interval = interval]
  BY DEF Defaulted, Sections
<1> HIDE DEF service, ratio, interval
<1>5. Defaulted(t) \in Sections
  BY <1>1, <1>2, <1>3, <1>4 DEF Sections
<1>6. Defaulted(t).service = service /\ Defaulted(t).ratio = ratio /\ Defaulted(t).interval = interval
  BY <1>4 DEF Sections
<1>7. Defaulted(t) # Nil /\ ratio # Nil /\ interval # Nil
  BY <1>2, <1>3, <1>5, ConfigsAssumption
<1>8. Defaulted(Defaulted(t)) = Defaulted(t)
  <2> DEFINE d == Defaulted(t)
  <2>1. d \in Sections /\ d.service # "" /\ d.ratio # Nil /\ d.interval # Nil
    BY <1>1, <1>5, <1>6, <1>7
  <2> HIDE DEF d
  <2>2. Defaulted(d) = [d EXCEPT !.service = d.service, !.ratio = d.ratio, !.interval = d.interval]
    BY <2>1 DEF Defaulted, Sections
  <2>3. Defaulted(d) = d
    BY <2>1, <2>2 DEF Sections
  <2> QED BY <2>3 DEF d
<1>9. Defaulted(t).protocol = t.protocol /\ Enabled(Defaulted(t)) = Enabled(t)
  BY <1>4 DEF Sections, Enabled
<1> QED BY <1>1, <1>2, <1>3, <1>5, <1>6, <1>7, <1>8, <1>9

\* Validation keeps Exported: what has been exported is not touched by it.
LEMMA ValidateExported ==
  ASSUME IInv, Exported, NEW next, ValidateThen(next), next = "setup" => phase = "load", next # "load",
         UNCHANGED <<cfg, signals>>
  PROVE  Exported'
<1>1. phase' \in {next, "failed"} /\ telemetry' \in {telemetry, IF telemetry = Nil THEN Nil ELSE Defaulted(telemetry)}
  BY DEF ValidateThen
<1>2. telemetry # Nil => telemetry \in Sections
  BY DEF Exported
<1>3. telemetry' \in Sections \cup {Nil} /\ (telemetry' = Nil <=> cfg.telemetry = Nil)
  BY <1>1, <1>2, DefaultedSection DEF Exported
<1>4. \A signal \in DOMAIN signals : telemetry' = telemetry
  BY <1>1 DEF Exported
<1>5. phase' \in {"load", "setup"} => signals = <<>>
  BY <1>1 DEF Exported
<1> QED BY <1>3, <1>4, <1>5 DEF Exported

\* Every step keeps Exported.
LEMMA NextExported == IInv /\ Exported /\ [Next]_vars => Exported'
<1> SUFFICES ASSUME IInv, Exported, [Next]_vars PROVE Exported'
  OBVIOUS
<1>1. CASE Load
  BY <1>1, ValidateExported DEF Load
<1>2. CASE New
  BY <1>2, ValidateExported DEF New
<1>3. ASSUME UNCHANGED <<cfg, telemetry, signals>>, phase' \notin {"load", "setup"} PROVE Exported'
  BY <1>3 DEF Exported
<1>4. CASE Fail \/ Serve
  BY <1>3, <1>4 DEF Fail, Serve
<1>5. CASE \E name \in DOMAIN cfg.clients : Register(name)
  BY <1>3, <1>5 DEF Register
<1>6. CASE UNCHANGED vars
  BY <1>6 DEF Exported, vars
<1>7. CASE Setup
  <2>1. CASE UNCHANGED <<telemetry, signals>>
    BY <1>3, <1>7, <2>1 DEF Setup
  <2>2. CASE /\ telemetry # Nil /\ ValidTelemetry(Defaulted(telemetry))
             /\ telemetry' = Defaulted(telemetry)
             /\ \E made \in SUBSET Enabled(telemetry) :
                  signals' = [signal \in made |-> IF telemetry.protocol = "grpc" THEN "grpc" ELSE "http"]
             /\ phase' = "new"
    <3>1. PICK made \in SUBSET Enabled(telemetry) :
            signals' = [signal \in made |-> IF telemetry.protocol = "grpc" THEN "grpc" ELSE "http"]
      BY <2>2
    <3>2. telemetry \in Sections
      BY <2>2 DEF Exported
    <3>3. /\ telemetry' \in Sections /\ telemetry' # Nil /\ Defaulted(telemetry') = telemetry'
          /\ ValidTelemetry(telemetry') /\ telemetry'.protocol = telemetry.protocol
          /\ Enabled(telemetry') = Enabled(telemetry)
      BY <2>2, <3>2, DefaultedSection
    <3>4. DOMAIN signals' = made /\ made \subseteq {"traces", "metrics"}
      BY <3>1 DEF Enabled
    <3>5. cfg' = cfg /\ (telemetry' = Nil <=> cfg.telemetry = Nil)
      BY <1>7, <2>2, <3>3 DEF Setup, Exported
    <3>6. phase' \notin {"load", "setup"}
      BY <2>2
    <3>7. \A signal \in DOMAIN signals' :
            /\ signal \in Enabled(telemetry')
            /\ signals'[signal] = IF telemetry'.protocol = "grpc" THEN "grpc" ELSE "http"
      BY <3>1, <3>3, <3>4
    <3> QED BY <3>3, <3>4, <3>5, <3>6, <3>7 DEF Exported
  <2> QED BY <1>7, <2>1, <2>2 DEF Setup
<1> QED BY <1>1, <1>2, <1>4, <1>5, <1>6, <1>7 DEF Next

\* The start: nothing is exported yet.
LEMMA InitExported == Init => Exported
  BY ConfigsAssumption DEF Init, Exported

\* Whatever Setup has made an exporter for has the protocol and the endpoint the operator
\* chose, and the defaults where he chose nothing, also after New has validated the section
\* once more (Telemetry.Validate, Setup).
THEOREM ExportersAreUsable == Spec => []ExportersUsable
<1>1. ASSUME Exported PROVE ExportersUsable
  <2> SUFFICES ASSUME NEW signal \in DOMAIN signals
               PROVE  /\ signals[signal] = telemetry.protocol /\ telemetry.endpoint = "ok"
                      /\ telemetry.service # "" /\ telemetry.ratio # Nil /\ telemetry.interval \notin {Nil, Invalid, 0}
    BY DEF ExportersUsable
  <2>1. telemetry \in Sections /\ Defaulted(telemetry) = telemetry /\ ValidTelemetry(telemetry)
    BY <1>1 DEF Exported
  <2>2. signal \in {"traces", "metrics"} /\ telemetry[signal]
    BY <1>1 DEF Exported, Enabled
  <2>3. telemetry.traces \/ telemetry.metrics
    BY <2>2
  <2>4. telemetry.endpoint = "ok" /\ telemetry.protocol \in {"grpc", "http"}
    BY <2>1, <2>3 DEF ValidTelemetry, Addressed, Sections
  <2>5. signals[signal] = telemetry.protocol
    BY <1>1, <2>4 DEF Exported
  <2>6. telemetry.ratio \in Int /\ telemetry.interval \in Int /\ telemetry.service # ""
    BY <2>1, DefaultedSection
  <2>7. telemetry.ratio # Nil /\ telemetry.interval # Nil
    BY <2>6, ConfigsAssumption
  <2>8. telemetry.interval > 0
    BY <2>1 DEF ValidTelemetry
  <2>9. telemetry.interval # 0 /\ telemetry.interval # Invalid
    <3>1. \A n \in Int : n > 0 => n # 0 /\ n # -1
      OBVIOUS
    <3> QED BY <2>6, <2>8, <3>1 DEF Invalid
  <2> QED BY <2>4, <2>5, <2>6, <2>7, <2>9
<1> QED BY <1>1, InitInvariant, NextInvariant, InitExported, NextExported, PTL DEF Spec

Phased == phase \in Phases

\* Plugin.clients and the exporters keep their types (authz.New, Setup).
THEOREM TypeCorrect == Spec => []TypeOK
<1>1. Init => Phased
  BY DEF Init, Phased, Phases
<1>2. Phased /\ [Next]_vars => Phased'
  BY DEF Next, Load, Fail, Setup, New, Serve, Register, ValidateThen, Phased, Phases, vars
<1>3. IInv /\ Exported /\ Phased => TypeOK
  BY DEF IInv, Places, Entered, Exported, Phased, TypeOK
<1> QED BY <1>1, <1>2, <1>3, InitInvariant, NextInvariant, InitExported, NextExported, PTL DEF Spec
=============================================================================
