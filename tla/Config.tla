------------------------------- MODULE Config -------------------------------
(***************************************************************************)
(* internal/config: which administrative policies Config.Validate accepts. *)
(*                                                                         *)
(* A configuration is [unidentified, clients]; clients maps a name to      *)
(* [cn, permissions], and permissions maps a pair <<resource, action>>,    *)
(* either of which may be the wildcard "*", to a permission.  A label      *)
(* constraint is the label map it demands, mutation is the list "only".    *)
(***************************************************************************)
EXTENDS Policy

Permissions == [selector : LabelMaps \cup {Nil},
                request  : LabelMaps \cup {Nil},
                mutation : Seq(STRING) \cup {Nil}]

Reserved == {"unknown", "unidentified", "internal"}

\* strings.TrimSpace(s) = ""; " " stands for any string of white space.
Blank(s) == s \in {"", " "}

\* The resources a permission is expanded to.
Expand(resource, action) ==
  IF resource = "*" THEN {r \in Resources : Supports(r, action)} ELSE {resource}

\* Mutated form: a wildcard resource is not expanded before the constraints are checked.
AppliesWithoutExpansion(resource, action, p) ==
  /\ Expand(resource, action) # {}
  /\ resource # "*" => Supports(resource, action)
  /\ p.selector # Nil => action \in {"inspect", "update", "delete"}
  /\ p.request # Nil => action \in {"create", "update"}
  /\ p.mutation # Nil => action \in {"create", "update"}

\* The constraints make sense for every resource the permission stands for.
Applies(resource, action, p) ==
  /\ Expand(resource, action) # {}
  /\ \A actual \in Expand(resource, action) :
       /\ Supports(actual, action)
       /\ p.selector # Nil => action \in {"inspect", "update", "delete"}
       /\ p.request # Nil => action \in {"create", "update"}
       /\ p.mutation # Nil => actual = "service" /\ action = "update"

\* Constraints that are empty or ill-formed in themselves.
WellFormed(p) ==
  /\ \A labels \in {p.selector, p.request} \ {Nil} : DOMAIN labels # {}
  /\ p.mutation # Nil =>
       /\ p.mutation # <<>>
       /\ Fields(p.mutation) \subseteq MutationFields
       /\ \A i, j \in DOMAIN p.mutation : p.mutation[i] = p.mutation[j] => i = j

ValidPermission(resource, action, p) ==
  /\ resource = "*" \/ Supports(resource, "inspect")
  /\ IF action = "*" THEN Unconditional(p) ELSE Applies(resource, action, p) /\ WellFormed(p)

\* Mutated form: the map of common names already seen is not consulted.
ValidNamesRepeatedCN(clients) ==
  \A name \in DOMAIN clients : ~Blank(name) /\ name \notin Reserved /\ ~Blank(clients[name].cn)

\* The names in the configuration; a common name belongs to one client only.
ValidNames(clients) ==
  \A name \in DOMAIN clients :
    /\ ~Blank(name) /\ name \notin Reserved
    /\ ~Blank(clients[name].cn)
    /\ \A other \in DOMAIN clients : clients[other].cn = clients[name].cn => other = name

\* Config.Validate, without the telemetry section.  The iteration order of the Go
\* maps only decides which of several errors is reported.
ValidConfig(cfg) ==
  /\ cfg.unidentified \in {"allow", "deny"}
  /\ ValidNames(cfg.clients)
  /\ \A name \in DOMAIN cfg.clients :
       \A key \in DOMAIN cfg.clients[name].permissions :
         ValidPermission(key[1], key[2], cfg.clients[name].permissions[key])
=============================================================================
