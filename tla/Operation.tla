------------------------------ MODULE Operation ------------------------------
(***************************************************************************)
(* internal/operation: the resolver that maps an HTTP method and a request *)
(* URI to one of the few Docker operations dockauthz knows.                *)
(*                                                                         *)
(* A URI is abstracted to                                                  *)
(*   clean    - whether it passes the purely lexical checks of Resolve,    *)
(*   segments - its path split at "/", the version prefix included,        *)
(*   query    - the parsed query, a list of values for every key: version, *)
(*              registryAuthFrom, rollback, and one key "other" that       *)
(*              stands for every key that nothing in the code names.       *)
(* A version value is the number its digits denote, or NotNumeric.         *)
(***************************************************************************)
EXTENDS Naturals, Integers, Sequences

CONSTANTS
  ApiVersions,   \* path segments that match the regular expression apiVersion
  Identifiers    \* path segments that match the regular expression identifier

Resources == {"service", "secret", "task", "node"}
Actions   == {"list", "inspect", "create", "update", "delete"}

\* The path segment that names a resource's collection.
Plural == [service |-> "services", secret |-> "secrets", task |-> "tasks", node |-> "nodes"]

ASSUME SegmentAssumption ==
  /\ "" \notin ApiVersions
  /\ "" \notin Identifiers
  /\ \A resource \in Resources : Plural[resource] \notin ApiVersions

NotNumeric == -1

\* The parsed query of a URI without one.
NoQuery == [version |-> <<>>, registryAuthFrom |-> <<>>, rollback |-> <<>>, other |-> <<>>]

\* The explicitly implemented resource/action combinations.
Supports(resource, action) ==
  \/ resource = "service" /\ action \in Actions
  \/ resource = "secret" /\ action \in Actions \ {"update"}
  \/ resource \in {"task", "node"} /\ action \in {"list", "inspect"}

\* What Resolve's callers see when it returns an error.
Unknown == [resource |-> "unknown", action |-> "unknown", id |-> "", version |-> "", query |-> NoQuery]

\* The API version prefix; the code drops its leading v here, and Inspect puts it back.
Version(uri) ==
  IF uri.segments # <<>> /\ Head(uri.segments) \in ApiVersions THEN Head(uri.segments) ELSE ""

Parts(uri) == IF Version(uri) = "" THEN uri.segments ELSE Tail(uri.segments)

\* Mutated form: the path alone decides between create, list and update.
RouteAnyMethod(method, parts) ==
  IF Len(parts) = 1 THEN <<"list", "">>
  ELSE IF Len(parts) = 2 /\ parts[2] = "create" THEN <<"create", "">>
  ELSE IF Len(parts) = 2 /\ method = "GET" THEN <<"inspect", parts[2]>>
  ELSE IF Len(parts) = 2 /\ method = "DELETE" THEN <<"delete", parts[2]>>
  ELSE IF Len(parts) = 3 /\ parts[3] = "update" THEN <<"update", parts[2]>>
  ELSE <<"unknown", "">>

\* The action and the ID a method and the segments after the version stand for;
\* the first case that applies wins, so POST /services/create is never an ID.
Route(method, parts) ==
  IF Len(parts) = 1 /\ method = "GET" THEN <<"list", "">>
  ELSE IF Len(parts) = 2 /\ parts[2] = "create" /\ method = "POST" THEN <<"create", "">>
  ELSE IF Len(parts) = 2 /\ method = "GET" THEN <<"inspect", parts[2]>>
  ELSE IF Len(parts) = 2 /\ method = "DELETE" THEN <<"delete", parts[2]>>
  ELSE IF Len(parts) = 3 /\ parts[3] = "update" /\ method = "POST" THEN <<"update", parts[2]>>
  ELSE <<"unknown", "">>

\* Resolve rejects whatever it does not match completely.
Resolve(method, uri) ==
  LET parts    == Parts(uri)
      resource == {r \in Resources : parts # <<>> /\ Plural[r] = parts[1]}
      route    == Route(method, parts)
      ok(r)    == /\ Supports(r, route[1])
                  /\ route[1] \in {"list", "create"} \/ route[2] \in Identifiers
  IN  IF uri.clean /\ Len(parts) \in 1..3 /\ \E r \in resource : ok(r)
      THEN [resource |-> CHOOSE r \in resource : ok(r), action |-> route[1], id |-> route[2],
            version |-> Version(uri), query |-> uri.query]
      ELSE Unknown

\* Mutated form: the lookup repeats the options of the operation it is for.
InspectURIWithQuery(op) ==
  [clean    |-> TRUE,
   segments |-> IF op.version = "" THEN <<Plural[op.resource], op.id>>
                ELSE <<op.version, Plural[op.resource], op.id>>,
   query    |-> op.query]

\* The path of the internal lookup that dockerapi.Client.Inspect builds for op.
InspectURI(op) ==
  [clean    |-> TRUE,
   segments |-> IF op.version = "" THEN <<Plural[op.resource], op.id>>
                ELSE <<op.version, Plural[op.resource], op.id>>,
   query    |-> NoQuery]

\* Reference: the only request that stands for an operation.
Render(o) ==
  LET prefix == IF o.version = "" THEN <<>> ELSE <<o.version>>
      path   == CASE o.action = "list"   -> <<Plural[o.resource]>>
                  [] o.action = "create" -> <<Plural[o.resource], "create">>
                  [] o.action = "update" -> <<Plural[o.resource], o.id, "update">>
                  [] OTHER               -> <<Plural[o.resource], o.id>>
      verb   == CASE o.action \in {"create", "update"} -> "POST"
                  [] o.action = "delete" -> "DELETE"
                  [] OTHER -> "GET"
  IN  <<verb, [clean |-> TRUE, segments |-> prefix \o path, query |-> o.query]>>
=============================================================================
