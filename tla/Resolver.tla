------------------------------ MODULE Resolver ------------------------------
(***************************************************************************)
(* operation.Resolve at its two places of work: on a request as it comes   *)
(* in, and on the inspect that dockerapi.Client.Inspect makes of it and    *)
(* that comes in again through the daemon.                                 *)
(***************************************************************************)
EXTENDS Operation

CONSTANTS Methods, Segments, Queries

VARIABLES
  received,  \* the request: its method and its URI
  resolved,  \* what Resolve makes of it
  ownLookup  \* whether the request is a lookup of the plugin's own

resolverVars == <<received, resolved, ownLookup>>

Paths ==
  [clean : BOOLEAN, segments : UNION {[1..n -> Segments] : n \in 1..4}, query : Queries]

ResolverInit ==
  /\ received \in Methods \X Paths
  /\ resolved = Resolve(received[1], received[2])
  /\ ownLookup = FALSE

\* Inspect is called for operations with an ID only; it resolves its own path too.
Inspect ==
  /\ resolved.id # ""
  /\ received' = <<"GET", InspectURI(resolved)>>
  /\ resolved' = Resolve("GET", InspectURI(resolved))
  /\ ownLookup' = TRUE

ResolverSpec == ResolverInit /\ [][Inspect]_resolverVars

-----------------------------------------------------------------------------

\* Whatever Resolve accepts stands for one request only, method and version included:
\* no two different requests are judged as the same operation, and an accepted path has
\* nothing the operation does not show.
ResolvedUniquely == resolved # Unknown => Render(resolved) = received

\* A lookup is for the object the request names, in its API version, and is itself an
\* inspect without options; looking a lookup up changes nothing.
LookupOnTarget ==
  [][/\ resolved'.resource = resolved.resource
     /\ resolved'.id = resolved.id
     /\ resolved'.version = resolved.version
     /\ resolved'.action = "inspect"
     /\ resolved'.query = NoQuery
     /\ ownLookup => resolved' = resolved]_resolverVars
=============================================================================
