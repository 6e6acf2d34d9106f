----------------------------- MODULE MCResolver -----------------------------
(***************************************************************************)
(* All paths of up to four segments, an identifier that looks like a verb  *)
(* of the API among them.                                                  *)
(***************************************************************************)
EXTENDS Resolver

MCApiVersions == {"v1.41"}
MCIdentifiers == {"web", "create", "update", "v1.41", "services", "tasks", "volumes"}
MCMethods     == {"GET", "POST", "DELETE", "PUT"}
MCSegments    == {"", "v1.41", "services", "tasks", "volumes", "web", "create", "update"}
MCQueries     == {NoQuery, [NoQuery EXCEPT !.version = <<1>>]}
=============================================================================
