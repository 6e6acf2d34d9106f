------------------------------ MODULE MCServer ------------------------------
(***************************************************************************)
(* Two callbacks at a time.  A unit of time is five seconds, for lookups,  *)
(* startup and shutdown; a readiness request, which has one second, may at *)
(* most see one of them pass.                                              *)
(***************************************************************************)
EXTENDS PluginServer
=============================================================================
