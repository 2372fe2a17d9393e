----------------------------- MODULE MCOtaUpdate -----------------------------
(* A local build, a release that runs, one that crashes and its successor. *)
EXTENDS OtaUpdate

MCRelease == 0 .. 3
MCCrashing == {2}
=============================================================================
