------------------------------- MODULE MCBackend -------------------------------
(* Every setting, login and flag of Backend, by itself. *)
EXTENDS Backend

BackendSpec == BackendInit /\ [][BackendNext]_bvars
==============================================================================
