-------------------------- MODULE MCInitialAttach --------------------------
(* Small instances of InitialAttach.                                       *)
EXTENDS InitialAttach
=============================================================================
