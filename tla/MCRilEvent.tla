----------------------------- MODULE MCRilEvent -----------------------------
(* A small instance of RilEvent.                                           *)
EXTENDS RilEvent
=============================================================================
