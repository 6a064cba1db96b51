--------------------------- MODULE MCRilWakeLock ---------------------------
(* A small instance of RilWakeLock.                                        *)
EXTENDS RilWakeLock
=============================================================================
