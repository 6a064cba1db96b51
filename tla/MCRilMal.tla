------------------------------ MODULE MCRilMal ------------------------------
(* Small instances of RilMal with MtkChannels.                             *)
EXTENDS RilMal
=============================================================================
