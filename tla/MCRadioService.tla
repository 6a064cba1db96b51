--------------------------- MODULE MCRadioService ---------------------------
(***************************************************************************)
(* Two parts of ril_service.cpp for TLC: the radio service, with a vendor  *)
(* RIL before and one after version 15, and the data calls.  They share no *)
(* variable, so a behaviour is one of the part that is chosen at the       *)
(* start, while the other stays as it is.                                  *)
(***************************************************************************)
EXTENDS RadioService, DataCalls

VARIABLE part   \* the part that runs

MCVersions == {12, 15}

PartsInit ==
    /\ part \in {"service", "data calls"}
    /\ Init /\ (part = "data calls" => version = 12)
    /\ DataInit

PartsNext ==
    \/ part = "service" /\ Next /\ UNCHANGED <<part, dataVars>>
    \/ part = "data calls" /\ DataNext /\ UNCHANGED <<part, vars>>

PartsSpec == PartsInit /\ [][PartsNext]_<<part, vars, dataVars>>
=============================================================================
