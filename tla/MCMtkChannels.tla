--------------------------- MODULE MCMtkChannels ---------------------------
(***************************************************************************)
(* The threads of libril that meet at mutexes around the vendor RIL, for   *)
(* TLC: those of the AT channels, without the rild-mal thread, and those   *)
(* of the initial attach APN.  The two parts share no variable, so a       *)
(* behaviour is one of the part that is chosen at the start, while the     *)
(* other stays as it is.                                                   *)
(***************************************************************************)
EXTENDS MtkChannels, InitialAttach

VARIABLE part   \* the part that runs

MCProxyIds == {-1, 1, 2}

PartsInit ==
    /\ part \in {"channels", "attach"}
    /\ ChannelInit
    /\ AttachInit

PartsNext ==
    \/ part = "channels" /\ ChannelNext /\ UNCHANGED <<part, attachVars>>
    \/ part = "attach" /\ AttachNext /\ UNCHANGED <<part, channelVars>>

\* No fair action is enabled in the initial state, so a part that does not run owes none.
PartsFairSpec ==
    /\ PartsInit
    /\ [][PartsNext]_<<part, channelVars, attachVars>>
    /\ ChannelFairness
    /\ AttachFairness
=============================================================================
