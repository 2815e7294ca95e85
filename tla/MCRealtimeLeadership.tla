------------------------ MODULE MCRealtimeLeadership ------------------------
(* Two instances A and B, for TLC.                                         *)
EXTENDS RealtimeLeadership

CONSTANTS A, B

InStep == [n \in Nodes |-> 0]                        \* every clock agrees
=============================================================================
