---------------------------- MODULE FencedWriter ----------------------------
(***************************************************************************)
(* What the leadership lease of WARIBA promises to the financial writers:  *)
(* epochs are granted one after the other, each to one instance, and a     *)
(* market-triggered mutation is committed only under the epoch that is     *)
(* current at its commit, by the instance that holds it.                   *)
(***************************************************************************)
EXTENDS Naturals

CONSTANTS Nodes,    \* the realtime instances
          NoNode    \* the leader of the seeded row: no instance

VARIABLES epoch,      \* the epoch granted last
          holder,     \* the instance it was granted to
          lastWrite   \* who committed the last mutation, under which epoch

vars == <<epoch, holder, lastWrite>>

Init == /\ epoch = 0
        /\ holder = NoNode
        /\ lastWrite = [epoch |-> 0, by |-> NoNode]

\* A higher epoch goes to an instance, the present holder included.
Grant == /\ epoch' = epoch + 1
         /\ holder' \in Nodes
         /\ UNCHANGED lastWrite

\* Only the holder of the current epoch commits.
Commit == /\ holder \in Nodes
          /\ lastWrite' = [epoch |-> epoch, by |-> holder]
          /\ UNCHANGED <<epoch, holder>>

Next == Grant \/ Commit

Spec == Init /\ [][Next]_vars
=============================================================================
