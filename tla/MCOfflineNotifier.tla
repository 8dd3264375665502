------------------------- MODULE MCOfflineNotifier -------------------------
(***************************************************************************)
(* Instances of OfflineNotifier for TLC.                                   *)
(***************************************************************************)
EXTENDS OfflineNotifier, TLC

CONSTANTS s1, s2        \* sweeps

Win(a, b) == [start |-> a, end |-> b, clients |-> {}]
OtherNode(a, b) == [start |-> a, end |-> b, clients |-> {"another node"}]

\* One window, two overlapping ones, and back-to-back windows; the node is in
\* scope of all but the last of each schedule.
OneWindow == {{}, {Win(0, 2)}}
Schedules == {{}, {Win(1, 2), OtherNode(0, 6)}, {Win(0, 1), Win(0, 2), Win(3, 4)}}
LateWindow == {{Win(0, 1), Win(2, 3)}}
NoWindow == {{}}

SweepSymmetry == Permutations({s1, s2})
=============================================================================
