---------------------------- MODULE MCPodAssignment ----------------------------
(* Two pods sharing four instruments, the smallest number for which a rebalance *)
(* plan has a second move.                                                      *)
EXTENDS PodAssignment, TLC

CONSTANTS p1, p2, i1, i2, i3, i4
TwoPods == {p1, p2}
FourInstruments == {i1, i2, i3, i4}
TwoDistance == [i \in FourInstruments |->
    IF i \in {i1, i2} THEN p1 :> 1 @@ p2 :> 2 ELSE p1 :> 2 @@ p2 :> 1]
TwoSyncedRings == {{p2}}
NoSyncedRings == {}
===============================================================================
