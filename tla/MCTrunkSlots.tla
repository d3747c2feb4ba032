---------------------------- MODULE MCTrunkSlots ---------------------------
(* Two trunks, the second preferred by weight, and two or three calls.     *)
EXTENDS TrunkSlots, TLC

CONSTANTS c1, c2, c3, t1, t2

TwoCalls == {c1, c2}
ThreeCalls == {c1, c2, c3}
TwoTrunks == {t1, t2}
OneSlotEach == (t1 :> 1) @@ (t2 :> 1)
ThreeSlots == (t1 :> 2) @@ (t2 :> 1)
Weights == (t1 :> 1) @@ (t2 :> 2)
=============================================================================
