----------------------- MODULE MCEasCollectionLease -----------------------
(* EasCollectionLease with two copies and three requests, two of them in    *)
(* one copy.                                                                *)
EXTENDS EasCollectionLease, TLC

CONSTANTS c1, c2, r1, r2, r3

TwoCopies == {c1, c2}
ThreeReqs == {r1, r2, r3}
TwoInOne  == r1 :> c1 @@ r2 :> c1 @@ r3 :> c2
=============================================================================
