----------------------------- MODULE MCImRelay -----------------------------
EXTENDS ImRelay, TLC
CONSTANTS i1, i2, c1, c2, e, t1, p1, p2
JustOne == i1 :> c1
OneEach == i1 :> c1 @@ i2 :> c2
OneClient == i1 :> c1 @@ i2 :> c1
=============================================================================
