----------------------------- MODULE MCMapLock -----------------------------
EXTENDS MapLock, TLC

CONSTANTS w1, w2, p1, p2, i1, i2, i3, t1, t2, t3, a, b

\* Two threads, of two processes or of one.
OneEach == (w1 :> p1 @@ w2 :> p2)
TwoInOne == (w1 :> p1 @@ w2 :> p1)

\* Nothing orders creation times, inodes or values; w1 and w2 are alike in
\* TwoInOne.
AllSymmetry ==
  Permutations(Instants) \cup Permutations(Inodes) \cup Permutations(Values)
    \cup Permutations({w1, w2})
=============================================================================
