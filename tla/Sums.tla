-------------------------------- MODULE Sums --------------------------------
(* What amounts that belong to the members of a finite set come to.          *)
EXTENDS Integers, FiniteSets

FX == INSTANCE FiniteSetsExt

\* f[x], summed over the x in S.
Total(f, S) == FX!MapThenSumSet(LAMBDA x : f[x], S)
=============================================================================
