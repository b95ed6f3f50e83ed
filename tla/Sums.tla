-------------------------------- MODULE Sums --------------------------------
(* The sum of a function over a finite set: what reduce and count give.    *)
EXTENDS Integers, FiniteSets, FiniteSetsExt

Total(f, S) == MapThenSumSet(LAMBDA t : f[t], S)
=============================================================================
