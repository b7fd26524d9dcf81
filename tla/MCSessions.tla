----------------------------- MODULE MCSessions -----------------------------
(* Instances of Sessions: requests are interchangeable until they start.    *)
EXTENDS Sessions, TLC

Symmetry == Permutations(Request)
=============================================================================
