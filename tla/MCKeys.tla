------------------------------- MODULE MCKeys -------------------------------
(* Instances of Keys: requests, key ids and identities are interchangeable. *)
EXTENDS Keys, TLC

Symmetry == Permutations(Upload) \cup Permutations(Fetch)
              \cup Permutations(KeyId) \cup Permutations(Ident)

\* Two fetches meet in the one-time keys, two identities in one bundle; no
\* statement looks at both.
OneMeeting ==
  \/ \A f, g \in Fetch : fpc[f] # "idle" /\ fpc[g] # "idle" => f = g
  \/ \A u, v \in {w \in Upload : what[w] # None} : what[u].ident = what[v].ident
=============================================================================
