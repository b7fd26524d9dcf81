----------------------------- MODULE MCBackend -----------------------------
(***************************************************************************)
(* Instances of Backend: a login by q1 is Ann's, one by another request    *)
(* Bob's; every request may as well refresh or log out.                    *)
(***************************************************************************)
EXTENDS Backend, TLC

CONSTANTS ann, bob, q1

MCOwner   == [q \in Request |-> IF q = q1 THEN ann ELSE bob]
MCMembers == [v \in Conversation |-> {ann, bob}]

Symmetry == Permutations(Request \ {q1})

\* A send that ended without a row is not followed further: the requests go on
\* as if it had not been.
StoredOrUnderWay == \A m \in Send : stage[m] = "done" => m \in messages
=============================================================================
