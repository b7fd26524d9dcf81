----------------------------- MODULE MCDelivery -----------------------------
(* Instances of Delivery.  Ann (device a1) writes to Bob (b1), who lists.   *)
EXTENDS Delivery, TLC

CONSTANTS ann, bob, a1, cv1

MCOwner   == [d \in Device |-> IF d = a1 THEN ann ELSE bob]
MCMembers == [v \in Conversation |-> IF v = cv1 THEN {ann, bob} ELSE {ann}]

Symmetry == Permutations(Request) \cup Permutations(Listing) \cup Permutations(ClientId)

\* Ann's device stays as it was.
AnnStays == device'[a1] = device[a1]
=============================================================================
