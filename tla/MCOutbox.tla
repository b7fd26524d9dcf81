------------------------------ MODULE MCOutbox ------------------------------
(***************************************************************************)
(* Instances of Outbox: Ann's phone a1 and her second device a2, Bob's b1, *)
(* in the conversation cv1 of both.  Requests and client_message_ids are   *)
(* interchangeable until they are used.                                    *)
(***************************************************************************)
EXTENDS Outbox, TLC

CONSTANTS ann, bob, a1, a2, b1, cv1

MCOwner   == [d \in Device |-> IF d \in {a1, a2} THEN ann ELSE bob]
MCMembers == [v \in Conversation |-> {ann, bob}]

Symmetry == Permutations(Request) \cup Permutations(ClientId)
=============================================================================
