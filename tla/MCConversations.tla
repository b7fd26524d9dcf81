-------------------------- MODULE MCConversations --------------------------
(* Instances of Conversations: Ann, Bob and Cid, whose account is pending.  *)
EXTENDS Conversations, TLC

Symmetry == Permutations(Request) \cup Permutations(Listing)
=============================================================================
