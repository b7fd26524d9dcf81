---------------------------- MODULE MCChatClient ----------------------------
(* Instances of ChatClient: messages, openings and the lists of others are  *)
(* interchangeable until they start.                                        *)
EXTENDS ChatClient, TLC

Symmetry == Permutations(Msg) \cup Permutations(Opening) \cup Permutations(Listing \ Opening)
=============================================================================
