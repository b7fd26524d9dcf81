----------------------------- MODULE MCMessages -----------------------------
(***************************************************************************)
(* Instances of Messages.  Ann (device a1) writes to Bob (b1) in the       *)
(* conversation cv1; cv2 is one of hers that Bob is not in.                *)
(***************************************************************************)
EXTENDS Messages

CONSTANTS ann, bob, a1, b1, cv1, cv2, r1, r2, r3

MCOwner   == [d \in Device |-> IF d = a1 THEN ann ELSE bob]
MCMembers == [v \in Conversation |-> IF v = cv1 THEN {ann, bob} ELSE {ann}]

\* Requests are interchangeable until they start, so they start in one order;
\* a symmetry set would not do for liveness.
InOrder ==
  /\ pc[r2]' # "idle" => pc[r1]' # "idle"
  /\ pc[r3]' # "idle" => pc[r2]' # "idle"

\* Bob's device comes and goes; Ann's stays as it was.
AnnStays == device'[a1] = device[a1]
=============================================================================
