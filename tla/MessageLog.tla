----------------------------- MODULE MessageLog -----------------------------
(***************************************************************************)
(* What POST /messages promises its clients, without requests, statements  *)
(* or transactions: a key (sending device, client_message_id) names one    *)
(* message for ever, stored together with its whole recipient list, and    *)
(* every reply agrees with what the key names.                             *)
(***************************************************************************)

CONSTANTS Key, Conversation, Device, None

Entry == [conv : Conversation, inbox : SUBSET Device]
Reply == [key : Key, conv : Conversation,
          code : {"created", "existing", "reused"}]

VARIABLES
  log,      \* what each key names
  replies   \* every reply a client may have acted on

TypeOK ==
  /\ log \in [Key -> Entry \cup {None}]
  /\ replies \subseteq Reply

Init ==
  /\ log = [k \in Key |-> None]
  /\ replies = {}

\* The message is stored and announced; the announcement may fail.
Post(k, v, ds) ==
  /\ log[k] = None
  /\ log' = [log EXCEPT ![k] = [conv |-> v, inbox |-> ds]]
  /\ \/ replies' = replies \cup {[key |-> k, conv |-> v, code |-> "created"]}
     \/ UNCHANGED replies

\* A repeated send learns what its key already names.
Repeat(k, v) ==
  /\ log[k] # None
  /\ replies' = replies \cup
       {[key |-> k, conv |-> v,
         code |-> IF log[k].conv = v THEN "existing" ELSE "reused"]}
  /\ UNCHANGED log

Next ==
  \E k \in Key, v \in Conversation :
    \/ \E ds \in SUBSET Device : Post(k, v, ds)
    \/ Repeat(k, v)

Spec == Init /\ [][Next]_<<log, replies>>
=============================================================================
