------------------------------- MODULE Inbox -------------------------------
(***************************************************************************)
(* GET /messages/:conversationId: internal/messages Service.ListMessages   *)
(* for one device and one conversation, beside the transactions of the     *)
(* sends that fill it.  created_at is taken before the INSERT, so messages *)
(* may become visible in another order than the one they are listed in.    *)
(***************************************************************************)
EXTENDS Naturals, FiniteSets

CONSTANTS
  Msg,       \* messages of the conversation; bounds the sends
  Listing,   \* requests; bounds the lists
  Limit,     \* limit, after its default and maximum
  MaxClock,  \* bound: distinct created_at values
  None

ASSUME InboxAssumption ==
  /\ Limit \in Nat \ {0}
  /\ MaxClock \in Nat
  /\ None \notin Msg

VARIABLES
  created,   \* messages.created_at
  place,     \* the messages row: "absent", "open" in its transaction, "stored"
  status,    \* message_recipients.status for the device, "none" without a row
  pc,        \* where each list is
  cursor,    \* before_message_id
  page,      \* rows its query returned
  answer,    \* "items", a refusal, or "lost"; "none" while it runs
  missing    \* history: messages not stored when a list's query ran

sends == <<created, place>>
lists == <<pc, cursor, page, answer, missing>>
vars  == <<sends, status, lists>>

TypeOK ==
  /\ created \in [Msg -> Nat]
  /\ place \in [Msg -> {"absent", "open", "stored"}]
  /\ status \in [Msg -> {"none", "sent", "delivered"}]
  /\ pc \in [Listing -> {"idle", "mark", "reply", "done"}]
  /\ cursor \in [Listing -> Msg \cup {None}]
  /\ page \in [Listing -> SUBSET Msg]
  /\ answer \in [Listing -> {"none", "items", "refused", "lost"}]
  /\ missing \in [Listing -> SUBSET Msg]

Init ==
  /\ created = [m \in Msg |-> 0]
  /\ place = [m \in Msg |-> "absent"]
  /\ status = [m \in Msg |-> "none"]
  /\ pc = [l \in Listing |-> "idle"]
  /\ cursor = [l \in Listing |-> None]
  /\ page = [l \in Listing |-> {}]
  /\ answer = [l \in Listing |-> "none"]
  /\ missing = [l \in Listing |-> {}]

-----------------------------------------------------------------------------
(* Sends, as far as a list can see them.                                   *)

\* The clock does not go back: created_at is no less than any taken before.
\* A transaction that rolls back is one that stays open.
InsertMessage(m) ==
  /\ place[m] = "absent"
  /\ place' = [place EXCEPT ![m] = "open"]
  /\ \E t \in 0 .. MaxClock :
       /\ \A n \in Msg : place[n] # "absent" => created[n] <= t
       /\ created' = [created EXCEPT ![m] = t]
  /\ UNCHANGED <<status, lists>>

\* The device has a row unless it is the sender's or logged in too late.
CommitMessage(m) ==
  /\ place[m] = "open"
  /\ place' = [place EXCEPT ![m] = "stored"]
  /\ \E s \in {"none", "sent"} : status' = [status EXCEPT ![m] = s]
  /\ UNCHANGED <<created, lists>>

-----------------------------------------------------------------------------
(* One list.                                                               *)

Stored == {m \in Msg : place[m] = "stored"}

\* WHERE: the device's rows, older than the cursor if there is one.
Matching(c) ==
  {m \in Stored : status[m] # "none" /\ (c # None => created[m] < created[c])}

\* Fault: DESC is missing, so a page holds the oldest rows that match.
OldestPages(S) ==
  {P \in SUBSET S : /\ Cardinality(P) <= Limit
                    /\ \A m \in P, n \in S \ P : created[m] <= created[n]
                    /\ P # S => Cardinality(P) = Limit}

\* ORDER BY created_at DESC LIMIT: rows with one created_at come in any order.
Pages(S) ==
  {P \in SUBSET S : /\ Cardinality(P) <= Limit
                    /\ \A m \in P, n \in S \ P : created[n] <= created[m]
                    /\ P # S => Cardinality(P) = Limit}

Goto(l, stage) == pc' = [pc EXCEPT ![l] = stage]

Finish(l, a) == Goto(l, "done") /\ answer' = [answer EXCEPT ![l] = a]

\* The caller is no participant, or the cursor no message of the conversation.
Refuse(l) ==
  /\ pc[l] = "idle"
  /\ Finish(l, "refused")
  /\ UNCHANGED <<sends, status, cursor, page, missing>>

\* The participant check, the lookup of the cursor and the query: the first
\* two read rows that never change.
Query(l, c) ==
  /\ pc[l] = "idle"
  /\ c \in Stored \cup {None}
  /\ cursor' = [cursor EXCEPT ![l] = c]
  /\ \E P \in Pages(Matching(c)) :
       /\ page' = [page EXCEPT ![l] = P]
       /\ Goto(l, IF \E m \in P : status[m] = "sent" THEN "mark" ELSE "reply")
  /\ missing' = [missing EXCEPT ![l] = Msg \ Stored]
  /\ UNCHANGED <<sends, status, answer>>

\* Fault: the UPDATE is not restricted to the rows of the page.
MarkAll(l) ==
  /\ pc[l] = "mark"
  /\ status' = [m \in Msg |-> IF status[m] = "sent" THEN "delivered" ELSE status[m]]
  /\ Goto(l, "reply")
  /\ UNCHANGED <<sends, cursor, page, answer, missing>>

\* Fault: a fetched message counts as read.
MarkRead(l) ==
  /\ pc[l] = "mark"
  /\ status' = [m \in Msg |-> IF m \in page[l] THEN "read" ELSE status[m]]
  /\ Goto(l, "reply")
  /\ UNCHANGED <<sends, cursor, page, answer, missing>>

\* UPDATE message_recipients by id; its error is only logged.
MarkDelivered(l) ==
  /\ pc[l] = "mark"
  /\ \/ status' = [m \in Msg |-> IF m \in page[l] THEN "delivered" ELSE status[m]]
     \/ UNCHANGED status
  /\ Goto(l, "reply")
  /\ UNCHANGED <<sends, cursor, page, answer, missing>>

Reply(l) ==
  /\ pc[l] = "reply"
  /\ Finish(l, "items")
  /\ UNCHANGED <<sends, status, cursor, page, missing>>

\* A query fails, the server dies or the connection drops: no page arrives,
\* whatever the UPDATE has done.
Lose(l) ==
  /\ pc[l] # "done"
  /\ Finish(l, "lost")
  /\ UNCHANGED <<sends, status, cursor, page, missing>>

Next ==
  \/ \E m \in Msg : InsertMessage(m) \/ CommitMessage(m)
  \/ \E l \in Listing :
       \/ Refuse(l)
       \/ \E c \in Msg \cup {None} : Query(l, c)
       \/ MarkDelivered(l) \/ Reply(l) \/ Lose(l)

Spec == Init /\ [][Next]_vars

-----------------------------------------------------------------------------
(* Properties.                                                             *)

\* The page l continues the page p: its cursor is p's last row.
Follows(p, l) ==
  /\ cursor[l] \in page[p]
  /\ \A m \in page[p] : created[cursor[l]] <= created[m]

\* A finished walk: it has the newest page and what follows every full one.
Walk(W) ==
  /\ \E l \in W : cursor[l] = None
  /\ \A l \in W :
       /\ answer[l] = "items"
       /\ Cardinality(page[l]) = Limit => \E n \in W : Follows(l, n)

\* A finished walk has met every message of the device that was stored when
\* its pages were read, but for those that share their created_at with the
\* last row of a page (service.go, the cursor's strict comparison).  One that
\* was in its transaction while a page was read may never be met.
WalkMissesOnlyTies ==
  \A W \in SUBSET Listing : Walk(W) =>
    \A m \in {n \in Msg : status[n] # "none"} : \E l \in W :
      \/ m \in page[l] \cup missing[l]
      \/ cursor[l] # None /\ created[m] = created[cursor[l]]
=============================================================================
