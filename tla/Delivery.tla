------------------------------- MODULE Delivery -------------------------------
(***************************************************************************)
(* What one device reads of what is sent to it: the sends of Messages fill *)
(* the conversation that the lists of Inbox page through.  The devices'    *)
(* rows, the fan-out and the clock are what the two have in common.        *)
(***************************************************************************)
EXTENDS Messages, Naturals, FiniteSets

CONSTANTS
  Reader, Chat,  \* the device that lists, the conversation it lists
  Listing,       \* its requests; bounds the lists
  Limit,         \* limit, after its default and maximum
  MaxClock       \* bound: distinct created_at values

ASSUME DeliveryAssumption ==
  /\ Reader \in Device /\ Chat \in Conversation
  /\ Limit \in Nat \ {0}
  /\ MaxClock \in Nat
  /\ None \notin Request

VARIABLES
  created,  \* messages.created_at
  timed,    \* the sends that have taken theirs
  status,   \* message_recipients.status for Reader and Chat, "none" without a row
  step, cursor, page, reply, missing  \* the lists: pc, cursor, page, answer and
                                       \* missing of Inbox

listing      == <<step, cursor, page, reply, missing>>
deliveryVars == <<vars, created, timed, status, listing>>

\* A send is "open" from the moment it takes its created_at, and stays so if
\* it is rolled back or goes to another conversation.
InChat(m) == m \in messages /\ req[m].conv = Chat
PlaceBar ==
  [m \in Request |-> IF InChat(m) THEN "stored" ELSE IF m \in timed THEN "open" ELSE "absent"]

In == INSTANCE Inbox WITH Msg <- Request, place <- PlaceBar, pc <- step, answer <- reply

DeliveryInit ==
  /\ Init
  /\ timed = {}
  /\ created = [m \in Request |-> 0]
  /\ status = [m \in Request |-> "none"]
  /\ step = [l \in Listing |-> "idle"]
  /\ cursor = [l \in Listing |-> None]
  /\ page = [l \in Listing |-> {}]
  /\ reply = [l \in Listing |-> "none"]
  /\ missing = [l \in Listing |-> {}]

-----------------------------------------------------------------------------
\* created_at is set before the INSERT is sent, and waits with it.
TakeTime(r) ==
  /\ pc[r] = "insert" /\ r \notin timed
  /\ timed' = timed \cup {r}
  /\ UNCHANGED vars
  /\ In!InsertMessage(r)

\* The statements of a send that no list can see.
ServeSend(r) ==
  /\ \/ \E a \in Args : Admit(r, a)
     \/ CheckParticipant(r)
     \/ r \in timed /\ InsertMessage(r)
     \/ BuildRecipientRows(r) \/ LoadExisting(r) \/ Fail(r)
  /\ UNCHANGED <<created, timed, status, listing>>

\* The message and its recipients' rows become visible together.
CommitSend(r) ==
  /\ Commit(r)
  /\ status' = [status EXCEPT ![r] =
                  IF req[r].conv = Chat /\ Reader \in rows[r] THEN "sent" ELSE "none"]
  /\ UNCHANGED <<created, timed, listing>>

\* RequireAuth has met the device active; it may have been logged out since.
ServeList(l) ==
  /\ device[Reader] # "absent"
  /\ UNCHANGED <<vars, timed>>
  /\ \/ In!Refuse(l)
     \/ /\ Owner[Reader] \in Members[Chat]
        /\ \E c \in Request \cup {None} : In!Query(l, c)
     \/ In!MarkDelivered(l) \/ In!Reply(l) \/ In!Lose(l)

Elsewhere ==
  /\ Crash \/ \E d \in Device : DeviceLogin(d) \/ DeviceLogout(d)
  /\ UNCHANGED <<created, timed, status, listing>>

DeliveryNext ==
  \/ \E r \in Request : TakeTime(r) \/ ServeSend(r) \/ CommitSend(r)
  \/ \E l \in Listing : ServeList(l)
  \/ Elsewhere

DeliverySpec == DeliveryInit /\ [][DeliveryNext]_deliveryVars

-----------------------------------------------------------------------------
(* Properties.                                                             *)

\* The stored messages of the conversation that are meant for the device.
Addressed == {m \in messages : req[m].conv = Chat /\ Reader \in OtherDevices(m)}

\* A finished walk reads nothing but messages addressed to the device, and as
\* long as it stays logged in all of them: those sent after its login that
\* were stored when the pages were read, but for ties of created_at at the end
\* of a page (service.go: the fan-out, the list's join and its cursor).
ReadsWhatWasSent ==
  \A W \in SUBSET Listing : In!Walk(W) =>
    LET read == UNION {page[l] : l \in W}
        late == UNION {missing[l] : l \in W}
        tied == {m \in Request : \E l \in W :
                   cursor[l] # None /\ created[m] = created[cursor[l]]}
    IN  /\ \A m \in read : m \in Addressed /\ atStart[m][Reader] # "revoked"
        /\ device[Reader] = "active" =>
             {m \in Addressed : atStart[m][Reader] = "active"} \subseteq read \cup late \cup tied
=============================================================================
