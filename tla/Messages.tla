------------------------------ MODULE Messages ------------------------------
(***************************************************************************)
(* POST /messages: internal/messages Service.SendMessage behind the        *)
(* RequireAuth middleware, at the granularity of the statements it sends   *)
(* to Postgres.  Requests run concurrently (one goroutine each); clients   *)
(* repeat a client_message_id at will; devices log in and out meanwhile;   *)
(* any statement may fail and the server may crash.                        *)
(*                                                                         *)
(* A messages row is identified by the request whose transaction inserted  *)
(* it: every attempt generates its own row id.  The args of a request stay *)
(* in req, so req[m] holds the columns of the row m.                       *)
(***************************************************************************)

CONSTANTS
  User,          \* accounts
  Device,        \* rows of devices that may come to exist
  Conversation,  \* existing conversations
  ClientId,      \* client_message_id values
  Body,          \* message bodies
  Request,       \* HTTP requests; bounds how many sends are attempted
  Owner,         \* devices.user_id
  Members,       \* active conversation_participants: no code clears is_active
  None

Args == [dev : Device, cid : ClientId, conv : Conversation, body : Body]

ASSUME MessagesAssumption ==
  /\ Owner \in [Device -> User]
  /\ Members \in [Conversation -> SUBSET User]
  /\ None \notin Args
  /\ None \notin [conv : Conversation, inbox : SUBSET Device]

VARIABLES
  device,      \* devices.status; "absent" before the login that inserts the row
  req,         \* what each request asked for
  pc,          \* where each request is in SendMessage
  rows,        \* recipientRows: devices the open transaction fans out to
  messages,    \* committed rows of messages
  recipients,  \* committed rows of message_recipients, per message
  answer,      \* the outcome the handler maps to a status code
  atStart      \* history: devices.status when the request was admitted

vars == <<device, req, pc, rows, messages, recipients, answer, atStart>>

DeviceRows == INSTANCE Devices

DeviceStatus == {"absent", "active", "revoked"}
Stage  == {"idle", "check", "insert", "fanout", "commit", "lookup", "done"}
Answer == {"none", "created", "existing", "reused", "forbidden", "error", "lost"}

TypeOK ==
  /\ device \in [Device -> DeviceStatus]
  /\ req \in [Request -> Args \cup {None}]
  /\ pc \in [Request -> Stage]
  /\ rows \in [Request -> SUBSET Device]
  /\ messages \subseteq Request
  /\ recipients \in [Request -> SUBSET Device]
  /\ answer \in [Request -> Answer]
  /\ atStart \in [Request -> [Device -> DeviceStatus]]

Init ==
  /\ DeviceRows!Init
  /\ req = [r \in Request |-> None]
  /\ pc = [r \in Request |-> "idle"]
  /\ rows = [r \in Request |-> {}]
  /\ messages = {}
  /\ recipients = [r \in Request |-> {}]
  /\ answer = [r \in Request |-> "none"]
  /\ atStart = [r \in Request |-> device]

-----------------------------------------------------------------------------
\* The columns of the unique index idx_message_client_dedup.
SameKey(r, s) == req[r].dev = req[s].dev /\ req[r].cid = req[s].cid

\* r's transaction has inserted its messages row and not ended: another
\* insert of the same key waits for it in Postgres.
InTransaction(r) == pc[r] \in {"fanout", "commit"}

InFlight(r) == pc[r] \notin {"idle", "done"}

\* Every OTHER active participant's devices.
OtherDevices(r) ==
  {d \in Device : /\ Owner[d] \in Members[req[r].conv]
                  /\ Owner[d] # Owner[req[r].dev]}

Goto(r, stage) == pc' = [pc EXCEPT ![r] = stage]

\* The handler returns; what the transaction had in hand is gone.
Finish(r, outcome) ==
  /\ Goto(r, "done")
  /\ answer' = [answer EXCEPT ![r] = outcome]
  /\ rows' = [rows EXCEPT ![r] = {}]

-----------------------------------------------------------------------------
(* Devices come and go as the auth service says (Sessions), at any moment. *)

DeviceLogin(d) ==
  /\ DeviceRows!Login(d)
  /\ UNCHANGED <<req, pc, rows, messages, recipients, answer, atStart>>

DeviceLogout(d) ==
  /\ DeviceRows!Logout(d)
  /\ UNCHANGED <<req, pc, rows, messages, recipients, answer, atStart>>

-----------------------------------------------------------------------------
(* One request.                                                            *)

\* RequireAuth lets the request through: its device is active now.
Admit(r, a) ==
  /\ pc[r] = "idle"
  /\ device[a.dev] = "active"
  /\ req' = [req EXCEPT ![r] = a]
  /\ atStart' = [atStart EXCEPT ![r] = device]
  /\ Goto(r, "check")
  /\ UNCHANGED <<device, rows, messages, recipients, answer>>

CheckParticipant(r) ==
  /\ pc[r] = "check"
  /\ \/ /\ Owner[req[r].dev] \in Members[req[r].conv]
        /\ Goto(r, "insert")
        /\ UNCHANGED <<answer, rows>>
     \/ /\ Owner[req[r].dev] \notin Members[req[r].conv]
        /\ Finish(r, "forbidden")
  /\ UNCHANGED <<device, req, messages, recipients, atStart>>

\* Fault: no unique index, only a look at the committed rows.
InsertUnindexed(r) ==
  /\ pc[r] = "insert"
  /\ Goto(r, IF \E m \in messages : SameKey(r, m) THEN "lookup" ELSE "fanout")
  /\ UNCHANGED <<device, req, rows, messages, recipients, answer, atStart>>

\* Fault: a duplicate key is waited for as if its holder could still roll back.
InsertPatiently(r) ==
  /\ pc[r] = "insert"
  /\ \A s \in Request : InTransaction(s) \/ s \in messages => ~SameKey(r, s)
  /\ Goto(r, "fanout")
  /\ UNCHANGED <<device, req, rows, messages, recipients, answer, atStart>>

\* INSERT INTO messages: waits while another transaction holds the key, then
\* either holds it or meets the committed row and rolls back.
InsertMessage(r) ==
  /\ pc[r] = "insert"
  /\ \A s \in Request : InTransaction(s) => ~SameKey(r, s)
  /\ \/ /\ \A m \in messages : ~SameKey(r, m)
        /\ Goto(r, "fanout")
     \/ /\ \E m \in messages : SameKey(r, m)
        /\ Goto(r, "lookup")
  /\ UNCHANGED <<device, req, rows, messages, recipients, answer, atStart>>

\* Fault: devices.status is not asked for.
BuildAllRows(r) ==
  /\ pc[r] = "fanout"
  /\ rows' = [rows EXCEPT ![r] = {d \in OtherDevices(r) : device[d] # "absent"}]
  /\ Goto(r, "commit")
  /\ UNCHANGED <<device, req, messages, recipients, answer, atStart>>

\* Fault: one device per recipient account, First in place of Find.
BuildFirstRow(r) ==
  /\ pc[r] = "fanout"
  /\ LET ds == {d \in OtherDevices(r) : device[d] = "active"}
     IN  rows' = [rows EXCEPT ![r] = IF ds = {} THEN {} ELSE {CHOOSE d \in ds : TRUE}]
  /\ Goto(r, "commit")
  /\ UNCHANGED <<device, req, messages, recipients, answer, atStart>>

\* Fault: the recipients' accounts are stored where their devices belong.
BuildUserRows(r) ==
  /\ pc[r] = "fanout"
  /\ rows' = [rows EXCEPT ![r] =
                {Owner[d] : d \in {e \in OtherDevices(r) : device[e] = "active"}}]
  /\ Goto(r, "commit")
  /\ UNCHANGED <<device, req, messages, recipients, answer, atStart>>

BuildRecipientRows(r) ==
  /\ pc[r] = "fanout"
  /\ rows' = [rows EXCEPT ![r] = {d \in OtherDevices(r) : device[d] = "active"}]
  /\ Goto(r, "commit")
  /\ UNCHANGED <<device, req, messages, recipients, answer, atStart>>

\* The recipient rows are inserted and the transaction commits.  Postgres may
\* have committed although the handler only saw an error.
Commit(r) ==
  /\ pc[r] = "commit"
  /\ messages' = messages \cup {r}
  /\ recipients' = [recipients EXCEPT ![r] = rows[r]]
  /\ Finish(r, "created") \/ Finish(r, "error")
  /\ UNCHANGED <<device, req, atStart>>

\* Fault: the conversation of the row found is not compared.
LoadAnyConversation(r) ==
  /\ pc[r] = "lookup"
  /\ \E m \in messages : SameKey(r, m)
  /\ Finish(r, "existing")
  /\ UNCHANGED <<device, req, messages, recipients, atStart>>

\* The fresh lookup after the rollback; the conversation may differ.
LoadExisting(r) ==
  /\ pc[r] = "lookup"
  /\ \E m \in messages :
       /\ SameKey(r, m)
       /\ Finish(r, IF req[m].conv = req[r].conv THEN "existing" ELSE "reused")
  /\ UNCHANGED <<device, req, messages, recipients, atStart>>

\* Fault: the error of the commit is dropped.
FailUnnoticed(r) ==
  /\ InFlight(r)
  /\ Finish(r, IF pc[r] = "commit" THEN "created" ELSE "error")
  /\ UNCHANGED <<device, req, messages, recipients, atStart>>

\* A statement fails: an open transaction is rolled back, the answer is 500.
Fail(r) ==
  /\ InFlight(r)
  /\ Finish(r, "error")
  /\ UNCHANGED <<device, req, messages, recipients, atStart>>

\* The process dies: Postgres rolls back every open transaction.
Crash ==
  /\ \E r \in Request : InFlight(r)
  /\ pc' = [r \in Request |-> IF InFlight(r) THEN "done" ELSE pc[r]]
  /\ answer' = [r \in Request |-> IF InFlight(r) THEN "lost" ELSE answer[r]]
  /\ rows' = [r \in Request |-> {}]
  /\ UNCHANGED <<device, req, messages, recipients, atStart>>

Serve(r) ==
  \/ CheckParticipant(r)
  \/ InsertMessage(r)
  \/ BuildRecipientRows(r)
  \/ Commit(r)
  \/ LoadExisting(r)

Next ==
  \/ \E d \in Device : DeviceLogin(d) \/ DeviceLogout(d)
  \/ \E r \in Request :
       \/ \E a \in Args : Admit(r, a)
       \/ Serve(r)
       \/ Fail(r)
  \/ Crash

Spec == Init /\ [][Next]_vars

\* An admitted request keeps being run: goroutines are scheduled and Postgres
\* grants a released index entry.  Clients and devices owe nothing.
Fairness == \A r \in Request : WF_vars(Serve(r))
FairSpec == Spec /\ Fairness

-----------------------------------------------------------------------------
(* Properties.                                                             *)

\* A retried send never stores a second message: at most one committed row
\* per (sender_device_id, client_message_id), whatever the attempts overlap
\* (service.go, the unique index and the rollback).
NoDuplicateMessage ==
  \A m, n \in messages : SameKey(m, n) => m = n

\* A success reply is a promise kept: 201 is the request's own row, 200 a row
\* with its key in its own conversation, 409 a row with its key elsewhere.
AckedIsStored ==
  \A r \in Request :
    /\ answer[r] = "created" => r \in messages
    /\ answer[r] = "existing" =>
         \E m \in messages \ {r} : SameKey(r, m) /\ req[m].conv = req[r].conv
    /\ answer[r] = "reused" =>
         \E m \in messages \ {r} : SameKey(r, m) /\ req[m].conv # req[r].conv

\* The fan-out goes to other participants only, never to a device of the
\* sender or one already revoked when the send began, and never without its
\* messages row (either both succeed together, or neither does).
FanOutSound ==
  \A m \in Request : \A d \in recipients[m] :
    /\ m \in messages
    /\ Owner[d] \in Members[req[m].conv]
    /\ Owner[d] # Owner[req[m].dev]
    /\ atStart[m][d] # "revoked"

\* No device that was logged in when a send began and still is misses it.
FanOutComplete ==
  \A m \in messages : \A d \in OtherDevices(m) :
    atStart[m][d] = "active" /\ device[d] = "active" => d \in recipients[m]

\* The fan-out is exact, wherever logins and logouts fall while it is read and
\* committed (buildRecipientRows).
FanOut == FanOutSound /\ FanOutComplete

\* A stored message and its recipients are final: later sends, retries and
\* crashes neither remove nor alter them.
StoredForever ==
  [][\A m \in messages : /\ m \in messages'
                         /\ recipients'[m] = recipients[m]
                         /\ req'[m] = req[m]]_vars

\* The lookup after a rollback finds the row that was in the way (service.go:
\* it runs fresh, outside the transaction), so a retry is not answered an error
\* for it; and a transaction that holds a key waits for nobody.
LookupFinds ==
  \A r \in Request : pc[r] = "lookup" => \E m \in messages : SameKey(r, m)

\* Every admitted request is answered or fails: no two transactions wait on
\* each other's index entries for ever.
EveryRequestEnds == \A r \in Request : InFlight(r) ~> pc[r] = "done"

\* SendMessage implements MessageLog: the refinement mapping reads the log off
\* the two tables and the replies off the answered requests.
Key == [dev : Device, cid : ClientId]
KeyOf(r) == [dev |-> req[r].dev, cid |-> req[r].cid]
Named(k) == \E m \in messages : KeyOf(m) = k
RowFor(k) == CHOOSE m \in messages : KeyOf(m) = k
Replied(r) == answer[r] \in {"created", "existing", "reused"}

LogBar ==
  [k \in Key |-> IF Named(k)
                  THEN [conv |-> req[RowFor(k)].conv,
                        inbox |-> recipients[RowFor(k)]]
                  ELSE None]
RepliesBar ==
  {[key |-> KeyOf(r), conv |-> req[r].conv, code |-> answer[r]] :
     r \in {s \in Request : Replied(s)}}

Log == INSTANCE MessageLog WITH log <- LogBar, replies <- RepliesBar
ImplementsMessageLog == Log!Spec
=============================================================================
