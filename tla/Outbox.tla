------------------------------- MODULE Outbox -------------------------------
(***************************************************************************)
(* The app's sendMessage on one device, ChatScreen over MessageRepository, *)
(* composed with the server of Messages: the app's attempts are requests   *)
(* of that module, beside those of the other devices.                      *)
(*                                                                         *)
(* The encryption it tries first always falls back to plaintext: no bundle *)
(* of the server carries the Kyber prekey it asks for.                     *)
(***************************************************************************)
EXTENDS Messages, Naturals

CONSTANTS
  Phone,   \* the device the app is logged in on
  Chat,    \* the conversation of the screen
  MaxOpen  \* bound: openings of the screen

ASSUME OutboxAssumption ==
  Phone \in Device /\ Chat \in Conversation /\ MaxOpen \in Nat

VARIABLES
  onScreen,  \* the screen is open; its database with it
  opened,    \* how many times it was opened
  field,     \* the text in its input field
  text,      \* the text a request of the app sends
  tappedOn,  \* the opening it was sent from, 0 for a request of others
  told,      \* where the app is with it: "waiting" for the answer, "saved" in
             \* the table, shown as "sent", reported as "failed", or ended in
             \* silence because its screen was left; "none" before
  table      \* messageIds in the local table

appVars == <<onScreen, opened, field, text, tappedOn, told, table>>
outVars == <<vars, appVars>>

OutboxTypeOK ==
  /\ onScreen \in BOOLEAN
  /\ opened \in Nat
  /\ field \in Nat
  /\ text \in [Request -> Nat]
  /\ tappedOn \in [Request -> Nat]
  /\ told \in [Request -> {"none", "waiting", "saved", "sent", "failed", "silent"}]
  /\ table \subseteq Request

OutboxInit ==
  /\ Init
  /\ onScreen = FALSE
  /\ opened = 0
  /\ field = 0
  /\ text = [r \in Request |-> 0]
  /\ tappedOn = [r \in Request |-> 0]
  /\ told = [r \in Request |-> "none"]
  /\ table = {}

-----------------------------------------------------------------------------
FromApp(r) == tappedOn[r] # 0

\* _sendMessage still awaits the repository (_sending).
Awaited(r) == told[r] \in {"waiting", "saved"}

\* mounted, of the screen the send was tapped on.
Mounted(r) == onScreen /\ tappedOn[r] = opened

\* A new screen has an empty field.
OpenScreen ==
  /\ ~onScreen /\ opened < MaxOpen
  /\ onScreen' = TRUE
  /\ opened' = opened + 1
  /\ field' = field + 1
  /\ UNCHANGED <<vars, text, tappedOn, told, table>>

\* dispose closes the database: what the screen still awaits is not saved.
CloseScreen ==
  /\ onScreen
  /\ onScreen' = FALSE
  /\ UNCHANGED <<vars, opened, field, text, tappedOn, told, table>>

\* Fault: _sending is not looked at.
TapAgain(r) ==
  /\ pc[r] = "idle" /\ ~FromApp(r) /\ onScreen
  /\ text' = [text EXCEPT ![r] = field]
  /\ tappedOn' = [tappedOn EXCEPT ![r] = opened]
  /\ told' = [told EXCEPT ![r] = "waiting"]
  /\ UNCHANGED <<vars, onScreen, opened, field, table>>

\* One send at a time (_sending), per screen; the text stays in the field.
TapSend(r) ==
  /\ pc[r] = "idle" /\ ~FromApp(r) /\ onScreen
  /\ \A s \in Request : Awaited(s) => tappedOn[s] # opened
  /\ text' = [text EXCEPT ![r] = field]
  /\ tappedOn' = [tappedOn EXCEPT ![r] = opened]
  /\ told' = [told EXCEPT ![r] = "waiting"]
  /\ UNCHANGED <<vars, onScreen, opened, field, table>>

\* The POST reaches the server, with a client_message_id drawn for this call.
Arrive(r, a) ==
  /\ FromApp(r)
  /\ a.dev = Phone /\ a.conv = Chat
  /\ \A s \in Request : pc[s] # "idle" => req[s].cid # a.cid
  /\ Admit(r, a)
  /\ UNCHANGED appVars

\* Fault: the local row is named by the client_message_id.
SaveUnderClientId(r) ==
  /\ told[r] = "waiting" /\ answer[r] = "created" /\ Mounted(r)
  /\ table' = table \cup {req[r].cid}
  /\ told' = [told EXCEPT ![r] = "saved"]
  /\ UNCHANGED <<vars, onScreen, opened, field, text, tappedOn>>

\* The answer is saved under the server's id, in the screen's database.
SaveSent(r) ==
  /\ told[r] = "waiting" /\ answer[r] = "created" /\ Mounted(r)
  /\ table' = table \cup {r}
  /\ told' = [told EXCEPT ![r] = "saved"]
  /\ UNCHANGED <<vars, onScreen, opened, field, text, tappedOn>>

\* The message is shown and the field cleared.
ShowSent(r) ==
  /\ told[r] = "saved" /\ Mounted(r)
  /\ field' = field + 1
  /\ told' = [told EXCEPT ![r] = "sent"]
  /\ UNCHANGED <<vars, onScreen, opened, text, tappedOn, table>>

\* An error, a lost request or answer, the receiveTimeout, or a failed save:
\* a snackbar says so, and the field keeps the text.
ReportFailed(r) ==
  /\ told[r] = "waiting" /\ Mounted(r)
  /\ told' = [told EXCEPT ![r] = "failed"]
  /\ UNCHANGED <<vars, onScreen, opened, field, text, tappedOn, table>>

\* Whatever came of it finds the screen left: nobody is told.
EndSilently(r) ==
  /\ Awaited(r) /\ ~Mounted(r)
  /\ told' = [told EXCEPT ![r] = "silent"]
  /\ UNCHANGED <<vars, onScreen, opened, field, text, tappedOn, table>>

\* The server's own steps, and the other devices' requests.
ServerStep ==
  /\ \/ \E d \in Device : DeviceLogin(d) \/ DeviceLogout(d)
     \/ \E r \in Request :
          \/ ~FromApp(r) /\ \E a \in Args : a.dev # Phone /\ Admit(r, a)
          \/ Serve(r)
          \/ Fail(r)
     \/ Crash
  /\ UNCHANGED appVars

OutboxNext ==
  \/ OpenScreen \/ CloseScreen
  \/ \E r \in Request :
       \/ TapSend(r) \/ SaveSent(r) \/ ShowSent(r) \/ ReportFailed(r) \/ EndSilently(r)
       \/ \E a \in Args : Arrive(r, a)
  \/ ServerStep

OutboxSpec == OutboxInit /\ [][OutboxNext]_outVars

-----------------------------------------------------------------------------
(* Properties.                                                             *)

\* While its screen is open, a stored message its sender's table misses is
\* awaited or was reported failed: the sender's devices are left out of the
\* fan-out, so no list brings it back, and a screen that was left tells nobody.
\* A text is stored twice only where it was sent again from the one screen that
\* had reported it failed, though the server had it.
LostOnlyByLeaving ==
  \A m \in messages : FromApp(m) /\ Mounted(m) =>
    m \in table \/ told[m] \in {"waiting", "failed"}

StoredTwiceOnlyIfReported ==
  \A m, n \in messages : FromApp(m) /\ FromApp(n) /\ m # n /\ text[m] = text[n] =>
    tappedOn[m] = tappedOn[n] /\ "failed" \in {told[m], told[n]}

SentOnceOrTold == LostOnlyByLeaving /\ StoredTwiceOnlyIfReported
=============================================================================
