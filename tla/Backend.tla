------------------------------ MODULE Backend ------------------------------
(***************************************************************************)
(* Sessions and sends as one process: the logins and logouts of Sessions   *)
(* write the devices rows that RequireAuth and the fan-out of Messages     *)
(* read.  A devices row is the login that inserted it on both sides.       *)
(***************************************************************************)
EXTENDS Sessions

CONSTANTS
  User, Conversation, ClientId, Body, Members,  \* as in Messages
  Owner,  \* the account a login is for
  Send    \* requests of POST /messages

ASSUME BackendAssumption ==
  /\ Owner \in [Request -> User]
  /\ Members \in [Conversation -> SUBSET User]
  /\ None \notin [dev : Request, cid : ClientId, conv : Conversation, body : Body]
  /\ None \notin [conv : Conversation, inbox : SUBSET Request]

VARIABLES
  req, stage, rows, messages, recipients, outcome, atStart,
           \* of Messages; stage and outcome are its pc and answer
  earlier  \* history: session requests that had ended when a send was admitted

sending     == <<req, stage, rows, messages, recipients, outcome, atStart>>
backendVars == <<vars, sending, earlier>>

Sends == INSTANCE Messages WITH Device <- Request, Request <- Send, pc <- stage, answer <- outcome

BackendTypeOK ==
  /\ TypeOK
  /\ Sends!TypeOK
  /\ earlier \in [Send -> SUBSET Request]

BackendInit ==
  /\ Init
  /\ req = [m \in Send |-> None]
  /\ stage = [m \in Send |-> "idle"]
  /\ rows = [m \in Send |-> {}]
  /\ messages = {}
  /\ recipients = [m \in Send |-> {}]
  /\ outcome = [m \in Send |-> "none"]
  /\ atStart = [m \in Send |-> device]
  /\ earlier = [m \in Send |-> {}]

-----------------------------------------------------------------------------
\* What of Sessions is not the table it shares with Messages.
Private == <<kind, arg, pc, answer, token, session, expired, before, halfway>>

SessionStep(q) ==
  /\ \/ Login(q)
     \/ \E t \in Request : Present(q, "refresh", t) \/ Present(q, "logout", t)
     \/ Serve(q) \/ Fail(q) \/ Expire(q)
  /\ UNCHANGED <<sending, earlier>>

\* The access token was handed to a client, and names the device.
AdmitSend(m, a) ==
  /\ \E t \in Issued : session[t] = a.dev
  /\ Sends!Admit(m, a)
  /\ earlier' = [earlier EXCEPT ![m] = {q \in Request : pc[q] = "done"}]
  /\ UNCHANGED Private

SendStep(m) ==
  /\ Sends!Serve(m) \/ Sends!Fail(m)
  /\ UNCHANGED <<Private, earlier>>

\* One process: it dies with the requests of both kinds.
Die ==
  /\ \/ Crash
     \/ UNCHANGED vars /\ \A q \in Request : ~InFlight(q)
  /\ \/ Sends!Crash
     \/ UNCHANGED sending /\ \A m \in Send : ~Sends!InFlight(m)
  /\ UNCHANGED earlier

BackendNext ==
  \/ \E q \in Request : SessionStep(q)
  \/ \E m \in Send : SendStep(m) \/ \E a \in Sends!Args : AdmitSend(m, a)
  \/ Die

BackendSpec == BackendInit /\ [][BackendNext]_backendVars

-----------------------------------------------------------------------------
(* Properties.                                                             *)

\* A logout that was answered success before a send began has cut its device
\* off: the send is neither from it nor to it.  Only three things excuse: a
\* successor of the token, another request with it that stopped between its two
\* statements, or one that overlapped the logout and still ran when the send
\* began (auth/service.go, the statements of Logout; messages/service.go, the
\* devices the fan-out reads).
CutOff(d, m) == req[m].dev # d /\ d \notin recipients[m]

LoggedOutIsCutOff ==
  \A m \in messages : \A q \in earlier[m] :
    kind[q] = "logout" /\ answer[q] = "ok" =>
      \/ CutOff(session[arg[q]], m)
      \/ Replaced(arg[q])
      \/ \E p \in Request :
           /\ arg[p] = arg[q]
           /\ p \in halfway \/ (p \notin earlier[m] /\ Overlap(p, q))
=============================================================================
