------------------------------ MODULE Accounts ------------------------------
(***************************************************************************)
(* POST /auth/register, /auth/resend-otp and /auth/verify-otp for one      *)
(* identifier: the users row that internal/auth Service keeps in Postgres  *)
(* around the codes that internal/otp keeps in Redis.  A request runs its  *)
(* own SQL statements, and Otp's commands where it calls that service.     *)
(*                                                                         *)
(* The users row is named by the registration that inserted it.            *)
(***************************************************************************)
EXTENDS Otp

VARIABLES
  kind,     \* what each request is
  stage,    \* its next statement; "otp" from the call of Otp on
  reply,    \* its answer when its own statements decide it
  account,  \* users row of the identifier, None before its INSERT
  status,   \* users.account_status
  struck    \* history: requests one of whose statements met a failure

accountVars == <<kind, stage, reply, account, status, struck>>
allVars     == <<vars, accountVars>>

AccountTypeOK ==
  /\ TypeOK
  /\ kind \in [Request -> {"none", "register", "resend", "verify"}]
  /\ stage \in [Request -> {"idle", "create", "otp", "ended"}]
  /\ reply \in [Request -> {"none", "taken", "notfound", "already", "verified", "error"}]
  /\ account \in Request \cup {None}
  /\ status \in {"none", "pending_verification", "active"}
  /\ struck \subseteq Request

AccountInit ==
  /\ Init
  /\ kind = [q \in Request |-> "none"]
  /\ stage = [q \in Request |-> "idle"]
  /\ reply = [q \in Request |-> "none"]
  /\ account = None
  /\ status = "none"
  /\ struck = {}

-----------------------------------------------------------------------------
Enter(q, k) == stage[q] = "idle" /\ kind' = [kind EXCEPT ![q] = k]

Proceed(q, s) == stage' = [stage EXCEPT ![q] = s] /\ UNCHANGED reply

End(q, a) ==
  /\ stage' = [stage EXCEPT ![q] = "ended"]
  /\ reply' = [reply EXCEPT ![q] = a]

\* Otp has answered q, and q goes on with that.
Returned(q, k) == kind[q] = k /\ stage[q] = "otp" /\ pc[q] = "done"

\* A registration that answers 201: an error of Generate is only logged.
Registered(q) == Returned(q, "register")

-----------------------------------------------------------------------------
(* Register.                                                               *)

\* The count for a friendly error; the identifier may be taken after it.
CountExisting(q) ==
  /\ Enter(q, "register")
  /\ \/ account = None /\ Proceed(q, "create")
     \/ account # None /\ End(q, "taken")
  /\ UNCHANGED <<vars, account, status, struck>>

\* Fault: no unique constraint on the identifier.
InsertUser(q) ==
  /\ stage[q] = "create"
  /\ account' = q
  /\ status' = "pending_verification"
  /\ StartGenerate(q)
  /\ Proceed(q, "otp")
  /\ UNCHANGED <<kind, struck>>

\* INSERT INTO users under its unique constraint, then the call of Generate;
\* the INSERT may have committed although the handler only saw an error.
CreateUser(q) ==
  /\ stage[q] = "create"
  /\ \/ /\ account = None
        /\ account' = q
        /\ status' = "pending_verification"
        /\ \/ StartGenerate(q) /\ Proceed(q, "otp") /\ UNCHANGED struck
           \/ UNCHANGED vars /\ End(q, "error") /\ struck' = struck \cup {q}
     \/ /\ account # None
        /\ End(q, "taken")
        /\ UNCHANGED <<vars, account, status, struck>>
  /\ UNCHANGED kind

-----------------------------------------------------------------------------
(* ResendOTP.                                                              *)

\* The row is read once, before the code is generated.  Only an active account is
\* refused; no code of the repository sets the other statuses Login knows.
FindUnverified(q) ==
  /\ Enter(q, "resend")
  /\ \/ account = None /\ End(q, "notfound") /\ UNCHANGED vars
     \/ account # None /\ status = "active" /\ End(q, "already") /\ UNCHANGED vars
     \/ account # None /\ status # "active" /\ Proceed(q, "otp") /\ StartGenerate(q)
  /\ UNCHANGED <<account, status, struck>>

-----------------------------------------------------------------------------
(* VerifyOTP.                                                              *)

Submit(q, c) ==
  /\ Enter(q, "verify")
  /\ StartVerify(q, c)
  /\ Proceed(q, "otp")
  /\ UNCHANGED <<account, status, struck>>

\* Fault: the error of the UPDATE is dropped.
ActivateUnchecked(q) ==
  /\ Returned(q, "verify") /\ answer[q] = "ok"
  /\ status' \in {status, "active"}
  /\ End(q, "verified")
  /\ UNCHANGED <<vars, kind, account, struck>>

\* The SELECT and the UPDATE by id, whatever account_status holds by then; it
\* may have committed although the handler only saw an error.
Activate(q) ==
  /\ Returned(q, "verify") /\ answer[q] = "ok"
  /\ status' = "active"
  /\ \/ End(q, "verified") /\ UNCHANGED struck
     \/ End(q, "error") /\ struck' = struck \cup {q}
  /\ UNCHANGED <<vars, kind, account>>

-----------------------------------------------------------------------------
\* A statement fails or the server dies before it: what Redis and Postgres
\* hold stays.
FailStatement(q) ==
  /\ stage[q] = "create" \/ (Returned(q, "verify") /\ answer[q] = "ok")
  /\ End(q, "error")
  /\ struck' = struck \cup {q}
  /\ UNCHANGED <<vars, kind, account, status>>

\* Otp's own steps.
RunOtp(q) ==
  /\ \/ AcquireCooldown(q) \/ StoreCode(q) \/ ResetAttempts(q)
     \/ IncrAttempts(q) \/ ExpireAttempts(q) \/ CheckLimit(q)
     \/ CompareCode(q) \/ ConsumeCode(q)
     \/ Fail(q)
  /\ UNCHANGED accountVars

EndTTL ==
  /\ CooldownEnds \/ CodeExpires \/ AttemptsExpire
  /\ UNCHANGED accountVars

\* MaxFaults bounds the failures of both stores together.
AccountNext ==
  /\ \/ \E q \in Request :
          \/ CountExisting(q) \/ CreateUser(q)
          \/ FindUnverified(q)
          \/ \E c \in Request \cup {None} : Submit(q, c)
          \/ Activate(q)
          \/ FailStatement(q)
          \/ RunOtp(q)
     \/ EndTTL
  /\ Cardinality(faulted' \cup struck') <= MaxFaults

AccountSpec == AccountInit /\ [][AccountNext]_allVars

-----------------------------------------------------------------------------
(* Properties.                                                             *)

\* Of the registrations that race for the identifier only the one whose row
\* stands is told it succeeded, and one is told it is taken only by the row of
\* another (service.go, "what makes this correct even under a race").
RegisteredOnce ==
  \A q \in Request :
    /\ Registered(q) => account = q
    /\ reply[q] = "taken" => account \notin {q, None}

\* The two stores agree: the account is active only by a submission that
\* matched a code sent for it, and is left pending by one that succeeded only
\* while that one is on its way or when a failure met it in between.
SpentCodeActivates ==
  LET matched == {v \in Request : kind[v] = "verify" /\ answer[v] = "ok" /\ won[v] # None}
  IN  /\ status = "active" => matched # {}
      /\ status # "active" => \A v \in matched : stage[v] = "otp" \/ v \in struck

\* A registration that answers success has sent its code, unless Redis failed
\* it or a resend took the cooldown between its INSERT and its SETNX; that one
\* sends a code unless it fails.
RegisterSendsCode ==
  \A q \in Request : Registered(q) =>
    \/ answer[q] = "sent" \/ q \in faulted
    \/ \E g \in Request :
         /\ kind[g] = "resend" /\ stage[g] = "otp"
         /\ InFlight(g) \/ answer[g] = "sent" \/ g \in faulted
=============================================================================
