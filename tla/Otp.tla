-------------------------------- MODULE Otp --------------------------------
(***************************************************************************)
(* One-time codes: internal/otp Service for one identifier, a Redis        *)
(* command a step.  Register and ResendOTP call Generate, VerifyOTP calls  *)
(* Verify; each in the goroutine of its request.                           *)
(*                                                                         *)
(* A code is named by the request that generated it (two random codes are  *)
(* taken to differ); None is a code that was never sent.                   *)
(***************************************************************************)
EXTENDS Naturals, FiniteSets

CONSTANTS
  Request,      \* requests; bounds generations and verifications together
  MaxAttempts,  \* maxAttempts
  MaxFaults,    \* bound: requests that meet a failure
  None

ASSUME OtpAssumption ==
  /\ MaxAttempts \in Nat \ {0}
  /\ MaxFaults \in Nat
  /\ None \notin Request

VARIABLES
  cooldown,   \* otp:cooldown exists
  code,       \* otp:code, None when the key is gone
  attempts,   \* otp:attempts, 0 when the key is gone
  timer,      \* TTL of otp:attempts: "none", or begun "early" or "late":
              \* before or after the present code was stored
  pc, shown,  \* per request: next command, code submitted to Verify
  count,      \* what Verify's INCR returned
  answer,     \* outcome
  tries,      \* history: requests that compared with each code
  won,        \* history: the code whose match made each Verify succeed
  before,     \* history: requests that had succeeded when a request began
  faulted     \* history: requests that a failure met

keys == <<cooldown, code, attempts, timer>>
vars == <<keys, pc, shown, count, answer, tries, won, before, faulted>>

Stage  == {"idle", "acquire", "store", "reset",
           "incr", "expire", "limit", "compare", "consume", "done"}
Answer == {"none", "sent", "toosoon", "ok", "toomany", "expired", "invalid", "error"}

TypeOK ==
  /\ cooldown \in BOOLEAN
  /\ code \in Request \cup {None}
  /\ attempts \in Nat
  /\ timer \in {"none", "early", "late"}
  /\ pc \in [Request -> Stage]
  /\ shown \in [Request -> Request \cup {None}]
  /\ count \in [Request -> Nat]
  /\ answer \in [Request -> Answer]
  /\ tries \in [Request -> SUBSET Request]
  /\ won \in [Request -> Request \cup {None}]
  /\ before \in [Request -> SUBSET Request]
  /\ faulted \subseteq Request

Init ==
  /\ cooldown = FALSE
  /\ code = None
  /\ attempts = 0
  /\ timer = "none"
  /\ pc = [q \in Request |-> "idle"]
  /\ shown = [q \in Request |-> None]
  /\ count = [q \in Request |-> 0]
  /\ answer = [q \in Request |-> "none"]
  /\ tries = [q \in Request |-> {}]
  /\ won = [q \in Request |-> None]
  /\ before = [q \in Request |-> {}]
  /\ faulted = {}

-----------------------------------------------------------------------------
InFlight(q) == pc[q] \notin {"idle", "done"}

Begin(q, stage) ==
  /\ pc[q] = "idle"
  /\ pc' = [pc EXCEPT ![q] = stage]
  /\ before' = [before EXCEPT ![q] = {p \in Request : answer[p] \in {"sent", "ok"}}]

\* Codes some client has received.
Sent == {g \in Request : answer[g] = "sent"}

Goto(q, stage) == pc' = [pc EXCEPT ![q] = stage]

\* The request is answered and its local count is gone.
Finish(q, a) ==
  /\ Goto(q, "done")
  /\ answer' = [answer EXCEPT ![q] = a]
  /\ count' = [count EXCEPT ![q] = 0]

\* A failure meets q.
MeetFault(q) ==
  /\ Cardinality(faulted \cup {q}) <= MaxFaults
  /\ faulted' = faulted \cup {q}

\* Fault: the counter is lowered by its maximum in place of a reset.
LowerAttempts == attempts' = attempts - MaxAttempts /\ timer' = "none"

ClearAttempts == attempts' = 0 /\ timer' = "none"

-----------------------------------------------------------------------------
(* Generate.                                                               *)

StartGenerate(g) ==
  /\ Begin(g, "acquire")
  /\ UNCHANGED <<keys, shown, count, answer, tries, won, faulted>>

\* Fault: the result of SETNX is read the wrong way round.
AcquireInverted(g) ==
  /\ pc[g] = "acquire"
  /\ cooldown' = TRUE
  /\ \/ cooldown /\ Goto(g, "store") /\ UNCHANGED <<answer, count>>
     \/ ~cooldown /\ Finish(g, "toosoon")
  /\ UNCHANGED <<code, attempts, timer, shown, tries, won, before, faulted>>

\* SETNX otp:cooldown.
AcquireCooldown(g) ==
  /\ pc[g] = "acquire"
  /\ cooldown' = TRUE
  /\ \/ ~cooldown /\ Goto(g, "store") /\ UNCHANGED <<answer, count>>
     \/ cooldown /\ Finish(g, "toosoon")
  /\ UNCHANGED <<code, attempts, timer, shown, tries, won, before, faulted>>

\* SET otp:code: a TTL of the counter that runs already will end first.
StoreCode(g) ==
  /\ pc[g] = "store"
  /\ code' = g
  /\ timer' = IF timer = "late" THEN "early" ELSE timer
  /\ Goto(g, "reset")
  /\ UNCHANGED <<cooldown, attempts, shown, count, answer, tries, won, before, faulted>>

\* Fault: the counter of the earlier codes stays.
KeepAttempts(g) ==
  /\ pc[g] = "reset"
  /\ Finish(g, "sent")
  /\ UNCHANGED <<keys, shown, tries, won, before, faulted>>

\* DEL otp:attempts; its error is ignored and the code is sent all the same.
ResetAttempts(g) ==
  /\ pc[g] = "reset"
  /\ \/ ClearAttempts /\ UNCHANGED faulted
     \/ MeetFault(g) /\ UNCHANGED <<attempts, timer>>
  /\ Finish(g, "sent")
  /\ UNCHANGED <<cooldown, code, shown, tries, won, before>>

-----------------------------------------------------------------------------
(* Verify.                                                                 *)

StartVerify(v, c) ==
  /\ Begin(v, "incr")
  /\ c \in Sent \cup {None}
  /\ shown' = [shown EXCEPT ![v] = c]
  /\ UNCHANGED <<keys, count, answer, tries, won, faulted>>

\* Fault: nobody sets the TTL.
IncrOnly(v) ==
  /\ pc[v] = "incr"
  /\ attempts' = attempts + 1
  /\ count' = [count EXCEPT ![v] = attempts + 1]
  /\ Goto(v, "limit")
  /\ UNCHANGED <<cooldown, code, timer, shown, answer, tries, won, before, faulted>>

IncrAttempts(v) ==
  /\ pc[v] = "incr"
  /\ attempts' = attempts + 1
  /\ count' = [count EXCEPT ![v] = attempts + 1]
  /\ Goto(v, IF attempts = 0 THEN "expire" ELSE "limit")
  /\ UNCHANGED <<cooldown, code, timer, shown, answer, tries, won, before, faulted>>

\* EXPIRE otp:attempts, by the request that created it; its error is ignored,
\* and a key that has gone meanwhile gets no TTL.
ExpireAttempts(v) ==
  /\ pc[v] = "expire"
  /\ \/ /\ timer' = IF attempts = 0 THEN "none" ELSE "late"
        /\ UNCHANGED faulted
     \/ MeetFault(v) /\ UNCHANGED timer
  /\ Goto(v, "limit")
  /\ UNCHANGED <<cooldown, code, attempts, shown, count, answer, tries, won, before>>

\* Fault: off by one.
CheckLimitLate(v) ==
  /\ pc[v] = "limit"
  /\ \/ count[v] <= MaxAttempts + 1 /\ Goto(v, "compare") /\ UNCHANGED <<answer, count>>
     \/ count[v] > MaxAttempts + 1 /\ Finish(v, "toomany")
  /\ UNCHANGED <<keys, shown, tries, won, before, faulted>>

CheckLimit(v) ==
  /\ pc[v] = "limit"
  /\ \/ count[v] <= MaxAttempts /\ Goto(v, "compare") /\ UNCHANGED <<answer, count>>
     \/ count[v] > MaxAttempts /\ Finish(v, "toomany")
  /\ UNCHANGED <<keys, shown, tries, won, before, faulted>>

\* Fault: GETDEL in place of GET, so a wrong submission destroys the code.
TakeCode(v) ==
  /\ pc[v] = "compare"
  /\ \/ code = None /\ Finish(v, "expired") /\ UNCHANGED <<tries, won>>
     \/ /\ code # None
        /\ tries' = [tries EXCEPT ![code] = @ \cup {v}]
        /\ \/ code # shown[v] /\ Finish(v, "invalid") /\ UNCHANGED won
           \/ /\ code = shown[v]
              /\ won' = [won EXCEPT ![v] = code]
              /\ Goto(v, "consume") /\ UNCHANGED <<answer, count>>
  /\ code' = None
  /\ UNCHANGED <<cooldown, attempts, timer, shown, before, faulted>>

\* GET otp:code and the comparison of the hashes.
CompareCode(v) ==
  /\ pc[v] = "compare"
  /\ \/ code = None /\ Finish(v, "expired") /\ UNCHANGED <<tries, won>>
     \/ /\ code # None
        /\ tries' = [tries EXCEPT ![code] = @ \cup {v}]
        /\ \/ code # shown[v] /\ Finish(v, "invalid") /\ UNCHANGED won
           \/ /\ code = shown[v]
              /\ won' = [won EXCEPT ![v] = code]
              /\ Goto(v, "consume") /\ UNCHANGED <<answer, count>>
  /\ UNCHANGED <<keys, shown, before, faulted>>

\* Fault: only the counter is deleted.
ConsumeCounter(v) ==
  /\ pc[v] = "consume"
  /\ ClearAttempts
  /\ Finish(v, "ok")
  /\ UNCHANGED <<cooldown, code, shown, tries, won, before, faulted>>

\* DEL otp:code otp:attempts; its error is ignored.
ConsumeCode(v) ==
  /\ pc[v] = "consume"
  /\ \/ code' = None /\ ClearAttempts /\ UNCHANGED faulted
     \/ MeetFault(v) /\ UNCHANGED <<code, attempts, timer>>
  /\ Finish(v, "ok")
  /\ UNCHANGED <<cooldown, shown, tries, won, before>>

-----------------------------------------------------------------------------
\* A command fails or the server dies: what ran before it stays in Redis.
Fail(q) ==
  /\ InFlight(q)
  /\ MeetFault(q)
  /\ Finish(q, "error")
  /\ UNCHANGED <<keys, shown, tries, won, before>>

\* TTLs.  Code and counter live five minutes each, so a counter begun after
\* the code was stored outlives it.
CooldownEnds ==
  /\ cooldown
  /\ cooldown' = FALSE
  /\ UNCHANGED <<code, attempts, timer, pc, shown, count, answer, tries, won, before, faulted>>

CodeExpires ==
  /\ code # None
  /\ code' = None
  /\ UNCHANGED <<cooldown, attempts, timer, pc, shown, count, answer, tries, won, before, faulted>>

AttemptsExpire ==
  /\ timer = "early" \/ (timer = "late" /\ code = None)
  /\ ClearAttempts
  /\ UNCHANGED <<cooldown, code, pc, shown, count, answer, tries, won, before, faulted>>

Next ==
  \/ \E q \in Request :
       \/ StartGenerate(q) \/ AcquireCooldown(q) \/ StoreCode(q) \/ ResetAttempts(q)
       \/ \E c \in Request \cup {None} : StartVerify(q, c)
       \/ IncrAttempts(q) \/ ExpireAttempts(q) \/ CheckLimit(q)
       \/ CompareCode(q) \/ ConsumeCode(q)
       \/ Fail(q)
  \/ CooldownEnds \/ CodeExpires \/ AttemptsExpire

Spec == Init /\ [][Next]_vars

-----------------------------------------------------------------------------
(* Properties.                                                             *)

\* A code is accepted twice only by submissions that overlapped, or because the
\* first failed to delete it (service.go, "so each code can only be used once").
AcceptedTwiceOnlyByOverlap ==
  \A v, w \in Request :
    v # w /\ answer[v] = "ok" /\ answer[w] = "ok" /\ won[v] = won[w] /\ v \in before[w] =>
      v \in faulted

\* No more than maxAttempts of the submissions that follow the sending of a
\* code are compared with it, though its counter expires, is reset by resends
\* and is shared with the codes before it.  A resend that was under way when
\* the code was sent resets the counter once more, and so does the old TTL of a
\* counter that the code's own sending failed to delete.
GuessBudget ==
  \A g \in Request \ faulted :
    LET stragglers == {h \in Sent \ {g} : h \notin before[g] /\ g \notin before[h]}
    IN  stragglers = {} => Cardinality({v \in tries[g] : g \in before[v]}) <= MaxAttempts

\* A submission that follows the sending of the code in force is turned away
\* unseen only when maxAttempts others have met that code, are about to or
\* failed: what met earlier codes does not count, unless the reset of the
\* counter failed (service.go, "A fresh code means a fresh attempt budget").
FreshBudget ==
  [][\A v \in Request :
       answer[v] # "toomany" /\ answer'[v] = "toomany" /\ code \in (before[v] \cap Sent) \ faulted =>
         Cardinality(tries[code] \cup {w \in Request \ {v} : InFlight(w) \/ answer[w] = "error"})
           >= MaxAttempts]_vars

\* The counter is never left without a TTL: the request that created it is
\* still to set one, or failed (service.go, "instead of lingering forever").
CounterExpires ==
  attempts > 0 /\ timer = "none" => \E v \in Request : pc[v] = "expire" \/ v \in faulted

\* A verification deletes the code it matched, or one stored while it ran, and
\* never a code that was sent before it began and that it did not match.
CodeGoesForCause ==
  [][code # None /\ code' = None =>
       \/ \E v \in Request :
            answer[v] # "ok" /\ answer'[v] = "ok" /\ (won[v] = code \/ code \notin before[v])
       \/ UNCHANGED <<pc, answer>>]_vars
=============================================================================
