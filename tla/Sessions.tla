------------------------------ MODULE Sessions ------------------------------
(***************************************************************************)
(* POST /auth/login, /auth/refresh and /auth/logout: internal/auth Service *)
(* at the granularity of its SQL statements, none of which share a         *)
(* transaction, and the device check of RequireAuth.                       *)
(*                                                                         *)
(* A devices row is named by the login that inserts it and a               *)
(* refresh_tokens row by the login or refresh that inserts it: both        *)
(* generate their own values, so a token value is a request.               *)
(***************************************************************************)

CONSTANTS
  Request,  \* requests; bounds logins, refreshes and logouts together
  None

ASSUME SessionsAssumption == None \notin Request

VARIABLES
  kind,     \* "login", "refresh", "logout", or "none" before the request
  arg,      \* the refresh token presented
  pc,       \* the statement each request is about to run
  answer,   \* "ok", a refusal, or "error"; "none" while it runs
  device,   \* devices.status of the row a login inserted
  token,    \* refresh_tokens.revoked_at of the row a request inserted
  session,  \* refresh_tokens.device_id of that row
  expired,  \* tokens whose expires_at has passed
  before,   \* history: requests with its token that had ended when a request
            \* began
  halfway   \* history: requests that stopped between their two statements

vars == <<kind, arg, pc, answer, device, token, session, expired, before, halfway>>

Kind   == {"none", "login", "refresh", "logout"}
Stage  == {"idle", "lookup", "device", "rotate", "mint", "revoke", "unlink", "done"}
Answer == {"none", "ok", "refused", "error"}

TypeOK ==
  /\ kind \in [Request -> Kind]
  /\ arg \in [Request -> Request \cup {None}]
  /\ pc \in [Request -> Stage]
  /\ answer \in [Request -> Answer]
  /\ device \in [Request -> {"absent", "active", "revoked"}]
  /\ token \in [Request -> {"absent", "live", "revoked"}]
  /\ session \in [Request -> Request \cup {None}]
  /\ expired \subseteq Request
  /\ before \in [Request -> SUBSET Request]
  /\ halfway \subseteq Request

Init ==
  /\ kind = [q \in Request |-> "none"]
  /\ arg = [q \in Request |-> None]
  /\ pc = [q \in Request |-> "idle"]
  /\ answer = [q \in Request |-> "none"]
  /\ device = [q \in Request |-> "absent"]
  /\ token = [q \in Request |-> "absent"]
  /\ session = [q \in Request |-> None]
  /\ expired = {}
  /\ before = [q \in Request |-> {}]
  /\ halfway = {}

-----------------------------------------------------------------------------
InFlight(q) == pc[q] \notin {"idle", "done"}

\* The first of two writes is done and the second is not: a login without its
\* token, a rotation without its successor, a logout without its device.
Between(q) == pc[q] \in {"mint", "unlink"}

\* Tokens some client has received.
Issued == {q \in Request : kind[q] \in {"login", "refresh"} /\ answer[q] = "ok"}

\* RequireAuth's device check on the access token issued along with t.
Authorized(t) == device[session[t]] = "active"

Goto(q, stage) == pc' = [pc EXCEPT ![q] = stage]
Finish(q, a)   == Goto(q, "done") /\ answer' = [answer EXCEPT ![q] = a]

\* The last statement ran; its caller may still be told of a failure.
FinishLast(q) == Finish(q, "ok") \/ Finish(q, "error")

Begin(q, k) == pc[q] = "idle" /\ kind' = [kind EXCEPT ![q] = k]

-----------------------------------------------------------------------------
(* Login.                                                                  *)

\* Credentials and account status are checked before any row is written.
Login(q) ==
  /\ Begin(q, "login")
  /\ \/ Goto(q, "device") /\ UNCHANGED answer
     \/ Finish(q, "refused")
  /\ UNCHANGED <<arg, device, token, session, expired, before, halfway>>

CreateDevice(q) ==
  /\ pc[q] = "device"
  /\ device' = [device EXCEPT ![q] = "active"]
  /\ Goto(q, "mint")
  /\ UNCHANGED <<kind, arg, answer, token, session, expired, before, halfway>>

\* Fault: the vocabulary of devices.status in the new refresh_tokens row.
CreateActiveToken(q) ==
  /\ pc[q] = "mint"
  /\ token' = [token EXCEPT ![q] = "active"]
  /\ session' = [session EXCEPT ![q] = IF kind[q] = "login" THEN q ELSE session[arg[q]]]
  /\ FinishLast(q)
  /\ UNCHANGED <<kind, arg, device, expired, before, halfway>>

\* Fault: last_active_at is saved with the whole device row as read before.
CreateTokenAndSaveDevice(q) ==
  /\ pc[q] = "mint"
  /\ LET d == IF kind[q] = "login" THEN q ELSE session[arg[q]]
     IN  /\ session' = [session EXCEPT ![q] = d]
         /\ device' = [device EXCEPT ![d] = "active"]
  /\ token' = [token EXCEPT ![q] = "live"]
  /\ FinishLast(q)
  /\ UNCHANGED <<kind, arg, expired, before, halfway>>

\* The refresh token of a login belongs to the device it created, that of a
\* refresh to the device of the token it replaces.
CreateToken(q) ==
  /\ pc[q] = "mint"
  /\ token' = [token EXCEPT ![q] = "live"]
  /\ session' = [session EXCEPT ![q] = IF kind[q] = "login" THEN q ELSE session[arg[q]]]
  /\ FinishLast(q)
  /\ UNCHANGED <<kind, arg, device, expired, before, halfway>>

-----------------------------------------------------------------------------
(* Refresh and Logout of the token t.                                      *)

Present(q, k, t) ==
  /\ Begin(q, k)
  /\ t \in Issued
  /\ arg' = [arg EXCEPT ![q] = t]
  /\ before' = [before EXCEPT ![q] = {p \in Request : arg[p] = t /\ pc[p] = "done"}]
  /\ Goto(q, "lookup")
  /\ UNCHANGED <<answer, device, token, session, expired, halfway>>

\* Fault: the successor is minted before the old token is revoked.
LookupAndMint(q) ==
  /\ pc[q] = "lookup" /\ kind[q] = "refresh"
  /\ \/ /\ token[arg[q]] = "live" /\ arg[q] \notin expired
        /\ Goto(q, "mint") /\ UNCHANGED answer
     \/ /\ token[arg[q]] # "live" \/ arg[q] \in expired
        /\ Finish(q, "refused")
  /\ UNCHANGED <<kind, arg, device, token, session, expired, before, halfway>>

\* Fault: revoked_at is not looked at.
LookupUnchecked(q) ==
  /\ pc[q] = "lookup" /\ kind[q] = "refresh"
  /\ \/ arg[q] \notin expired /\ Goto(q, "rotate") /\ UNCHANGED answer
     \/ arg[q] \in expired /\ Finish(q, "refused")
  /\ UNCHANGED <<kind, arg, device, token, session, expired, before, halfway>>

\* The row is read once; the later statements do not look at it again.
LookupRefresh(q) ==
  /\ pc[q] = "lookup" /\ kind[q] = "refresh"
  /\ \/ /\ token[arg[q]] = "live" /\ arg[q] \notin expired
        /\ Goto(q, "rotate") /\ UNCHANGED answer
     \/ /\ token[arg[q]] # "live" \/ arg[q] \in expired
        /\ Finish(q, "refused")
  /\ UNCHANGED <<kind, arg, device, token, session, expired, before, halfway>>

\* Fault: the UPDATE matches no row.
RevokeNothing(q) ==
  /\ pc[q] = "rotate"
  /\ Goto(q, "mint")
  /\ UNCHANGED <<kind, arg, answer, device, token, session, expired, before, halfway>>

\* UPDATE refresh_tokens SET revoked_at WHERE id, whatever it holds by now.
RevokeOld(q) ==
  /\ pc[q] = "rotate"
  /\ token' = [token EXCEPT ![arg[q]] = "revoked"]
  /\ Goto(q, "mint")
  /\ UNCHANGED <<kind, arg, answer, device, session, expired, before, halfway>>

\* A token already revoked is success at once: the device is left as it is.
LookupLogout(q) ==
  /\ pc[q] = "lookup" /\ kind[q] = "logout"
  /\ \/ /\ token[arg[q]] = "live"
        /\ Goto(q, "revoke") /\ UNCHANGED answer
     \/ /\ token[arg[q]] # "live"
        /\ Finish(q, "ok")
  /\ UNCHANGED <<kind, arg, device, token, session, expired, before, halfway>>

RevokeToken(q) ==
  /\ pc[q] = "revoke"
  /\ token' = [token EXCEPT ![arg[q]] = "revoked"]
  /\ Goto(q, "unlink")
  /\ UNCHANGED <<kind, arg, answer, device, session, expired, before, halfway>>

\* Fault: only the token is revoked.
KeepDevice(q) ==
  /\ pc[q] = "unlink"
  /\ FinishLast(q)
  /\ UNCHANGED <<kind, arg, device, token, session, expired, before, halfway>>

RevokeDevice(q) ==
  /\ pc[q] = "unlink"
  /\ device' = [device EXCEPT ![session[arg[q]]] = "revoked"]
  /\ FinishLast(q)
  /\ UNCHANGED <<kind, arg, token, session, expired, before, halfway>>

-----------------------------------------------------------------------------
\* A statement fails or the connection drops: 500, what ran before it stays.
Fail(q) ==
  /\ InFlight(q)
  /\ Finish(q, "error")
  /\ halfway' = halfway \cup {p \in {q} : Between(p)}
  /\ UNCHANGED <<kind, arg, device, token, session, expired, before>>

\* The process dies with every request in it; no transaction undoes anything.
Crash ==
  /\ \E q \in Request : InFlight(q)
  /\ pc' = [q \in Request |-> IF InFlight(q) THEN "done" ELSE pc[q]]
  /\ answer' = [q \in Request |-> IF InFlight(q) THEN "error" ELSE answer[q]]
  /\ halfway' = halfway \cup {q \in Request : Between(q)}
  /\ UNCHANGED <<kind, arg, device, token, session, expired, before>>

\* refreshTokenTTL runs out.
Expire(t) ==
  /\ token[t] # "absent"
  /\ t \notin expired
  /\ expired' = expired \cup {t}
  /\ UNCHANGED <<kind, arg, pc, answer, device, token, session, before, halfway>>

Serve(q) ==
  \/ CreateDevice(q) \/ CreateToken(q)
  \/ LookupRefresh(q) \/ RevokeOld(q)
  \/ LookupLogout(q) \/ RevokeToken(q) \/ RevokeDevice(q)

Next ==
  \/ \E q \in Request :
       \/ Login(q)
       \/ \E t \in Request : Present(q, "refresh", t) \/ Present(q, "logout", t)
       \/ Serve(q)
       \/ Fail(q)
       \/ Expire(q)
  \/ Crash

Spec == Init /\ [][Next]_vars

-----------------------------------------------------------------------------
(* Properties.                                                             *)

\* Rotation fails closed: a token and the one that replaced it are never both
\* live, wherever a crash or another request falls between the statements
\* (service.go, "revoke the old refresh token and insert a new one, in that
\* order").
NeverBothLive ==
  \A q \in Request :
    kind[q] = "refresh" /\ token[q] = "live" => token[arg[q]] = "revoked"

\* A logout that answers success has made its token unusable for good, also
\* when refreshes and logouts of the same token overlap it (service.go, "this
\* token can't be used anymore").
LogoutKillsToken ==
  \A q \in Request :
    kind[q] = "logout" /\ answer[q] = "ok" => token[arg[q]] = "revoked"

\* Nothing brings a revoked token or device back, although every UPDATE is
\* unconditional and decided on a row read earlier.
RevocationIsFinal ==
  [][\A q \in Request :
       /\ token[q] = "revoked" => token'[q] = "revoked"
       /\ device[q] = "revoked" => device'[q] = "revoked"]_<<token, device>>

\* Two requests with one token that were under way together.
Overlap(p, q) == p \notin before[q] /\ q \notin before[p]

Refreshed(q) == kind[q] = "refresh" /\ answer[q] = "ok"

\* A token buys two successors only when its refreshes overlapped: once one was
\* answered the token is spent, also after failures in between.
SpentOnceAnswered ==
  \A p, q \in Request :
    p # q /\ Refreshed(p) /\ Refreshed(q) /\ arg[p] = arg[q] => Overlap(p, q)

\* A session has two live tokens only when two refreshes of one of its tokens
\* overlapped; failures and crashes alone never split it.
SplitOnlyByOverlap ==
  \A s, t \in Request :
    s # t /\ token[s] = "live" /\ token[t] = "live" /\ session[s] = session[t] =>
      \E p, q \in Request :
        /\ p # q /\ kind[p] = "refresh" /\ kind[q] = "refresh"
        /\ arg[p] = arg[q] /\ session[arg[p]] = session[s]
        /\ Overlap(p, q)

Unfinished(q) == Between(q) \/ q \in halfway
Replaced(t)   == \E q \in Request : kind[q] = "refresh" /\ arg[q] = t /\ token[q] # "absent"

\* A logout that answers success has ended its session, so that RequireAuth
\* refuses the access token, unless a successor of its token was inserted, or
\* another request with the token is between its two statements or stopped
\* there: no other failure, and no refresh that was refused, excuses it.
LogoutEndsSession ==
  \A q \in Request :
    kind[q] = "logout" /\ answer[q] = "ok" =>
      \/ ~Authorized(arg[q])
      \/ Replaced(arg[q])
      \/ \E p \in Request : arg[p] = arg[q] /\ Unfinished(p)

\* A device that is fanned out to although nobody can use its session any more
\* was left by its login, stopped or about to insert the token, or by the last
\* token of its session: it has run out, since expiry revokes no device, or the
\* very request that revoked it is between its two statements or stopped there
\* (service.go: Login and Logout write both rows, Refresh both tokens, without
\* a transaction).
Usable(t)       == token[t] = "live" /\ t \notin expired
LastToken(t, d) == session[t] = d /\ token[t] # "absent" /\ ~Replaced(t)

OrphanOnlyByStopOrExpiry ==
  \A d \in Request : device[d] = "active" /\ ~(\E t \in Request : session[t] = d /\ Usable(t)) =>
    \/ kind[d] = "login" /\ Unfinished(d)
    \/ \E t \in Request :
         /\ LastToken(t, d)
         /\ \/ token[t] = "live" /\ t \in expired
            \/ \E q \in Request : arg[q] = t /\ Unfinished(q)

\* The other services may count on every devices row living as Devices says,
\* though Logout updates a row it never read: it was inserted before any token
\* that leads to it, and is revoked once.
Dev == INSTANCE Devices WITH Device <- Request

ImplementsDevices == Dev!Spec

\* service.go: "the old refresh token is marked revoked in the same operation,
\* so it can never be used again".
RedeemedOnce ==
  \A p, q \in Request : Refreshed(p) /\ Refreshed(q) /\ arg[p] = arg[q] => p = q

\* middleware/auth.go: "logout revokes the underlying device immediately", here
\* for a token never rotated and no longer presented by anyone.
LogoutRevokesDevice ==
  \A q \in Request :
    /\ kind[q] = "logout" /\ answer[q] = "ok"
    /\ \A p \in Request : arg[p] = arg[q] => kind[p] = "logout" /\ pc[p] = "done"
    => ~Authorized(arg[q])
=============================================================================
