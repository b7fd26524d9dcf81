--------------------------- MODULE SessionsProofs ---------------------------
(***************************************************************************)
(* Proofs about Sessions, for every set of requests, and about Backend,    *)
(* for every set of sends as well.  The invariant is built in layers:      *)
(* types, what each stage of a request means for the rows it works on      *)
(* (RowInv), what earlier answers mean for later requests (SpentInv),      *)
(* where the live token of a session is (HeadInv), what is left of a       *)
(* session nobody can use (LeftOpenInv, LeafInv), that tokens lead to      *)
(* devices rows (DeviceInv), and what a send may still read (CutInv).      *)
(***************************************************************************)
EXTENDS Backend, TLAPS

\* What the stage of a request says of the request alone.
KindInv ==
  \A q \in Request :
    /\ pc[q] = "idle" <=> kind[q] = "none"
    /\ pc[q] = "lookup" => kind[q] \in {"refresh", "logout"}
    /\ pc[q] = "device" => kind[q] = "login"
    /\ pc[q] = "rotate" => kind[q] = "refresh"
    /\ pc[q] = "mint" => kind[q] \in {"login", "refresh"}
    /\ pc[q] \in {"revoke", "unlink"} => kind[q] = "logout"
    /\ kind[q] \in {"refresh", "logout"} => arg[q] \in Request
    /\ kind[q] \in {"none", "login"} => arg[q] = None
    /\ answer[q] # "none" => pc[q] = "done"

\* A refresh is typed by the token it presented, so types need KindInv.
TypeInv == TypeOK /\ KindInv

\* Every step keeps types and stages together.
LEMMA TypeStep ==
  ASSUME TypeInv, [Next]_vars
  PROVE  TypeInv'
<1>. USE SessionsAssumption DEF TypeInv, TypeOK, KindInv, Kind, Stage, Answer, Goto, Finish,
       FinishLast, Begin
<1>1. ASSUME NEW q \in Request, Login(q) PROVE TypeInv'
  BY <1>1 DEF Login
<1>2. ASSUME NEW q \in Request, CreateDevice(q) PROVE TypeInv'
  BY <1>2 DEF CreateDevice
<1>3. ASSUME NEW q \in Request, CreateToken(q) PROVE TypeInv'
  <2>1. (IF kind[q] = "login" THEN q ELSE session[arg[q]]) \in Request \cup {None}
    BY <1>3 DEF CreateToken
  <2>2. session' \in [Request -> Request \cup {None}]
    BY <1>3, <2>1 DEF CreateToken
  <2>3. token' \in [Request -> {"absent", "live", "revoked"}]
    BY <1>3 DEF CreateToken
  <2>4. pc' \in [Request -> Stage] /\ answer' \in [Request -> Answer]
    BY <1>3 DEF CreateToken
  <2>. QED
    BY <1>3, <2>2, <2>3, <2>4 DEF CreateToken
<1>4. ASSUME NEW q \in Request, LookupRefresh(q) PROVE TypeInv'
  BY <1>4 DEF LookupRefresh
<1>5. ASSUME NEW q \in Request, RevokeOld(q) PROVE TypeInv'
  BY <1>5 DEF RevokeOld
<1>6. ASSUME NEW q \in Request, LookupLogout(q) PROVE TypeInv'
  BY <1>6 DEF LookupLogout
<1>7. ASSUME NEW q \in Request, RevokeToken(q) PROVE TypeInv'
  BY <1>7 DEF RevokeToken
<1>8. ASSUME NEW q \in Request, RevokeDevice(q) PROVE TypeInv'
  <2>1. device' \in [Request -> {"absent", "active", "revoked"}]
    BY <1>8 DEF RevokeDevice
  <2>2. pc' \in [Request -> Stage] /\ answer' \in [Request -> Answer]
    BY <1>8 DEF RevokeDevice
  <2>. QED
    BY <1>8, <2>1, <2>2 DEF RevokeDevice
<1>9. ASSUME NEW q \in Request, Fail(q) PROVE TypeInv'
  BY <1>9 DEF Fail, InFlight, Between
<1>10. ASSUME NEW q \in Request, Expire(q) PROVE TypeInv'
  BY <1>10 DEF Expire
<1>11. ASSUME NEW q \in Request, NEW t \in Request,
              Present(q, "refresh", t) \/ Present(q, "logout", t)
       PROVE  TypeInv'
  BY <1>11 DEF Present
<1>12. CASE Crash
  BY <1>12 DEF Crash, InFlight, Between
<1>13. CASE UNCHANGED vars
  BY <1>13 DEF vars
<1>. QED
  BY <1>1, <1>2, <1>3, <1>4, <1>5, <1>6, <1>7, <1>8, <1>9, <1>10, <1>11, <1>12, <1>13
  DEF Next, Serve

\* Spec keeps every variable within its type.
THEOREM TypeCorrect == Spec => []TypeOK
<1>1. Init => TypeInv
  BY DEF Init, TypeInv, TypeOK, KindInv, Kind, Stage, Answer
<1>2. TypeInv /\ [Next]_vars => TypeInv'
  BY TypeStep
<1>3. TypeInv => TypeOK
  BY DEF TypeInv
<1>. QED
  BY <1>1, <1>2, <1>3, PTL DEF Spec

-----------------------------------------------------------------------------
\* What a request has done to the rows it works on.
RowInv ==
  \A q \in Request :
    /\ token[q] # "absent" =>
         /\ pc[q] = "done" /\ kind[q] \in {"login", "refresh"}
         /\ session[q] \in Request /\ pc[session[q]] = "done"
    /\ kind[q] \in {"login", "refresh"} /\ answer[q] = "ok" => token[q] # "absent"
    /\ kind[q] \in {"refresh", "logout"} => token[arg[q]] # "absent"
    /\ pc[q] \in {"idle", "device"} => device[q] = "absent"
    /\ kind[q] = "refresh" /\ (pc[q] = "mint" \/ token[q] # "absent") =>
         token[arg[q]] = "revoked"
    /\ kind[q] = "logout" /\ (pc[q] = "unlink" \/ answer[q] = "ok") =>
         token[arg[q]] = "revoked"
    /\ q \in halfway => pc[q] = "done" /\ answer[q] = "error"

\* What no step takes back.
Kept ==
  \A q \in Request :
    /\ pc[q] # "idle" =>
         pc'[q] # "idle" /\ kind'[q] = kind[q] /\ arg'[q] = arg[q] /\ before'[q] = before[q]
    /\ pc[q] = "done" =>
         pc'[q] = "done" /\ answer'[q] = answer[q] /\ session'[q] = session[q]
    /\ token[q] # "absent" => token'[q] # "absent"
    /\ token[q] = "revoked" => token'[q] = "revoked"
    /\ device[q] = "revoked" => device'[q] = "revoked"
    /\ q \in halfway => q \in halfway'

\* No step takes back what was written: the unconditional UPDATEs never hit
\* a row whose value they would lower.
LEMMA KeptStep ==
  ASSUME TypeInv, RowInv, [Next]_vars
  PROVE  Kept
<1>. USE SessionsAssumption DEF TypeInv, TypeOK, KindInv, RowInv, Kept, Goto, Finish,
       FinishLast, Begin
<1>1. ASSUME NEW q \in Request, Login(q) PROVE Kept
  BY <1>1 DEF Login
<1>2. ASSUME NEW q \in Request, CreateDevice(q) PROVE Kept
  BY <1>2 DEF CreateDevice
<1>3. ASSUME NEW q \in Request, CreateToken(q) PROVE Kept
  BY <1>3 DEF CreateToken
<1>4. ASSUME NEW q \in Request, LookupRefresh(q) PROVE Kept
  BY <1>4 DEF LookupRefresh
<1>5. ASSUME NEW q \in Request, RevokeOld(q) PROVE Kept
  BY <1>5 DEF RevokeOld
<1>6. ASSUME NEW q \in Request, LookupLogout(q) PROVE Kept
  BY <1>6 DEF LookupLogout
<1>7. ASSUME NEW q \in Request, RevokeToken(q) PROVE Kept
  BY <1>7 DEF RevokeToken
<1>8. ASSUME NEW q \in Request, RevokeDevice(q) PROVE Kept
  BY <1>8 DEF RevokeDevice
<1>9. ASSUME NEW q \in Request, Fail(q) PROVE Kept
  BY <1>9 DEF Fail, InFlight, Between
<1>10. ASSUME NEW q \in Request, Expire(q) PROVE Kept
  BY <1>10 DEF Expire
<1>11. ASSUME NEW q \in Request, NEW t \in Request,
              Present(q, "refresh", t) \/ Present(q, "logout", t)
       PROVE  Kept
  BY <1>11 DEF Present, Issued
<1>12. CASE Crash
  BY <1>12 DEF Crash, InFlight, Between
<1>13. CASE UNCHANGED vars
  BY <1>13 DEF vars
<1>. QED
  BY <1>1, <1>2, <1>3, <1>4, <1>5, <1>6, <1>7, <1>8, <1>9, <1>10, <1>11, <1>12, <1>13
  DEF Next, Serve

\* Every step keeps RowInv.
LEMMA RowStep ==
  ASSUME TypeInv, RowInv, [Next]_vars
  PROVE  RowInv'
<1>a. Kept /\ TypeInv'
  BY KeptStep, TypeStep
<1>. USE <1>a, SessionsAssumption DEF TypeInv, TypeOK, KindInv, RowInv, Kept, Goto, Finish,
       FinishLast, Begin
<1>1. ASSUME NEW q \in Request, Login(q) PROVE RowInv'
  BY <1>1 DEF Login
<1>2. ASSUME NEW q \in Request, CreateDevice(q) PROVE RowInv'
  BY <1>2 DEF CreateDevice
<1>3. ASSUME NEW q \in Request, CreateToken(q) PROVE RowInv'
  BY <1>3 DEF CreateToken
<1>4. ASSUME NEW q \in Request, LookupRefresh(q) PROVE RowInv'
  BY <1>4 DEF LookupRefresh
<1>5. ASSUME NEW q \in Request, RevokeOld(q) PROVE RowInv'
  BY <1>5 DEF RevokeOld
<1>6. ASSUME NEW q \in Request, LookupLogout(q) PROVE RowInv'
  BY <1>6 DEF LookupLogout
<1>7. ASSUME NEW q \in Request, RevokeToken(q) PROVE RowInv'
  BY <1>7 DEF RevokeToken
<1>8. ASSUME NEW q \in Request, RevokeDevice(q) PROVE RowInv'
  BY <1>8 DEF RevokeDevice
<1>9. ASSUME NEW q \in Request, Fail(q) PROVE RowInv'
  BY <1>9 DEF Fail, InFlight, Between
<1>10. ASSUME NEW q \in Request, Expire(q) PROVE RowInv'
  BY <1>10 DEF Expire
<1>11. ASSUME NEW q \in Request, NEW t \in Request,
              Present(q, "refresh", t) \/ Present(q, "logout", t)
       PROVE  RowInv'
  BY <1>11 DEF Present, Issued
<1>12. CASE Crash
  BY <1>12 DEF Crash, InFlight, Between
<1>13. CASE UNCHANGED vars
  BY <1>13 DEF vars
<1>. QED
  BY <1>1, <1>2, <1>3, <1>4, <1>5, <1>6, <1>7, <1>8, <1>9, <1>10, <1>11, <1>12, <1>13
  DEF Next, Serve

\* The inductive invariant of the theorems below.
RowsOK == TypeInv /\ RowInv

\* RowsOK holds in every state.
LEMMA RowsOKInvariant == Spec => []RowsOK
<1>1. Init => RowsOK
  BY DEF Init, RowsOK, TypeInv, TypeOK, KindInv, RowInv, Kind, Stage, Answer
<1>2. RowsOK /\ [Next]_vars => RowsOK'
  BY TypeStep, RowStep DEF RowsOK
<1>. QED
  BY <1>1, <1>2, PTL DEF Spec

\* Rotation fails closed: a token and its successor are never both live.
THEOREM RotationFailsClosed == Spec => []NeverBothLive
<1>1. RowsOK => NeverBothLive
  BY DEF RowsOK, RowInv, NeverBothLive
<1>. QED
  BY <1>1, RowsOKInvariant, PTL

\* A logout that answers success has made its token unusable for good.
THEOREM LogoutRevokes == Spec => []LogoutKillsToken
<1>1. RowsOK => LogoutKillsToken
  BY DEF RowsOK, RowInv, LogoutKillsToken
<1>. QED
  BY <1>1, RowsOKInvariant, PTL

\* Nothing brings a revoked token or device back.
THEOREM RevokedStays == Spec => RevocationIsFinal
<1>1. RowsOK /\ [Next]_vars =>
        [\A q \in Request :
           /\ token[q] = "revoked" => token'[q] = "revoked"
           /\ device[q] = "revoked" => device'[q] = "revoked"]_<<token, device>>
  BY KeptStep DEF RowsOK, Kept
<1>. QED
  BY <1>1, RowsOKInvariant, PTL DEF Spec, RevocationIsFinal

-----------------------------------------------------------------------------
\* A request that began after a refresh or logout of its token was answered
\* finds the token revoked.
SpentInv ==
  \A p, q \in Request :
    p \in before[q] =>
      /\ pc[p] = "done" /\ arg[p] = arg[q]
      /\ kind[q] = "refresh" /\ Refreshed(p) =>
           pc[q] \in {"lookup", "done"} /\ answer[q] # "ok"
      /\ kind[p] = "logout" /\ answer[p] = "ok" => pc[q] \in {"lookup", "done"}

\* Every step keeps SpentInv.
LEMMA SpentStep ==
  ASSUME RowsOK, SpentInv, [Next]_vars
  PROVE  SpentInv'
<1>a. Kept /\ RowsOK'
  BY KeptStep, TypeStep, RowStep DEF RowsOK
<1>. USE <1>a, SessionsAssumption DEF RowsOK, TypeInv, TypeOK, KindInv, RowInv, Kept, SpentInv,
       Refreshed, Goto, Finish, FinishLast, Begin
<1>1. ASSUME NEW q \in Request, Login(q) PROVE SpentInv'
  BY <1>1 DEF Login
<1>2. ASSUME NEW q \in Request, CreateDevice(q) PROVE SpentInv'
  BY <1>2 DEF CreateDevice
<1>3. ASSUME NEW q \in Request, CreateToken(q) PROVE SpentInv'
  BY <1>3 DEF CreateToken
<1>4. ASSUME NEW q \in Request, LookupRefresh(q) PROVE SpentInv'
  BY <1>4 DEF LookupRefresh
<1>5. ASSUME NEW q \in Request, RevokeOld(q) PROVE SpentInv'
  BY <1>5 DEF RevokeOld
<1>6. ASSUME NEW q \in Request, LookupLogout(q) PROVE SpentInv'
  BY <1>6 DEF LookupLogout
<1>7. ASSUME NEW q \in Request, RevokeToken(q) PROVE SpentInv'
  BY <1>7 DEF RevokeToken
<1>8. ASSUME NEW q \in Request, RevokeDevice(q) PROVE SpentInv'
  BY <1>8 DEF RevokeDevice
<1>9. ASSUME NEW q \in Request, Fail(q) PROVE SpentInv'
  BY <1>9 DEF Fail, InFlight, Between
<1>10. ASSUME NEW q \in Request, Expire(q) PROVE SpentInv'
  BY <1>10 DEF Expire
<1>11. ASSUME NEW q \in Request, NEW t \in Request,
              Present(q, "refresh", t) \/ Present(q, "logout", t)
       PROVE  SpentInv'
  BY <1>11 DEF Present, Issued
<1>12. CASE Crash
  BY <1>12 DEF Crash, InFlight, Between
<1>13. CASE UNCHANGED vars
  BY <1>13 DEF vars
<1>. QED
  BY <1>1, <1>2, <1>3, <1>4, <1>5, <1>6, <1>7, <1>8, <1>9, <1>10, <1>11, <1>12, <1>13
  DEF Next, Serve

\* Once a refresh of a token was answered the token buys no other successor.
THEOREM SpentOnce == Spec => []SpentOnceAnswered
<1>1. Init => SpentInv
  BY DEF Init, SpentInv
<1>2. RowsOK /\ SpentInv /\ [Next]_vars => SpentInv'
  BY SpentStep
<1>3. RowsOK /\ SpentInv => SpentOnceAnswered
  BY DEF SpentInv, SpentOnceAnswered, Overlap, Refreshed
<1>. QED
  BY <1>1, <1>2, <1>3, RowsOKInvariant, PTL DEF Spec

-----------------------------------------------------------------------------
\* A token revoked while its session lives on was replaced, or a request with
\* it has yet to make its second write or stopped before it.
LeftOpenInv ==
  \A t \in Request :
    token[t] = "revoked" =>
      \/ ~Authorized(t)
      \/ Replaced(t)
      \/ \E p \in Request : arg[p] = t /\ Unfinished(p)

\* Every step keeps LeftOpenInv.
LEMMA LeftOpenStep ==
  ASSUME RowsOK, LeftOpenInv, [Next]_vars
  PROVE  LeftOpenInv'
<1>a. Kept /\ RowsOK'
  BY KeptStep, TypeStep, RowStep DEF RowsOK
<1>. USE <1>a, SessionsAssumption DEF RowsOK, TypeInv, TypeOK, KindInv, RowInv, Kept, LeftOpenInv,
       Authorized, Replaced, Unfinished, Between, Goto, Finish, FinishLast, Begin
<1>1. ASSUME NEW q \in Request, Login(q) PROVE LeftOpenInv'
  BY <1>1 DEF Login
<1>2. ASSUME NEW q \in Request, CreateDevice(q) PROVE LeftOpenInv'
  BY <1>2 DEF CreateDevice
<1>3. ASSUME NEW q \in Request, CreateToken(q) PROVE LeftOpenInv'
  <2>. SUFFICES ASSUME NEW t \in Request, token'[t] = "revoked", device'[session'[t]] = "active"
                PROVE  \/ \E s \in Request : /\ kind'[s] = "refresh" /\ arg'[s] = t
                                             /\ token'[s] # "absent"
                       \/ \E p \in Request :
                            arg'[p] = t /\ (pc'[p] \in {"mint", "unlink"} \/ p \in halfway')
    OBVIOUS
  <2>1. /\ t # q /\ token[t] = "revoked" /\ session'[t] = session[t]
        /\ UNCHANGED <<kind, arg, device, halfway>>
        /\ token'[q] = "live" /\ pc[q] = "mint"
    BY <1>3 DEF CreateToken
  <2>2. CASE Replaced(t)
    BY <2>1, <2>2
  <2>3. ASSUME NEW p \in Request, arg[p] = t, Unfinished(p), p # q
        PROVE  pc'[p] \in {"mint", "unlink"} \/ p \in halfway'
    BY <1>3, <2>1, <2>3 DEF CreateToken
  <2>4. CASE arg[q] = t /\ kind[q] = "refresh"
    BY <2>1, <2>4
  <2>5. kind[q] = "login" => arg[q] = None
    BY <2>1
  <2>6. kind[q] = "refresh" \/ arg[q] # t
    BY <2>1, <2>5
  <2>. QED
    BY <2>1, <2>2, <2>3, <2>4, <2>6
<1>4. ASSUME NEW q \in Request, LookupRefresh(q) PROVE LeftOpenInv'
  BY <1>4 DEF LookupRefresh
<1>5. ASSUME NEW q \in Request, RevokeOld(q) PROVE LeftOpenInv'
  BY <1>5 DEF RevokeOld
<1>6. ASSUME NEW q \in Request, LookupLogout(q) PROVE LeftOpenInv'
  BY <1>6 DEF LookupLogout
<1>7. ASSUME NEW q \in Request, RevokeToken(q) PROVE LeftOpenInv'
  BY <1>7 DEF RevokeToken
<1>8. ASSUME NEW q \in Request, RevokeDevice(q) PROVE LeftOpenInv'
  BY <1>8 DEF RevokeDevice
<1>9. ASSUME NEW q \in Request, Fail(q) PROVE LeftOpenInv'
  BY <1>9 DEF Fail, InFlight, Between
<1>10. ASSUME NEW q \in Request, Expire(q) PROVE LeftOpenInv'
  BY <1>10 DEF Expire
<1>11. ASSUME NEW q \in Request, NEW t \in Request,
              Present(q, "refresh", t) \/ Present(q, "logout", t)
       PROVE  LeftOpenInv'
  BY <1>11 DEF Present, Issued
<1>12. CASE Crash
  BY <1>12 DEF Crash, InFlight, Between
<1>13. CASE UNCHANGED vars
  BY <1>13 DEF vars
<1>. QED
  BY <1>1, <1>2, <1>3, <1>4, <1>5, <1>6, <1>7, <1>8, <1>9, <1>10, <1>11, <1>12, <1>13
  DEF Next, Serve

\* A logout that answers success has ended its session, unless its token was
\* replaced, or a request with it is between its two writes or stopped there.
THEOREM LogoutEnds == Spec => []LogoutEndsSession
<1>1. Init => LeftOpenInv
  BY DEF Init, LeftOpenInv
<1>2. RowsOK /\ LeftOpenInv /\ [Next]_vars => LeftOpenInv'
  BY LeftOpenStep
<1>3. RowsOK /\ LeftOpenInv => LogoutEndsSession
  BY DEF RowsOK, TypeInv, TypeOK, KindInv, RowInv, LeftOpenInv, LogoutEndsSession
<1>. QED
  BY <1>1, <1>2, <1>3, RowsOKInvariant, PTL DEF Spec

-----------------------------------------------------------------------------
\* The head of a session is its live token, or the one a refresh has looked up
\* and not yet replaced.
Rotating(p, t) == kind[p] = "refresh" /\ pc[p] \in {"rotate", "mint"} /\ arg[p] = t
Head(t)        == token[t] = "live" \/ \E p \in Request : Rotating(p, t)

\* Two refreshes of one token of session d overlapped.
Branched(d) ==
  \E p, q \in Request :
    /\ p # q /\ kind[p] = "refresh" /\ kind[q] = "refresh"
    /\ arg[p] = arg[q] /\ session[arg[p]] = d
    /\ Overlap(p, q)

HeadInv ==
  \A s, t \in Request :
    Head(s) /\ Head(t) /\ session[s] = session[t] => s = t \/ Branched(session[s])

HeadOK == RowsOK /\ SpentInv

\* A token that is a head is in the table.
LEMMA HeadIsStored ==
  ASSUME RowsOK, NEW t \in Request, Head(t)
  PROVE  token[t] # "absent"
BY DEF RowsOK, TypeInv, TypeOK, KindInv, RowInv, Head, Rotating

\* A session stays branched.
LEMMA BranchedStays ==
  ASSUME HeadOK, [Next]_vars, NEW t \in Request, token[t] # "absent", Branched(session[t])
  PROVE  Branched(session[t])'
<1>a. Kept
  BY KeptStep DEF RowsOK, HeadOK
<1>1. PICK p, q \in Request :
        /\ p # q /\ kind[p] = "refresh" /\ kind[q] = "refresh"
        /\ arg[p] = arg[q] /\ session[arg[p]] = session[t]
        /\ Overlap(p, q)
  BY DEF Branched
<1>2. pc[p] # "idle" /\ pc[q] # "idle" /\ pc[arg[p]] = "done" /\ arg[p] \in Request
  BY <1>1 DEF HeadOK, RowsOK, TypeInv, KindInv, RowInv
<1>3. session'[t] = session[t]
  BY <1>a DEF Kept, HeadOK, RowsOK, RowInv
<1>4. /\ p # q /\ kind'[p] = "refresh" /\ kind'[q] = "refresh"
      /\ arg'[p] = arg'[q] /\ session'[arg'[p]] = session'[t]
      /\ p \notin before'[q] /\ q \notin before'[p]
  BY <1>1, <1>2, <1>3, <1>a DEF Kept, Overlap
<1>. QED
  BY <1>4 DEF Branched, Overlap

\* Unless a token is minted, a head was one before.
LEMMA HeadsInherited ==
  ASSUME HeadOK, [Next]_vars, NEW t \in Request, Head(t)',
         ~(token[t] = "absent" /\ token'[t] = "live")
  PROVE  Head(t)
<1>. USE SessionsAssumption DEF HeadOK, RowsOK, TypeInv, TypeOK, KindInv, RowInv, Head, Rotating,
       Goto, Finish, FinishLast, Begin
<1>1. ASSUME NEW q \in Request, Login(q) PROVE Head(t)
  BY <1>1 DEF Login
<1>2. ASSUME NEW q \in Request, CreateDevice(q) PROVE Head(t)
  BY <1>2 DEF CreateDevice
<1>3. ASSUME NEW q \in Request, CreateToken(q) PROVE Head(t)
  BY <1>3 DEF CreateToken
<1>4. ASSUME NEW q \in Request, LookupRefresh(q) PROVE Head(t)
  BY <1>4 DEF LookupRefresh
<1>5. ASSUME NEW q \in Request, RevokeOld(q) PROVE Head(t)
  BY <1>5 DEF RevokeOld
<1>6. ASSUME NEW q \in Request, LookupLogout(q) PROVE Head(t)
  BY <1>6 DEF LookupLogout
<1>7. ASSUME NEW q \in Request, RevokeToken(q) PROVE Head(t)
  BY <1>7 DEF RevokeToken
<1>8. ASSUME NEW q \in Request, RevokeDevice(q) PROVE Head(t)
  BY <1>8 DEF RevokeDevice
<1>9. ASSUME NEW q \in Request, Fail(q) PROVE Head(t)
  BY <1>9 DEF Fail, InFlight, Between
<1>10. ASSUME NEW q \in Request, Expire(q) PROVE Head(t)
  BY <1>10 DEF Expire
<1>11. ASSUME NEW q \in Request, NEW u \in Request,
              Present(q, "refresh", u) \/ Present(q, "logout", u)
       PROVE  Head(t)
  BY <1>11 DEF Present, Issued
<1>12. CASE Crash
  BY <1>12 DEF Crash, InFlight, Between
<1>13. CASE UNCHANGED vars
  BY <1>13 DEF vars
<1>. QED
  BY <1>1, <1>2, <1>3, <1>4, <1>5, <1>6, <1>7, <1>8, <1>9, <1>10, <1>11, <1>12, <1>13
  DEF Next, Serve


\* Only CreateToken adds a head: its own token.
LEMMA MintedHead ==
  ASSUME HeadOK, [Next]_vars, NEW t \in Request, token[t] = "absent", token'[t] = "live"
  PROVE  CreateToken(t)
<1>. USE DEF HeadOK, RowsOK, TypeInv, TypeOK, RowInv
<1>1. ASSUME NEW q \in Request, Login(q) PROVE CreateToken(t)
  BY <1>1 DEF Login
<1>2. ASSUME NEW q \in Request, CreateDevice(q) PROVE CreateToken(t)
  BY <1>2 DEF CreateDevice
<1>3. ASSUME NEW q \in Request, CreateToken(q) PROVE CreateToken(t)
  BY <1>3 DEF CreateToken
<1>4. ASSUME NEW q \in Request, LookupRefresh(q) PROVE CreateToken(t)
  BY <1>4 DEF LookupRefresh
<1>5. ASSUME NEW q \in Request, RevokeOld(q) PROVE CreateToken(t)
  BY <1>5 DEF RevokeOld
<1>6. ASSUME NEW q \in Request, LookupLogout(q) PROVE CreateToken(t)
  BY <1>6 DEF LookupLogout
<1>7. ASSUME NEW q \in Request, RevokeToken(q) PROVE CreateToken(t)
  BY <1>7 DEF RevokeToken
<1>8. ASSUME NEW q \in Request, RevokeDevice(q) PROVE CreateToken(t)
  BY <1>8 DEF RevokeDevice
<1>9. ASSUME NEW q \in Request, Fail(q) PROVE CreateToken(t)
  BY <1>9 DEF Fail, InFlight, Between
<1>10. ASSUME NEW q \in Request, Expire(q) PROVE CreateToken(t)
  BY <1>10 DEF Expire
<1>11. ASSUME NEW q \in Request, NEW u \in Request,
              Present(q, "refresh", u) \/ Present(q, "logout", u)
       PROVE  CreateToken(t)
  BY <1>11 DEF Present, Issued
<1>12. CASE Crash
  BY <1>12 DEF Crash, InFlight, Between
<1>13. CASE UNCHANGED vars
  BY <1>13 DEF vars
<1>. QED
  BY <1>1, <1>2, <1>3, <1>4, <1>5, <1>6, <1>7, <1>8, <1>9, <1>10, <1>11, <1>12, <1>13
  DEF Next, Serve

\* Where the new token takes over, every other head of its session overlapped
\* the refresh that made it.
LEMMA MintStep ==
  ASSUME HeadOK, HeadInv, [Next]_vars, NEW q \in Request, CreateToken(q),
         NEW t \in Request, t # q, Head(t)', session'[t] = session'[q]
  PROVE  Branched(session[t])'
<1>a. Kept /\ RowsOK'
  BY KeptStep, TypeStep, RowStep DEF HeadOK, RowsOK
<1>1. Head(t) /\ token[t] # "absent"
  <2>1. token'[t] = token[t]
    BY DEF CreateToken, HeadOK, RowsOK, TypeInv, TypeOK
  <2>2. Head(t)
    BY <2>1, HeadsInherited
  <2>. QED
    BY <2>2, HeadIsStored DEF HeadOK
<1>2. pc[t] = "done" /\ session'[t] = session[t] /\ session[t] \in Request
      /\ pc[session[t]] = "done"
  BY <1>1, <1>a DEF Kept, HeadOK, RowsOK, RowInv
<1>3. pc[q] = "mint" /\ pc'[q] = "done"
  BY DEF CreateToken, FinishLast, Finish, Goto, HeadOK, RowsOK, TypeInv, TypeOK
<1>4. kind[q] = "refresh" /\ arg[q] \in Request /\ session'[q] = session[arg[q]]
  <2>1. kind[q] # "login"
    <3>1. SUFFICES ASSUME kind[q] = "login" PROVE FALSE
      OBVIOUS
    <3>2. session'[q] = q
      BY <3>1 DEF CreateToken, HeadOK, RowsOK, TypeInv, TypeOK
    <3>. QED
      BY <3>2, <1>2, <1>3
  <2>2. kind[q] = "refresh" /\ arg[q] \in Request
    BY <2>1, <1>3 DEF HeadOK, RowsOK, TypeInv, KindInv
  <2>. QED
    BY <2>1, <2>2 DEF CreateToken, HeadOK, RowsOK, TypeInv, TypeOK
<1>5. Head(arg[q])
  BY <1>3, <1>4 DEF Head, Rotating
<1>6. t = arg[q] \/ Branched(session[t])
  BY <1>1, <1>2, <1>4, <1>5 DEF HeadInv
<1>7. CASE Branched(session[t])
  BY <1>7, <1>1, BranchedStays
<1>8. CASE t = arg[q]
  <2>1. token'[t] = "revoked"
    BY <1>8, <1>3, <1>4, <1>a DEF HeadOK, RowsOK, RowInv, Kept
  <2>2. PICK p \in Request :
          kind'[p] = "refresh" /\ pc'[p] \in {"rotate", "mint"} /\ arg'[p] = t
    BY <2>1 DEF Head, Rotating
  <2>3. p # q /\ pc[p] = pc'[p] /\ kind[p] = "refresh" /\ arg[p] = t
    BY <2>2, <1>3 DEF CreateToken, FinishLast, Finish, Goto, HeadOK, RowsOK, TypeInv, TypeOK
  <2>4. p \notin before[q] /\ q \notin before[p]
    BY <2>2, <2>3, <1>3 DEF HeadOK, SpentInv
  <2>5. Branched(session[t])
    BY <2>3, <2>4, <1>4, <1>8 DEF Branched, Overlap
  <2>. QED
    BY <2>5, <1>1, BranchedStays
<1>. QED
  BY <1>6, <1>7, <1>8

\* Every step keeps HeadInv.
LEMMA HeadStep ==
  ASSUME HeadOK, HeadInv, [Next]_vars
  PROVE  HeadInv'
<1>a. Kept
  BY KeptStep DEF HeadOK, RowsOK
<1>1. SUFFICES ASSUME NEW s \in Request, NEW t \in Request, Head(s)', Head(t)',
                      session'[s] = session'[t], s # t
               PROVE  Branched(session[s])'
  BY DEF HeadInv
<1>b. Branched(session[t])' => Branched(session[s])'
  BY <1>1 DEF Branched
<1>2. CASE token[s] = "absent" /\ token'[s] = "live"
  <2>1. Branched(session[t])'
    BY <1>1, <1>2, MintedHead, MintStep
  <2>. QED
    BY <2>1, <1>b
<1>3. CASE token[t] = "absent" /\ token'[t] = "live"
  BY <1>1, <1>3, MintedHead, MintStep
<1>4. CASE /\ ~(token[s] = "absent" /\ token'[s] = "live")
           /\ ~(token[t] = "absent" /\ token'[t] = "live")
  <2>1. Head(s) /\ Head(t)
    BY <1>1, <1>4, HeadsInherited
  <2>2. token[s] # "absent" /\ token[t] # "absent"
    BY <2>1, HeadIsStored DEF HeadOK
  <2>3. /\ session'[s] = session[s] /\ session'[t] = session[t]
        /\ session[s] \in Request
    BY <2>2, <1>a DEF HeadOK, RowsOK, RowInv, Kept
  <2>4. Branched(session[s])
    BY <2>1, <2>3, <1>1 DEF HeadInv
  <2>. QED
    BY <2>2, <2>4, BranchedStays
<1>. QED
  BY <1>2, <1>3, <1>4

\* A session has two live tokens only when two refreshes of one of its tokens
\* overlapped.
THEOREM SplitNeedsOverlap == Spec => []SplitOnlyByOverlap
<1>1. Init => SpentInv /\ HeadInv
  BY DEF Init, SpentInv, HeadInv, Head, Rotating
<1>2. RowsOK /\ SpentInv /\ HeadInv /\ [Next]_vars => SpentInv' /\ HeadInv'
  BY SpentStep, HeadStep DEF HeadOK
<1>3. HeadInv => SplitOnlyByOverlap
  BY DEF HeadInv, Head, Branched, SplitOnlyByOverlap
<1>. QED
  BY <1>1, <1>2, <1>3, RowsOKInvariant, PTL DEF Spec

-----------------------------------------------------------------------------
\* The session of an active device goes on to a token nothing has replaced, or
\* its login never came to insert one.
LeafInv ==
  \A d \in Request : device[d] = "active" =>
    \/ kind[d] = "login" /\ Unfinished(d)
    \/ \E t \in Request : LastToken(t, d)

\* A token that a refresh has just inserted is replaced by nobody, and takes
\* the place of the one it replaces.
LEMMA MintedLeaf ==
  ASSUME RowsOK, RowsOK', Kept, NEW q \in Request, CreateToken(q)
  PROVE  /\ LastToken(q, session[q])'
         /\ \A t \in Request, d \in Request :
              LastToken(t, d) => LastToken(t, d)' \/ session'[q] = d
<1>. USE DEF RowsOK, TypeInv, TypeOK, KindInv, RowInv, Kept, LastToken, Replaced
<1>1. /\ pc[q] = "mint" /\ token[q] = "absent"
      /\ token' = [token EXCEPT ![q] = "live"]
      /\ UNCHANGED <<kind, arg>>
  BY DEF CreateToken
<1>2. ASSUME NEW s \in Request, kind[s] = "refresh", arg[s] = q PROVE FALSE
  BY <1>1, <1>2
<1>3. ASSUME NEW t \in Request, NEW d \in Request, LastToken(t, d)
      PROVE  LastToken(t, d)' \/ session'[q] = d
  <2>1. session'[t] = d /\ token'[t] # "absent"
    BY <1>1, <1>3
  <2>2. CASE kind[q] = "refresh" /\ arg[q] = t
    <3>1. session'[q] = session[t]
      BY <2>2 DEF CreateToken
    <3>. QED
      BY <3>1, <1>3
  <2>3. CASE ~(kind[q] = "refresh" /\ arg[q] = t)
    BY <1>1, <1>3, <2>1, <2>3
  <2>. QED
    BY <2>2, <2>3
<1>4. LastToken(q, session[q])'
  <2>1. \A s \in Request : ~(kind'[s] = "refresh" /\ arg'[s] = q)
    BY <1>1, <1>2
  <2>. QED
    BY <1>1, <2>1
<1>. QED
  BY <1>3, <1>4

\* Every step keeps LeafInv.
LEMMA LeafStep ==
  ASSUME RowsOK, LeafInv, [Next]_vars
  PROVE  LeafInv'
<1>a. Kept /\ RowsOK'
  BY KeptStep, TypeStep, RowStep DEF RowsOK
<1>b. ASSUME UNCHANGED <<token, session>>,
             \A d \in Request : device'[d] = "active" => device[d] = "active",
             \A d \in Request : kind[d] = "login" /\ Unfinished(d) => Unfinished(d)'
      PROVE  LeafInv'
  <2>. SUFFICES ASSUME NEW d \in Request, device'[d] = "active"
                PROVE  \/ kind'[d] = "login" /\ Unfinished(d)'
                       \/ \E t \in Request : LastToken(t, d)'
    BY DEF LeafInv
  <2>1. CASE kind[d] = "login" /\ Unfinished(d)
    <3>1. kind'[d] = "login"
      BY <1>a, <2>1 DEF Unfinished, Between, Kept, RowsOK, RowInv
    <3>. QED
      BY <1>b, <2>1, <3>1
  <2>2. ASSUME NEW t \in Request, LastToken(t, d) PROVE LastToken(t, d)'
    <3>1. \A s \in Request : token[s] # "absent" => kind'[s] = kind[s] /\ arg'[s] = arg[s]
      BY <1>a DEF Kept, RowsOK, RowInv
    <3>. QED
      BY <1>b, <2>2, <3>1 DEF LastToken, Replaced
  <2>. QED
    BY <1>b, <2>1, <2>2 DEF LeafInv
<1>. USE <1>a DEF RowsOK, TypeInv, TypeOK, KindInv, RowInv, Kept, Unfinished, Between,
       Goto, Finish, FinishLast, Begin
<1>1. ASSUME NEW q \in Request, Login(q) PROVE LeafInv'
  BY <1>b, <1>1 DEF Login
<1>2. ASSUME NEW q \in Request, CreateDevice(q) PROVE LeafInv'
  <2>1. kind'[q] = "login" /\ Unfinished(q)'
    BY <1>2 DEF CreateDevice
  <2>2. ASSUME NEW d \in Request, d # q, device'[d] = "active" PROVE device[d] = "active"
    BY <1>2, <2>2 DEF CreateDevice
  <2>. QED
    BY <1>2, <2>1, <2>2 DEF CreateDevice, LeafInv, LastToken, Replaced
<1>3. ASSUME NEW q \in Request, CreateToken(q) PROVE LeafInv'
  <2>. SUFFICES ASSUME NEW d \in Request, device'[d] = "active", session'[q] # d
                PROVE  \/ kind'[d] = "login" /\ Unfinished(d)'
                       \/ \E t \in Request : LastToken(t, d)'
    BY <1>3, MintedLeaf DEF LeafInv
  <2>1. CASE kind[d] = "login" /\ Unfinished(d)
    <3>1. d # q
      BY <1>3, <2>1 DEF CreateToken
    <3>. QED
      BY <1>3, <2>1, <3>1 DEF CreateToken
  <2>2. CASE \E t \in Request : LastToken(t, d)
    BY <1>3, <2>2, MintedLeaf
  <2>3. device[d] = "active"
    BY <1>3 DEF CreateToken
  <2>. QED
    BY <2>1, <2>2, <2>3 DEF LeafInv
<1>4. ASSUME NEW q \in Request, LookupRefresh(q) PROVE LeafInv'
  BY <1>b, <1>4 DEF LookupRefresh
<1>5. ASSUME NEW q \in Request, RevokeOld(q) PROVE LeafInv'
  BY <1>5 DEF RevokeOld, LeafInv, LastToken, Replaced
<1>6. ASSUME NEW q \in Request, LookupLogout(q) PROVE LeafInv'
  BY <1>b, <1>6 DEF LookupLogout
<1>7. ASSUME NEW q \in Request, RevokeToken(q) PROVE LeafInv'
  BY <1>7 DEF RevokeToken, LeafInv, LastToken, Replaced
<1>8. ASSUME NEW q \in Request, RevokeDevice(q) PROVE LeafInv'
  BY <1>b, <1>8 DEF RevokeDevice
<1>9. ASSUME NEW q \in Request, Fail(q) PROVE LeafInv'
  BY <1>b, <1>9 DEF Fail, InFlight
<1>10. ASSUME NEW q \in Request, Expire(q) PROVE LeafInv'
  BY <1>b, <1>10 DEF Expire
<1>11. ASSUME NEW q \in Request, NEW t \in Request,
              Present(q, "refresh", t) \/ Present(q, "logout", t)
       PROVE  LeafInv'
  BY <1>b, <1>11 DEF Present
<1>12. CASE Crash
  BY <1>b, <1>12 DEF Crash, InFlight
<1>13. CASE UNCHANGED vars
  BY <1>b, <1>13 DEF vars
<1>. QED
  BY <1>1, <1>2, <1>3, <1>4, <1>5, <1>6, <1>7, <1>8, <1>9, <1>10, <1>11, <1>12, <1>13
  DEF Next, Serve

\* A device that is active with nobody able to use its session was left by a
\* login or by a request with its last token that stopped between its two
\* writes or has yet to make the second, or its last token has run out.
THEOREM OrphanNeedsStop == Spec => []OrphanOnlyByStopOrExpiry
<1>1. Init => LeafInv /\ LeftOpenInv
  BY DEF Init, LeafInv, LeftOpenInv
<1>2. RowsOK /\ LeafInv /\ LeftOpenInv /\ [Next]_vars => LeafInv' /\ LeftOpenInv'
  BY LeafStep, LeftOpenStep
<1>3. RowsOK /\ LeafInv /\ LeftOpenInv => OrphanOnlyByStopOrExpiry
  BY DEF RowsOK, TypeInv, TypeOK, LeafInv, LeftOpenInv, LastToken, Usable, Authorized,
         OrphanOnlyByStopOrExpiry
<1>. QED
  BY <1>1, <1>2, <1>3, RowsOKInvariant, PTL DEF Spec

-----------------------------------------------------------------------------
\* A request that mints for a login has inserted its devices row, and every
\* token leads to a row that was inserted.
DeviceInv ==
  \A q \in Request :
    /\ pc[q] = "mint" /\ kind[q] = "login" => device[q] # "absent"
    /\ token[q] # "absent" => device[session[q]] # "absent"

\* A step inserts a row, revokes one that was inserted, or leaves devices as
\* they are.
LEMMA DeviceMoves ==
  ASSUME RowsOK, DeviceInv, [Next]_vars
  PROVE  \/ UNCHANGED device
         \/ \E q \in Request : CreateDevice(q) /\ Dev!Login(q)
         \/ \E q \in Request : RevokeDevice(q) /\ Dev!Logout(session[arg[q]])
<1>. USE DEF RowsOK, TypeInv, TypeOK, KindInv, RowInv
<1>1. ASSUME NEW q \in Request, CreateDevice(q)
      PROVE  Dev!Login(q)
  BY <1>1 DEF CreateDevice, Dev!Login
<1>2. ASSUME NEW q \in Request, RevokeDevice(q)
      PROVE  UNCHANGED device \/ Dev!Logout(session[arg[q]])
  <2>1. /\ kind[q] = "logout" /\ arg[q] \in Request
        /\ token[arg[q]] # "absent" /\ session[arg[q]] \in Request
    BY <1>2 DEF RevokeDevice
  <2>2. device[session[arg[q]]] \in {"active", "revoked"}
    BY <2>1 DEF DeviceInv
  <2>3. device' = [device EXCEPT ![session[arg[q]]] = "revoked"]
    BY <1>2 DEF RevokeDevice
  <2>. QED
    BY <2>1, <2>2, <2>3 DEF Dev!Logout
<1>3. ASSUME NEW q \in Request,
             \/ Login(q) \/ CreateToken(q) \/ LookupRefresh(q) \/ RevokeOld(q)
             \/ LookupLogout(q) \/ RevokeToken(q) \/ Fail(q) \/ Expire(q)
             \/ \E t \in Request : Present(q, "refresh", t) \/ Present(q, "logout", t)
      PROVE  UNCHANGED device
  BY <1>3 DEF Login, CreateToken, LookupRefresh, RevokeOld, LookupLogout, RevokeToken, Fail,
              Expire, Present
<1>4. CASE Crash
  BY <1>4 DEF Crash
<1>5. CASE UNCHANGED vars
  BY <1>5 DEF vars
<1>. QED
  BY <1>1, <1>2, <1>3, <1>4, <1>5 DEF Next, Serve

\* Every step keeps DeviceInv: the row comes before the first token that leads
\* to it, and a refresh passes its own row on.
LEMMA DeviceStep ==
  ASSUME RowsOK, DeviceInv, [Next]_vars
  PROVE  DeviceInv'
<1>a. Kept /\ RowsOK'
  BY KeptStep, TypeStep, RowStep DEF RowsOK
<1>b. \A d \in Request : device[d] # "absent" => device'[d] # "absent"
  BY DeviceMoves DEF Dev!Login, Dev!Logout, RowsOK, TypeInv, TypeOK
<1>. USE <1>a, <1>b DEF RowsOK, TypeInv, TypeOK, KindInv, RowInv, Kept, DeviceInv, Goto,
       Finish, FinishLast, Begin
<1>1. ASSUME NEW q \in Request, Login(q) PROVE DeviceInv'
  BY <1>1 DEF Login
<1>2. ASSUME NEW q \in Request, CreateDevice(q) PROVE DeviceInv'
  BY <1>2 DEF CreateDevice
<1>3. ASSUME NEW q \in Request, CreateToken(q) PROVE DeviceInv'
  <2>1. device[session'[q]] # "absent"
    BY <1>3 DEF CreateToken
  <2>. QED
    BY <1>3, <2>1 DEF CreateToken
<1>4. ASSUME NEW q \in Request, LookupRefresh(q) PROVE DeviceInv'
  BY <1>4 DEF LookupRefresh
<1>5. ASSUME NEW q \in Request, RevokeOld(q) PROVE DeviceInv'
  BY <1>5 DEF RevokeOld
<1>6. ASSUME NEW q \in Request, LookupLogout(q) PROVE DeviceInv'
  BY <1>6 DEF LookupLogout
<1>7. ASSUME NEW q \in Request, RevokeToken(q) PROVE DeviceInv'
  BY <1>7 DEF RevokeToken
<1>8. ASSUME NEW q \in Request, RevokeDevice(q) PROVE DeviceInv'
  BY <1>8 DEF RevokeDevice
<1>9. ASSUME NEW q \in Request, Fail(q) PROVE DeviceInv'
  BY <1>9 DEF Fail, InFlight, Between
<1>10. ASSUME NEW q \in Request, Expire(q) PROVE DeviceInv'
  BY <1>10 DEF Expire
<1>11. ASSUME NEW q \in Request, NEW t \in Request,
              Present(q, "refresh", t) \/ Present(q, "logout", t)
       PROVE  DeviceInv'
  BY <1>11 DEF Present, Issued
<1>12. CASE Crash
  BY <1>12 DEF Crash, InFlight, Between
<1>13. CASE UNCHANGED vars
  BY <1>13 DEF vars
<1>. QED
  BY <1>1, <1>2, <1>3, <1>4, <1>5, <1>6, <1>7, <1>8, <1>9, <1>10, <1>11, <1>12, <1>13
  DEF Next, Serve

\* The logins and logouts, with the crashes and failures between their
\* statements, give every devices row the life that Messages sends under.
THEOREM SessionsKeepDevices == Spec => ImplementsDevices
<1>1. Init => DeviceInv /\ Dev!Init
  BY DEF Init, DeviceInv, Dev!Init
<1>2. RowsOK /\ DeviceInv /\ [Next]_vars => DeviceInv' /\ [Dev!Next]_device
  <2>1. SUFFICES ASSUME RowsOK, DeviceInv, [Next]_vars
                 PROVE  DeviceInv' /\ [Dev!Next]_device
    OBVIOUS
  <2>2. ASSUME NEW q \in Request, RevokeDevice(q) PROVE session[arg[q]] \in Request
    BY <2>1, <2>2 DEF RevokeDevice, RowsOK, TypeInv, TypeOK, KindInv, RowInv
  <2>. QED
    BY <2>1, <2>2, DeviceStep, DeviceMoves DEF Dev!Next
<1>. QED
  BY <1>1, <1>2, RowsOKInvariant, PTL DEF Spec, ImplementsDevices, Dev!Spec

-----------------------------------------------------------------------------
(* Backend.                                                                *)

Posts == INSTANCE MessagesProofs WITH
           Device <- Request, Request <- Send, pc <- stage, answer <- outcome

\* What the sends and the process do to the tables of Sessions is a step of
\* Sessions or none.
LEMMA SessionsMove ==
  ASSUME [BackendNext]_backendVars
  PROVE  [Next]_vars
<1>1. ASSUME NEW q \in Request, SessionStep(q) PROVE Next
  BY <1>1 DEF SessionStep, Next
<1>2. ASSUME NEW m \in Send, SendStep(m) PROVE UNCHANGED vars
  BY <1>2 DEF SendStep, Private, vars, Sends!Serve, Sends!CheckParticipant,
       Sends!InsertMessage, Sends!BuildRecipientRows, Sends!Commit, Sends!LoadExisting, Sends!Fail
<1>3. ASSUME NEW m \in Send, NEW a \in Sends!Args, AdmitSend(m, a) PROVE UNCHANGED vars
  BY <1>3 DEF AdmitSend, Private, vars, Sends!Admit
<1>4. CASE Die
  BY <1>4 DEF Die, Next
<1>5. CASE UNCHANGED backendVars
  BY <1>5 DEF backendVars, vars
<1>. QED
  BY <1>1, <1>2, <1>3, <1>4, <1>5 DEF BackendNext

\* Sessions are not disturbed by sends: what is proved of them holds here.
THEOREM ImplementsSessions == BackendSpec => Spec
<1>1. BackendInit => Init
  BY DEF BackendInit
<1>2. [BackendNext]_backendVars => [Next]_vars
  BY SessionsMove
<1>. QED
  BY <1>1, <1>2, PTL DEF BackendSpec, Spec

\* DeviceInv holds in every state.
LEMMA DeviceInvariant == Spec => []DeviceInv
<1>1. Init => DeviceInv
  <2>. SUFFICES ASSUME Init, NEW q \in Request PROVE pc[q] = "idle" /\ token[q] = "absent"
    BY DEF DeviceInv
  <2>. QED
    BY DEF Init
<1>2. RowsOK /\ DeviceInv /\ [Next]_vars => DeviceInv'
  BY DeviceStep
<1>. QED
  BY <1>1, <1>2, RowsOKInvariant, PTL DEF Spec

\* What the session requests do to devices is what Messages allows for.
LEMMA SendsMove ==
  ASSUME RowsOK, DeviceInv, [BackendNext]_backendVars
  PROVE  [Posts!Next]_Posts!vars
<1>a. [Next]_vars
  BY SessionsMove
<1>1. ASSUME NEW q \in Request, SessionStep(q) PROVE Posts!Next \/ UNCHANGED Posts!vars
  <2>1. UNCHANGED <<req, stage, rows, messages, recipients, outcome, atStart>>
    BY <1>1 DEF SessionStep, sending
  <2>2. CASE UNCHANGED device
    BY <2>1, <2>2 DEF Posts!vars
  <2>3. ASSUME NEW d \in Request, Dev!Login(d) PROVE Posts!Next
    BY <2>1, <2>3 DEF Dev!Login, Posts!Next, Posts!DeviceLogin, Posts!DeviceRows!Login
  <2>4. ASSUME NEW d \in Request, Dev!Logout(d) PROVE Posts!Next
    BY <2>1, <2>4 DEF Dev!Logout, Posts!Next, Posts!DeviceLogout, Posts!DeviceRows!Logout
  <2>5. ASSUME NEW p \in Request, RevokeDevice(p) PROVE session[arg[p]] \in Request
    BY <2>5 DEF RevokeDevice, RowsOK, TypeInv, TypeOK, KindInv, RowInv
  <2>. QED
    BY <1>a, <2>2, <2>3, <2>4, <2>5, DeviceMoves
<1>2. ASSUME NEW m \in Send, SendStep(m) PROVE Posts!Next
  <2>1. Posts!Serve(m) \/ Posts!Fail(m)
    BY <1>2 DEF SendStep, Sends!Serve, Sends!Fail, Sends!CheckParticipant, Sends!InsertMessage,
         Sends!BuildRecipientRows, Sends!Commit, Sends!LoadExisting, Sends!InFlight, Sends!Finish,
         Sends!Goto, Sends!OtherDevices, Sends!InTransaction, Sends!SameKey,
         Posts!Serve, Posts!Fail, Posts!CheckParticipant, Posts!InsertMessage,
         Posts!BuildRecipientRows, Posts!Commit, Posts!LoadExisting, Posts!InFlight, Posts!Finish,
         Posts!Goto, Posts!OtherDevices, Posts!InTransaction, Posts!SameKey
  <2>. QED
    BY <2>1 DEF Posts!Next
<1>3. ASSUME NEW m \in Send, NEW a \in Sends!Args, AdmitSend(m, a) PROVE Posts!Next
  BY <1>3 DEF AdmitSend, Sends!Args, Sends!Admit, Sends!Goto, Posts!Next, Posts!Args, Posts!Admit,
       Posts!Goto
<1>4. CASE Die
  <2>1. UNCHANGED device
    BY <1>4 DEF Die, Crash, vars
  <2>2. CASE Sends!Crash
    BY <2>2 DEF Sends!Crash, Sends!InFlight, Posts!Next, Posts!Crash, Posts!InFlight
  <2>3. CASE UNCHANGED sending
    BY <2>1, <2>3 DEF sending, Posts!vars
  <2>. QED
    BY <1>4, <2>2, <2>3 DEF Die
<1>5. CASE UNCHANGED backendVars
  BY <1>5 DEF backendVars, vars, sending, Posts!vars
<1>. QED
  BY <1>1, <1>2, <1>3, <1>4, <1>5 DEF BackendNext

\* Messages, checked with devices that come and go at will, covers the sends
\* of the backend, where logins and logouts stop between their statements,
\* repeat and overlap.
THEOREM ImplementsMessages == BackendSpec => Posts!Spec
<1>1. BackendInit => Posts!Init
  BY DEF BackendInit, Init, Posts!Init, Posts!DeviceRows!Init
<1>2. RowsOK /\ DeviceInv /\ [BackendNext]_backendVars => [Posts!Next]_Posts!vars
  BY SendsMove
<1>. QED
  BY <1>1, <1>2, ImplementsSessions, RowsOKInvariant, DeviceInvariant, PTL
  DEF BackendSpec, Posts!Spec

\* So no send is stored twice, replies are backed by rows, and the fan-out is
\* exact, under the logins and logouts the auth service really performs.
THEOREM PromisesCarryOver ==
  BackendSpec => [](Posts!NoDuplicateMessage /\ Posts!AckedIsStored /\ Posts!FanOut)
<1>1. Posts!Spec => []Posts!NoDuplicateMessage
  BY BackendAssumption, Posts!NoDuplicate DEF Posts!Args
<1>2. Posts!Spec => []Posts!AckedIsStored
  BY BackendAssumption, Posts!AckedStaysStored DEF Posts!Args
<1>3. Posts!Spec => []Posts!FanOut
  BY BackendAssumption, Posts!FanOutExact DEF Posts!Args
<1>. QED
  BY <1>1, <1>2, <1>3, ImplementsMessages, PTL

EarlierOK == earlier \in [Send -> SUBSET Request]

\* Both sides keep their types.
THEOREM BackendTypeCorrect == BackendSpec => []BackendTypeOK
<1>1. Posts!Spec => []Posts!TypeOK
  BY BackendAssumption, Posts!TypeCorrect DEF Posts!Args
<1>2. BackendInit => EarlierOK
  BY DEF BackendInit, EarlierOK
<1>3. EarlierOK /\ [BackendNext]_backendVars => EarlierOK'
  <2>1. [BackendNext]_backendVars =>
          UNCHANGED earlier \/ \E m \in Send : \E a \in Sends!Args : AdmitSend(m, a)
    BY DEF BackendNext, SessionStep, SendStep, Die, backendVars
  <2>2. ASSUME EarlierOK, NEW m \in Send, NEW a \in Sends!Args, AdmitSend(m, a) PROVE EarlierOK'
    BY <2>2 DEF AdmitSend, EarlierOK
  <2>. QED
    BY <2>1, <2>2 DEF EarlierOK
<1>4. TypeOK /\ Posts!TypeOK /\ EarlierOK => BackendTypeOK
  BY DEF BackendTypeOK, EarlierOK, Posts!TypeOK, Posts!Args, Posts!DeviceStatus, Posts!Stage,
       Posts!Answer, Sends!TypeOK, Sends!Args, Sends!DeviceStatus, Sends!Stage, Sends!Answer
<1>. QED
  BY <1>1, <1>2, <1>3, <1>4, ImplementsSessions, ImplementsMessages, TypeCorrect, PTL
  DEF BackendSpec

-----------------------------------------------------------------------------
\* Another request with the token of q that stopped between its statements, or
\* that overlapped q and had not ended when the send m began.
Excused(p, q, m) ==
  /\ arg[p] = arg[q]
  /\ p \in halfway \/ (p \notin earlier[m] /\ Overlap(p, q))

Shut(d, m) == device[d] = "revoked" /\ CutOff(d, m) /\ d \notin rows[m]

\* A logout that was answered success before the send m began.
Cut(q, m) ==
  /\ pc[q] = "done"
  /\ kind[q] = "logout" /\ answer[q] = "ok" =>
       \/ Shut(session[arg[q]], m)
       \/ Replaced(arg[q])
       \/ \E p \in Request : Excused(p, q, m)

\* The device of such a logout is revoked and the send has it nowhere, its
\* open transaction included.
CutInv ==
  /\ \A m \in Send : stage[m] = "idle" => rows[m] = {} /\ recipients[m] = {}
  /\ \A m \in Send : \A q \in earlier[m] : Cut(q, m)

\* A send is admitted while the device of an ended session is revoked.
LEMMA AdmitStep ==
  ASSUME RowsOK, DeviceInv, SpentInv, LeftOpenInv, CutInv, EarlierOK,
         Sends!TypeOK, NEW m \in Send, NEW a \in Sends!Args, AdmitSend(m, a)
  PROVE  CutInv'
<1>1. /\ UNCHANGED <<kind, arg, pc, answer, token, session, before, halfway, device, rows, recipients>>
      /\ stage[m] = "idle" /\ device[a.dev] = "active"
      /\ req' = [req EXCEPT ![m] = a]
      /\ stage' = [stage EXCEPT ![m] = "check"]
      /\ earlier' = [earlier EXCEPT ![m] = {q \in Request : pc[q] = "done"}]
  BY DEF AdmitSend, Private, Sends!Admit, Sends!Goto
<1>2. req'[m] = a /\ \A n \in Send : n # m => req'[n] = req[n]
  BY <1>1 DEF Sends!TypeOK
<1>3. earlier'[m] = {q \in Request : pc[q] = "done"} /\ \A n \in Send : n # m => earlier'[n] = earlier[n]
  BY <1>1 DEF EarlierOK
<1>4. ASSUME NEW q \in Request, pc[q] = "done", kind[q] = "logout", answer[q] = "ok"
      PROVE  \/ /\ device[session[arg[q]]] = "revoked"
                /\ a.dev # session[arg[q]]
                /\ session[arg[q]] \notin recipients[m]
                /\ session[arg[q]] \notin rows[m]
             \/ Replaced(arg[q])
             \/ \E p \in Request :
                  arg[p] = arg[q] /\ (p \in halfway \/ (pc[p] # "done" /\ Overlap(p, q)))
  <2>1. arg[q] \in Request /\ token[arg[q]] = "revoked"
    BY <1>4 DEF RowsOK, TypeInv, KindInv, RowInv
  <2>2. CASE ~Authorized(arg[q])
    <3>1. device[session[arg[q]]] = "revoked"
      BY <2>1, <2>2 DEF Authorized, DeviceInv, RowsOK, TypeInv, TypeOK, RowInv
    <3>. QED
      BY <3>1, <1>1 DEF CutInv
  <2>3. ASSUME NEW p \in Request, arg[p] = arg[q], Between(p) PROVE pc[p] # "done" /\ Overlap(p, q)
    BY <1>4, <2>3 DEF Between, Overlap, SpentInv
  <2>. QED
    BY <2>1, <2>2, <2>3 DEF LeftOpenInv, Unfinished
<1>5. \A n \in Send : stage'[n] = "idle" => rows'[n] = {} /\ recipients'[n] = {}
  BY <1>1 DEF CutInv, Sends!TypeOK
<1>6. ASSUME NEW n \in Send, NEW q \in earlier'[n], n # m PROVE Cut(q, n)'
  <2>1. Cut(q, n) /\ req'[n] = req[n] /\ earlier'[n] = earlier[n]
    BY <1>2, <1>3, <1>6 DEF CutInv
  <2>2. Shut(session[arg[q]], n) => Shut(session[arg[q]], n)'
    BY <1>1, <2>1 DEF Shut, CutOff
  <2>3. \A p \in Request : Excused(p, q, n) => Excused(p, q, n)'
    BY <1>1, <2>1 DEF Excused, Overlap
  <2>4. Replaced(arg[q]) => Replaced(arg[q])'
    BY <1>1 DEF Replaced
  <2>. QED
    BY <1>1, <2>1, <2>2, <2>3, <2>4 DEF Cut
<1>7. ASSUME NEW q \in earlier'[m] PROVE Cut(q, m)'
  <2>1. q \in Request /\ pc[q] = "done"
    BY <1>3, <1>7
  <2>2. SUFFICES ASSUME kind[q] = "logout", answer[q] = "ok"
                 PROVE  \/ Shut(session[arg[q]], m)'
                        \/ Replaced(arg[q])'
                        \/ \E p \in Request : Excused(p, q, m)'
    BY <1>1, <2>1 DEF Cut
  <2>3. CASE /\ device[session[arg[q]]] = "revoked"
             /\ a.dev # session[arg[q]]
             /\ session[arg[q]] \notin recipients[m]
             /\ session[arg[q]] \notin rows[m]
    BY <1>1, <1>2, <2>3 DEF Shut, CutOff
  <2>4. CASE Replaced(arg[q])
    BY <1>1, <2>4 DEF Replaced
  <2>5. ASSUME NEW p \in Request, arg[p] = arg[q],
               p \in halfway \/ (pc[p] # "done" /\ Overlap(p, q))
        PROVE  Excused(p, q, m)'
    BY <1>1, <1>3, <2>5 DEF Excused, Overlap
  <2>. QED
    BY <1>4, <2>1, <2>2, <2>3, <2>4, <2>5
<1>. QED
  BY <1>1, <1>5, <1>6, <1>7 DEF CutInv

\* A step of the session requests or of an admitted send keeps CutInv, as the
\* fan-out reads active devices only.
LEMMA CutFrame ==
  ASSUME RowsOK, Kept, CutInv, EarlierOK,
         UNCHANGED <<earlier, req>>,
         NEW m \in Send, NEW q \in earlier[m],
         \A d \in Request : device[d] = "revoked" /\ d \notin rows[m] /\ d \notin recipients[m]
                              => d \notin rows'[m] /\ d \notin recipients'[m]
  PROVE  Cut(q, m)'
<1>1. pc[q] = "done" /\ q \in Request
  BY DEF CutInv, Cut, EarlierOK
<1>2. pc'[q] = "done" /\ kind'[q] = kind[q] /\ arg'[q] = arg[q] /\ answer'[q] = answer[q]
      /\ before'[q] = before[q]
  BY <1>1 DEF Kept
<1>3. SUFFICES ASSUME kind[q] = "logout", answer[q] = "ok"
               PROVE  \/ Shut(session[arg[q]], m)'
                      \/ Replaced(arg[q])'
                      \/ \E p \in Request : Excused(p, q, m)'
  BY <1>2 DEF Cut
<1>4. /\ arg[q] \in Request /\ token[arg[q]] = "revoked" /\ pc[arg[q]] = "done"
      /\ session[arg[q]] \in Request /\ session'[arg[q]] = session[arg[q]]
  BY <1>1, <1>3 DEF RowsOK, TypeInv, KindInv, RowInv, Kept
<1>5. CASE Shut(session[arg[q]], m)
  BY <1>2, <1>4, <1>5 DEF Shut, CutOff, Kept
<1>6. CASE Replaced(arg[q])
  BY <1>2, <1>6 DEF Replaced, Kept, RowsOK, RowInv
<1>7. ASSUME NEW p \in Request, Excused(p, q, m) PROVE Excused(p, q, m)'
  <2>1. pc[p] # "idle"
    BY <1>4, <1>7, SessionsAssumption DEF Excused, RowsOK, TypeInv, KindInv
  <2>2. arg'[p] = arg[p] /\ before'[p] = before[p]
    BY <2>1 DEF Kept
  <2>. QED
    BY <1>2, <1>7, <2>2 DEF Excused, Overlap, Kept
<1>. QED
  BY <1>1, <1>3, <1>5, <1>6, <1>7 DEF CutInv, Cut

\* Every step keeps CutInv.
LEMMA CutStep ==
  ASSUME RowsOK, DeviceInv, SpentInv, LeftOpenInv, CutInv, BackendTypeOK,
         [BackendNext]_backendVars
  PROVE  CutInv'
<1>a. Kept
  BY SessionsMove, KeptStep DEF RowsOK
<1>b. EarlierOK /\ Sends!TypeOK
  BY DEF BackendTypeOK, EarlierOK
<1>c. ASSUME UNCHANGED <<earlier, req>>,
             \A m \in Send : /\ stage'[m] = "idle" => stage[m] = "idle"
                             /\ stage[m] = "idle" => rows'[m] = rows[m] /\ recipients'[m] = recipients[m]
                             /\ \A d \in Request :
                                  device[d] = "revoked" /\ d \notin rows[m] /\ d \notin recipients[m]
                                    => d \notin rows'[m] /\ d \notin recipients'[m]
      PROVE  CutInv'
  <2>1. \A m \in Send : stage'[m] = "idle" => rows'[m] = {} /\ recipients'[m] = {}
    BY <1>c DEF CutInv
  <2>. QED
    BY <2>1, <1>a, <1>b, <1>c, CutFrame DEF CutInv
<1>1. ASSUME NEW q \in Request, SessionStep(q) PROVE CutInv'
  BY <1>c, <1>1 DEF SessionStep, sending
<1>2. ASSUME NEW m \in Send, SendStep(m) PROVE CutInv'
  <2>1. UNCHANGED <<earlier, req>>
    BY <1>2 DEF SendStep, Sends!Serve, Sends!Fail, Sends!CheckParticipant, Sends!InsertMessage,
         Sends!BuildRecipientRows, Sends!Commit, Sends!LoadExisting
  <2>2. stage[m] # "idle" /\ stage'[m] # "idle" /\ \A n \in Send : n # m => stage'[n] = stage[n]
    BY <1>2, <1>b DEF SendStep, Sends!Serve, Sends!Fail, Sends!CheckParticipant, Sends!InsertMessage,
         Sends!BuildRecipientRows, Sends!Commit, Sends!LoadExisting, Sends!Finish, Sends!Goto,
         Sends!InFlight, Sends!TypeOK
  <2>3. /\ \A n \in Send : n # m => rows'[n] = rows[n] /\ recipients'[n] = recipients[n]
        /\ rows'[m] \in {rows[m], {}, {d \in Sends!OtherDevices(m) : device[d] = "active"}}
        /\ recipients'[m] \in {recipients[m], rows[m]}
    BY <1>2, <1>b DEF SendStep, Sends!Serve, Sends!Fail, Sends!CheckParticipant, Sends!InsertMessage,
         Sends!BuildRecipientRows, Sends!Commit, Sends!LoadExisting, Sends!Finish, Sends!Goto,
         Sends!TypeOK
  <2>. QED
    BY <1>c, <2>1, <2>2, <2>3
<1>3. ASSUME NEW m \in Send, NEW a \in Sends!Args, AdmitSend(m, a) PROVE CutInv'
  BY <1>3, <1>b, AdmitStep
<1>4. CASE Die
  <2>1. UNCHANGED <<earlier, req, recipients>>
    BY <1>4 DEF Die, sending, Sends!Crash
  <2>2. \A m \in Send : /\ stage'[m] = "idle" <=> stage[m] = "idle"
                        /\ rows'[m] \in {rows[m], {}}
    BY <1>4, <1>b DEF Die, sending, Sends!Crash, Sends!InFlight, Sends!TypeOK
  <2>. QED
    BY <1>c, <2>1, <2>2 DEF CutInv
<1>5. CASE UNCHANGED backendVars
  BY <1>c, <1>5 DEF backendVars, vars, sending
<1>. QED
  BY <1>1, <1>2, <1>3, <1>4, <1>5 DEF BackendNext

\* A logout that was answered success before a send began has cut its device
\* off from it, unless the token was replaced, or another request with it
\* stopped between its statements or overlapped the logout and the send.
THEOREM LoggedOutCutOff == BackendSpec => []LoggedOutIsCutOff
<1>1. BackendInit => CutInv
  BY DEF BackendInit, CutInv
<1>2. /\ Init => SpentInv /\ LeftOpenInv
      /\ RowsOK /\ SpentInv /\ LeftOpenInv /\ [Next]_vars => SpentInv' /\ LeftOpenInv'
  BY SpentStep, LeftOpenStep DEF Init, SpentInv, LeftOpenInv
<1>3. Spec => [](SpentInv /\ LeftOpenInv)
  BY <1>2, RowsOKInvariant, PTL DEF Spec
<1>4. /\ RowsOK /\ DeviceInv /\ SpentInv /\ LeftOpenInv /\ CutInv /\ BackendTypeOK
      /\ [BackendNext]_backendVars
      => CutInv'
  BY CutStep
<1>5. BackendTypeOK /\ CutInv => LoggedOutIsCutOff
  BY DEF BackendTypeOK, Sends!TypeOK, CutInv, Cut, Shut, LoggedOutIsCutOff, Excused
<1>. QED
  BY <1>1, <1>3, <1>4, <1>5, ImplementsSessions, RowsOKInvariant, DeviceInvariant,
     BackendTypeCorrect, PTL DEF BackendSpec
=============================================================================
