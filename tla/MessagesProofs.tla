--------------------------- MODULE MessagesProofs ---------------------------
(***************************************************************************)
(* Proofs about Messages, for every set of users, devices, conversations,  *)
(* keys and requests.  The invariant is built in layers: types, then the   *)
(* index entries open transactions hold (KeyInv), then what replies and    *)
(* recipient rows say (ReplyInv, FanOutInv).                               *)
(***************************************************************************)
EXTENDS Messages, TLAPS

\* Spec keeps every variable within its type.
THEOREM TypeCorrect == Spec => []TypeOK
<1>1. Init => TypeOK
  BY MessagesAssumption DEF Init, DeviceRows!Init, TypeOK, DeviceStatus, Stage, Answer
<1>2. TypeOK /\ [Next]_vars => TypeOK'
  <2>1. SUFFICES ASSUME TypeOK, [Next]_vars PROVE TypeOK'
    OBVIOUS
  <2>. USE <2>1 DEF TypeOK, DeviceStatus, Stage, Answer
  <2>2. CASE \E d \in Device : DeviceLogin(d) \/ DeviceLogout(d)
    BY <2>2 DEF DeviceLogin, DeviceLogout, DeviceRows!Login, DeviceRows!Logout
  <2>3. ASSUME NEW r \in Request, NEW a \in Args, Admit(r, a)
        PROVE  TypeOK'
    BY <2>3 DEF Admit, Goto
  <2>4. ASSUME NEW r \in Request, CheckParticipant(r)
        PROVE  TypeOK'
    BY <2>4 DEF CheckParticipant, Goto, Finish
  <2>5. ASSUME NEW r \in Request, InsertMessage(r)
        PROVE  TypeOK'
    BY <2>5 DEF InsertMessage, Goto
  <2>6. ASSUME NEW r \in Request, BuildRecipientRows(r)
        PROVE  TypeOK'
    BY <2>6 DEF BuildRecipientRows, Goto, OtherDevices
  <2>7. ASSUME NEW r \in Request, Commit(r)
        PROVE  TypeOK'
    BY <2>7 DEF Commit, Goto, Finish
  <2>8. ASSUME NEW r \in Request, LoadExisting(r)
        PROVE  TypeOK'
    BY <2>8 DEF LoadExisting, Goto, Finish
  <2>9. ASSUME NEW r \in Request, Fail(r)
        PROVE  TypeOK'
    BY <2>9 DEF Fail, Goto, Finish
  <2>10. CASE Crash
    BY <2>10 DEF Crash
  <2>11. CASE UNCHANGED vars
    BY <2>11 DEF vars
  <2>. QED
    BY <2>2, <2>3, <2>4, <2>5, <2>6, <2>7, <2>8, <2>9, <2>10, <2>11
    DEF Next, Serve
<1>. QED
  BY <1>1, <1>2, PTL DEF Spec

-----------------------------------------------------------------------------
\* What open transactions hold: a key is held by one of them and by no
\* committed row, and a committed row's request is over.
Admitted   == \A r \in Request : pc[r] # "idle" => req[r] \in Args
StoredDone == \A m \in messages : pc[m] = "done"
KeyHeld    == \A r \in Request : InTransaction(r) =>
                \A m \in messages : ~SameKey(r, m)
OneHolder  == \A r, s \in Request :
                InTransaction(r) /\ InTransaction(s) /\ SameKey(r, s) => r = s

KeyInv == Admitted /\ StoredDone /\ KeyHeld /\ OneHolder /\ NoDuplicateMessage

\* A step that opens no transaction, stores nothing and changes the arguments
\* of no admitted request keeps KeyInv.
LEMMA KeyFrame ==
  ASSUME TypeOK, KeyInv, TypeOK',
         messages' = messages,
         \A r \in Request : pc[r] # "idle" => req'[r] = req[r] /\ pc'[r] # "idle",
         \A r \in Request : pc'[r] # "idle" => req'[r] \in Args,
         \A r \in Request : InTransaction(r)' => InTransaction(r),
         \A r \in Request : pc[r] = "done" => pc'[r] = "done"
  PROVE  KeyInv'
<1>. USE DEF TypeOK
<1>1. \A m \in messages : m \in Request /\ pc[m] = "done" /\ req'[m] = req[m]
  BY DEF KeyInv, StoredDone
<1>2. \A r \in Request : InTransaction(r) => req'[r] = req[r]
  BY DEF InTransaction
<1>3. Admitted' /\ StoredDone'
  BY <1>1 DEF Admitted, StoredDone
<1>4. KeyHeld'
  <2>. SUFFICES ASSUME NEW r \in Request, InTransaction(r)', NEW m \in messages
                PROVE  ~SameKey(r, m)'
    BY DEF KeyHeld
  <2>1. ~SameKey(r, m)
    BY DEF KeyInv, KeyHeld
  <2>. QED
    BY <1>1, <1>2, <2>1 DEF SameKey
<1>5. OneHolder'
  BY <1>2 DEF KeyInv, OneHolder, SameKey
<1>6. NoDuplicateMessage'
  BY <1>1 DEF KeyInv, NoDuplicateMessage, SameKey
<1>. QED
  BY <1>3, <1>4, <1>5, <1>6 DEF KeyInv

LEMMA KeyStep == TypeOK /\ TypeOK' /\ KeyInv /\ [Next]_vars => KeyInv'
<1>1. SUFFICES ASSUME TypeOK, TypeOK', KeyInv, [Next]_vars PROVE KeyInv'
  OBVIOUS
<1>. USE <1>1
<1>2. CASE \E d \in Device : DeviceLogin(d) \/ DeviceLogout(d)
  BY <1>2, KeyFrame DEF DeviceLogin, DeviceLogout, DeviceRows!Login, DeviceRows!Logout, InTransaction, KeyInv, Admitted
<1>3. ASSUME NEW r \in Request, NEW a \in Args, Admit(r, a)
      PROVE  KeyInv'
  BY <1>3, KeyFrame DEF Admit, Goto, InTransaction, KeyInv, Admitted, TypeOK
<1>4. ASSUME NEW r \in Request, CheckParticipant(r)
      PROVE  KeyInv'
  BY <1>4, KeyFrame
  DEF CheckParticipant, Goto, Finish, InTransaction, KeyInv, Admitted, TypeOK
<1>5. ASSUME NEW r \in Request, InsertMessage(r)
      PROVE  KeyInv'
  <2>. USE <1>5 DEF TypeOK, KeyInv
  <2>1. Admitted' /\ StoredDone' /\ NoDuplicateMessage'
    BY DEF InsertMessage, Goto, Admitted, StoredDone, NoDuplicateMessage, SameKey
  <2>2. CASE pc' = [pc EXCEPT ![r] = "lookup"]
    BY <2>2, KeyFrame DEF InsertMessage, InTransaction, Admitted
  <2>3. CASE /\ \A m \in messages : ~SameKey(r, m)
             /\ pc' = [pc EXCEPT ![r] = "fanout"]
    <3>1. KeyHeld'
      BY <2>3 DEF InsertMessage, KeyHeld, InTransaction, SameKey
    <3>2. OneHolder'
      BY <2>3 DEF InsertMessage, OneHolder, InTransaction, SameKey
    <3>. QED
      BY <2>1, <3>1, <3>2
  <2>. QED
    BY <2>2, <2>3 DEF InsertMessage, Goto
<1>6. ASSUME NEW r \in Request, BuildRecipientRows(r)
      PROVE  KeyInv'
  BY <1>6, KeyFrame
  DEF BuildRecipientRows, Goto, InTransaction, KeyInv, Admitted, TypeOK
<1>7. ASSUME NEW r \in Request, Commit(r)
      PROVE  KeyInv'
  <2>. USE <1>7 DEF TypeOK, KeyInv
  <2>1. /\ pc[r] = "commit"
        /\ pc' = [pc EXCEPT ![r] = "done"]
        /\ messages' = messages \cup {r}
        /\ req' = req
    BY DEF Commit, Goto, Finish
  <2>2. Admitted' /\ StoredDone'
    BY <2>1 DEF Admitted, StoredDone
  <2>3. KeyHeld'
    BY <2>1 DEF KeyHeld, OneHolder, InTransaction, SameKey
  <2>4. OneHolder'
    BY <2>1 DEF OneHolder, InTransaction, SameKey
  <2>5. NoDuplicateMessage'
    BY <2>1 DEF NoDuplicateMessage, KeyHeld, InTransaction, SameKey
  <2>. QED
    BY <2>2, <2>3, <2>4, <2>5
<1>8. ASSUME NEW r \in Request, LoadExisting(r)
      PROVE  KeyInv'
  BY <1>8, KeyFrame
  DEF LoadExisting, Goto, Finish, InTransaction, KeyInv, Admitted, TypeOK
<1>9. ASSUME NEW r \in Request, Fail(r)
      PROVE  KeyInv'
  BY <1>9, KeyFrame
  DEF Fail, InFlight, Goto, Finish, InTransaction, KeyInv, Admitted, TypeOK
<1>10. CASE Crash
  BY <1>10, KeyFrame DEF Crash, InFlight, InTransaction, KeyInv, Admitted, TypeOK
<1>11. CASE UNCHANGED vars
  BY <1>11, KeyFrame DEF vars, InTransaction, KeyInv, Admitted
<1>. QED
  BY <1>2, <1>3, <1>4, <1>5, <1>6, <1>7, <1>8, <1>9, <1>10, <1>11
  DEF Next, Serve

LEMMA KeyInvariant == Spec => []KeyInv
<1>1. Init => KeyInv
  BY DEF Init, KeyInv, Admitted, StoredDone, KeyHeld, OneHolder,
         InTransaction, NoDuplicateMessage
<1>. QED
  BY <1>1, KeyStep, TypeCorrect, PTL DEF Spec

\* No send is ever stored twice, however its attempts overlap, fail or crash:
\* the index entry an open transaction holds excludes every other insert.
THEOREM NoDuplicate == Spec => []NoDuplicateMessage
BY KeyInvariant, PTL DEF KeyInv

-----------------------------------------------------------------------------
\* Rows survive: a step changes neither a stored message's arguments nor its
\* recipients, and stores nothing but by Commit.
LEMMA StoredStep ==
  ASSUME TypeOK, KeyInv, [Next]_vars, NEW m \in messages
  PROVE  /\ m \in messages'
         /\ recipients'[m] = recipients[m]
         /\ req'[m] = req[m]
         /\ pc'[m] = pc[m]
<1>. USE DEF TypeOK
<1>1. m \in Request /\ pc[m] = "done"
  BY DEF KeyInv, StoredDone
<1>2. CASE \E d \in Device : DeviceLogin(d) \/ DeviceLogout(d)
  BY <1>2 DEF DeviceLogin, DeviceLogout, DeviceRows!Login, DeviceRows!Logout
<1>3. ASSUME NEW r \in Request, NEW a \in Args, Admit(r, a)
      PROVE  /\ m \in messages' /\ recipients'[m] = recipients[m]
             /\ req'[m] = req[m] /\ pc'[m] = pc[m]
  BY <1>1, <1>3 DEF Admit, Goto
<1>4. ASSUME NEW r \in Request, Serve(r) \/ Fail(r)
      PROVE  /\ m \in messages' /\ recipients'[m] = recipients[m]
             /\ req'[m] = req[m] /\ pc'[m] = pc[m]
  BY <1>1, <1>4
  DEF Serve, CheckParticipant, InsertMessage, BuildRecipientRows, Commit,
      LoadExisting, Fail, InFlight, Goto, Finish
<1>5. CASE Crash
  BY <1>1, <1>5 DEF Crash, InFlight
<1>6. CASE UNCHANGED vars
  BY <1>6 DEF vars
<1>. QED
  BY <1>2, <1>3, <1>4, <1>5, <1>6 DEF Next

\* A stored message, its recipients and its key never change again.
THEOREM StoredIsFinal == Spec => StoredForever
<1>1. TypeOK /\ KeyInv /\ [Next]_vars =>
        [\A m \in messages : /\ m \in messages'
                             /\ recipients'[m] = recipients[m]
                             /\ req'[m] = req[m]]_vars
  BY StoredStep
<1>. QED
  BY <1>1, TypeCorrect, KeyInvariant, PTL DEF Spec, StoredForever

-----------------------------------------------------------------------------
\* A reply, once given, keeps agreeing with what is stored.
Outstanding == \A r \in Request : answer[r] # "none" => pc[r] = "done"
ReplyInv == Outstanding /\ AckedIsStored

LEMMA ReplyStep ==
  TypeOK /\ TypeOK' /\ KeyInv /\ ReplyInv /\ [Next]_vars => ReplyInv'
<1>1. SUFFICES ASSUME TypeOK, TypeOK', KeyInv, ReplyInv, [Next]_vars
               PROVE  ReplyInv'
  OBVIOUS
<1>. USE <1>1 DEF TypeOK
<1>2. \A m \in messages : /\ m \in messages'
                          /\ req'[m] = req[m]
                          /\ pc[m] = "done"
  BY StoredStep DEF KeyInv, StoredDone
<1>3. ASSUME \A r \in Request : answer[r] # "none" =>
               answer'[r] = answer[r] /\ req'[r] = req[r] /\ pc'[r] = "done",
             NEW q \in Request,
             \A r \in Request \ {q} :
               answer'[r] # answer[r] => answer'[r] = "lost" /\ pc'[r] = "done",
             answer'[q] # answer[q] => pc'[q] = "done",
             answer'[q] # answer[q] /\ answer'[q] = "created" => q \in messages',
             answer'[q] # answer[q] /\ answer'[q] = "existing" =>
               \E m \in messages \ {q} : SameKey(q, m)' /\ req[m].conv = req'[q].conv,
             answer'[q] # answer[q] /\ answer'[q] = "reused" =>
               \E m \in messages \ {q} : SameKey(q, m)' /\ req[m].conv # req'[q].conv
      PROVE  ReplyInv'
  <2>1. Outstanding'
    BY <1>3 DEF ReplyInv, Outstanding
  <2>2. ASSUME NEW r \in Request
        PROVE  /\ answer'[r] = "created" => r \in messages'
               /\ answer'[r] = "existing" =>
                    \E m \in messages' \ {r} : SameKey(r, m)' /\ req'[m].conv = req'[r].conv
               /\ answer'[r] = "reused" =>
                    \E m \in messages' \ {r} : SameKey(r, m)' /\ req'[m].conv # req'[r].conv
    <3>1. CASE answer'[r] # answer[r]
      BY <1>2, <1>3, <3>1
    <3>2. CASE answer'[r] = answer[r] /\ answer[r] # "none"
      <4>1. req'[r] = req[r] /\ answer[r] = answer'[r]
        BY <1>3, <3>2
      <4>2. \A m \in messages : SameKey(r, m) => SameKey(r, m)'
        BY <1>2, <4>1 DEF SameKey
      <4>3. CASE answer[r] = "existing"
        <5>1. PICK m \in messages \ {r} : SameKey(r, m) /\ req[m].conv = req[r].conv
          BY <4>3 DEF ReplyInv, AckedIsStored
        <5>2. m \in messages' \ {r} /\ SameKey(r, m)' /\ req'[m].conv = req'[r].conv
          BY <1>2, <4>1, <4>2, <5>1
        <5>. QED
          BY <4>1, <4>3, <5>2
      <4>4. CASE answer[r] = "reused"
        <5>1. PICK m \in messages \ {r} : SameKey(r, m) /\ req[m].conv # req[r].conv
          BY <4>4 DEF ReplyInv, AckedIsStored
        <5>2. m \in messages' \ {r} /\ SameKey(r, m)' /\ req'[m].conv # req'[r].conv
          BY <1>2, <4>1, <4>2, <5>1
        <5>. QED
          BY <4>1, <4>4, <5>2
      <4>. QED
        BY <1>2, <4>1, <4>3, <4>4 DEF ReplyInv, AckedIsStored
    <3>3. CASE answer'[r] = answer[r] /\ answer[r] = "none"
      BY <3>3
    <3>. QED
      BY <3>1, <3>2, <3>3
  <2>. QED
    BY <2>1, <2>2 DEF ReplyInv, AckedIsStored
<1>4. \A r \in Request : answer[r] # "none" => pc[r] = "done"
  BY DEF ReplyInv, Outstanding
<1>5. CASE \/ \E d \in Device : DeviceLogin(d) \/ DeviceLogout(d)
           \/ UNCHANGED vars
  <2>1. UNCHANGED <<req, pc, messages, answer>>
    BY <1>5 DEF DeviceLogin, DeviceLogout, DeviceRows!Login, DeviceRows!Logout, vars
  <2>2. Outstanding'
    BY <2>1 DEF ReplyInv, Outstanding
  <2>3. AckedIsStored'
    BY <2>1 DEF ReplyInv, AckedIsStored, SameKey
  <2>. QED
    BY <2>2, <2>3 DEF ReplyInv
<1>6. ASSUME NEW r \in Request, NEW a \in Args, Admit(r, a)
      PROVE  ReplyInv'
  BY <1>3, <1>4, <1>6 DEF Admit, Goto
<1>7. ASSUME NEW r \in Request, CheckParticipant(r) \/ InsertMessage(r)
                                \/ BuildRecipientRows(r) \/ Fail(r)
      PROVE  ReplyInv'
  BY <1>3, <1>4, <1>7
  DEF CheckParticipant, InsertMessage, BuildRecipientRows, Fail, InFlight, Goto, Finish
<1>8. ASSUME NEW r \in Request, Commit(r)
      PROVE  ReplyInv'
  BY <1>3, <1>4, <1>8 DEF Commit, Goto, Finish
<1>9. ASSUME NEW r \in Request, LoadExisting(r)
      PROVE  ReplyInv'
  <2>1. PICK m \in messages :
          /\ SameKey(r, m)
          /\ Finish(r, IF req[m].conv = req[r].conv THEN "existing" ELSE "reused")
    BY <1>9 DEF LoadExisting
  <2>2. pc[r] = "lookup" /\ req' = req /\ messages' = messages /\ m # r
    BY <1>2, <1>9 DEF LoadExisting
  <2>3. SameKey(r, m)'
    BY <2>1, <2>2 DEF SameKey
  <2>. QED
    BY <1>3, <1>4, <2>1, <2>2, <2>3 DEF Goto, Finish
<1>10. CASE Crash
  <2>1. \A r \in Request : answer'[r] # answer[r] => answer'[r] = "lost" /\ pc'[r] = "done"
    BY <1>10 DEF Crash, InFlight
  <2>2. \A r \in Request : answer[r] # "none" =>
          answer'[r] = answer[r] /\ req'[r] = req[r] /\ pc'[r] = "done"
    BY <1>4, <1>10 DEF Crash, InFlight
  <2>. QED
    BY <1>3, <1>10, <2>1, <2>2 DEF Crash
<1>. QED
  BY <1>5, <1>6, <1>7, <1>8, <1>9, <1>10 DEF Next, Serve

LEMMA ReplyInvariant == Spec => []ReplyInv
<1>1. Init => ReplyInv
  BY DEF Init, ReplyInv, Outstanding, AckedIsStored
<1>. QED
  BY <1>1, ReplyStep, TypeCorrect, KeyInvariant, PTL DEF Spec

\* A client that read 201, 200 or 409 can rely on it for ever.
THEOREM AckedStaysStored == Spec => []AckedIsStored
BY ReplyInvariant, PTL DEF ReplyInv

\* Every step keeps LookupFinds: the row that sent a request to its lookup is
\* committed, and stays.
LEMMA LookupStep ==
  ASSUME TypeOK, KeyInv, LookupFinds, [Next]_vars
  PROVE  LookupFinds'
<1>. USE DEF TypeOK
<1>1. SUFFICES ASSUME NEW r \in Request, pc'[r] = "lookup",
                      ~ \E m \in messages' : SameKey(r, m)'
               PROVE  FALSE
  BY DEF LookupFinds
<1>2. \A m \in messages : m \in messages' /\ req'[m] = req[m]
  BY StoredStep
<1>3. ASSUME req'[r] = req[r] PROVE pc[r] # "lookup" /\ ~ \E m \in messages : SameKey(r, m)
  BY <1>1, <1>2, <1>3 DEF LookupFinds, SameKey
<1>4. CASE \/ \E d \in Device : DeviceLogin(d) \/ DeviceLogout(d)
           \/ UNCHANGED vars
  BY <1>1, <1>3, <1>4 DEF DeviceLogin, DeviceLogout, vars
<1>5. ASSUME NEW q \in Request, NEW a \in Args, Admit(q, a) PROVE FALSE
  <2>1. pc'[q] = "check" /\ (q # r => pc'[r] = pc[r] /\ req'[r] = req[r])
    BY <1>5 DEF Admit, Goto
  <2>. QED
    BY <1>1, <1>3, <2>1
<1>6. ASSUME NEW q \in Request, InsertMessage(q) PROVE FALSE
  <2>1. req'[r] = req[r] /\ (q # r => pc'[r] = pc[r])
    BY <1>6 DEF InsertMessage, Goto
  <2>2. q = r => \E m \in messages : SameKey(r, m)
    BY <1>1, <1>6 DEF InsertMessage, Goto
  <2>. QED
    BY <1>1, <1>3, <2>1, <2>2
<1>7. ASSUME NEW q \in Request,
             CheckParticipant(q) \/ BuildRecipientRows(q) \/ Commit(q) \/ LoadExisting(q) \/ Fail(q)
      PROVE  FALSE
  <2>1. req'[r] = req[r] /\ (pc'[r] = "lookup" => pc[r] = "lookup")
    BY <1>7 DEF CheckParticipant, BuildRecipientRows, Commit, LoadExisting, Fail, Goto, Finish
  <2>. QED
    BY <1>1, <1>3, <2>1
<1>8. CASE Crash
  <2>1. req'[r] = req[r] /\ (pc'[r] = "lookup" => pc[r] = "lookup")
    BY <1>8 DEF Crash, InFlight
  <2>. QED
    BY <1>1, <1>3, <2>1
<1>. QED
  BY <1>4, <1>5, <1>6, <1>7, <1>8 DEF Next, Serve

\* A retry always finds the message that it met.
THEOREM LookupNeverMisses == Spec => []LookupFinds
<1>1. Init => LookupFinds
  BY DEF Init, LookupFinds
<1>. QED
  BY <1>1, LookupStep, TypeCorrect, KeyInvariant, PTL DEF Spec

-----------------------------------------------------------------------------
\* What the open transaction will insert is what the committed rows must be:
\* fan-out rows are computed once, and devices never come back to life.
DevicesAge   == \A r \in Request, d \in Device :
                  /\ atStart[r][d] = "revoked" => device[d] = "revoked"
                  /\ atStart[r][d] = "active" => device[d] # "absent"
RowsSound    == \A r \in Request : \A d \in rows[r] :
                  d \in OtherDevices(r) /\ atStart[r][d] # "revoked"
RowsComplete == \A r \in Request : pc[r] = "commit" =>
                  \A d \in OtherDevices(r) :
                    atStart[r][d] = "active" /\ device[d] = "active" => d \in rows[r]
RowsOpen     == \A r \in Request : pc[r] # "commit" => rows[r] = {}
FanOutInv ==
  DevicesAge /\ RowsSound /\ RowsComplete /\ RowsOpen /\ FanOutSound /\ FanOutComplete

\* Steps that leave the rows and the recipients of every request as they are.
LEMMA FanOutFrame ==
  ASSUME TypeOK, TypeOK', KeyInv, FanOutInv,
         UNCHANGED <<messages, recipients>>,
         \A m \in messages : req'[m] = req[m] /\ atStart'[m] = atStart[m],
         \A r \in Request :
           \/ rows'[r] = {} /\ pc'[r] # "commit"
           \/ rows'[r] = rows[r] /\ pc'[r] = pc[r] /\ req'[r] = req[r]
              /\ atStart'[r] = atStart[r],
         \A d \in Device : device'[d] = "active" => device[d] # "revoked",
         \A d \in Device, r \in Request :
           device'[d] = "active" /\ atStart[r][d] = "active" => device[d] = "active",
         DevicesAge'
  PROVE  FanOutInv'
<1>. USE DEF TypeOK
<1>1. \A r \in Request : req'[r] = req[r] => OtherDevices(r)' = OtherDevices(r)
  BY DEF OtherDevices
<1>0. \A r \in Request : OtherDevices(r) \subseteq Device
  BY DEF OtherDevices
<1>2. RowsSound'
  <2>1. ASSUME NEW r \in Request, NEW d \in rows'[r]
        PROVE  d \in OtherDevices(r)' /\ atStart'[r][d] # "revoked"
    <3>1. rows'[r] = rows[r] /\ req'[r] = req[r] /\ atStart'[r] = atStart[r]
      BY <2>1
    <3>2. d \in OtherDevices(r) /\ atStart[r][d] # "revoked"
      BY <2>1, <3>1 DEF FanOutInv, RowsSound
    <3>. QED
      BY <1>1, <3>1, <3>2
  <2>. QED
    BY <2>1 DEF RowsSound
<1>3. RowsComplete'
  <2>1. ASSUME NEW r \in Request, pc'[r] = "commit", NEW d \in OtherDevices(r)',
               atStart'[r][d] = "active", device'[d] = "active"
        PROVE  d \in rows'[r]
    <3>1. /\ rows'[r] = rows[r] /\ req'[r] = req[r]
          /\ atStart'[r] = atStart[r] /\ pc[r] = "commit"
      BY <2>1
    <3>2. d \in OtherDevices(r) /\ d \in Device /\ device[d] = "active"
      BY <1>1, <1>0, <2>1, <3>1
    <3>. QED
      BY <2>1, <3>1, <3>2 DEF FanOutInv, RowsComplete
  <2>. QED
    BY <2>1 DEF RowsComplete
<1>4. RowsOpen'
  BY DEF FanOutInv, RowsOpen
<1>5. FanOutSound'
  BY DEF FanOutInv, FanOutSound
<1>6. FanOutComplete'
  <2>1. ASSUME NEW m \in messages, NEW d \in OtherDevices(m)',
               atStart'[m][d] = "active", device'[d] = "active"
        PROVE  d \in recipients[m]
    <3>1. d \in OtherDevices(m) /\ d \in Device /\ device[d] = "active"
      BY <1>1, <1>0, <2>1
    <3>. QED
      BY <2>1, <3>1 DEF FanOutInv, FanOutComplete
  <2>. QED
    BY <2>1 DEF FanOutComplete
<1>. QED
  BY <1>2, <1>3, <1>4, <1>5, <1>6 DEF FanOutInv

LEMMA FanOutStep ==
  TypeOK /\ TypeOK' /\ KeyInv /\ FanOutInv /\ [Next]_vars => FanOutInv'
<1>1. SUFFICES ASSUME TypeOK, TypeOK', KeyInv, FanOutInv, [Next]_vars
               PROVE  FanOutInv'
  OBVIOUS
<1>. USE <1>1 DEF TypeOK
<1>2. \A m \in messages : pc[m] = "done" /\ m \in Request
  BY DEF KeyInv, StoredDone
<1>3. CASE \E d \in Device : DeviceLogin(d)
  <2>1. PICK d \in Device : DeviceLogin(d)
    BY <1>3
  <2>2. device' = [device EXCEPT ![d] = "active"] /\ device[d] = "absent"
        /\ UNCHANGED <<req, pc, rows, messages, recipients, answer, atStart>>
    BY <2>1 DEF DeviceLogin, DeviceRows!Login
  <2>3. DevicesAge'
    BY <2>2 DEF FanOutInv, DevicesAge
  <2>4. \A e \in Device, r \in Request :
          device'[e] = "active" /\ atStart[r][e] = "active" => device[e] = "active"
    BY <2>2 DEF FanOutInv, DevicesAge
  <2>5. \A e \in Device : device'[e] = "active" => device[e] # "revoked"
    BY <2>2
  <2>. QED
    BY <2>2, <2>3, <2>4, <2>5, FanOutFrame
<1>4. CASE \E d \in Device : DeviceLogout(d)
  <2>1. PICK d \in Device : DeviceLogout(d)
    BY <1>4
  <2>2. device' = [device EXCEPT ![d] = "revoked"] /\ device[d] = "active"
        /\ UNCHANGED <<req, pc, rows, messages, recipients, answer, atStart>>
    BY <2>1 DEF DeviceLogout, DeviceRows!Logout
  <2>3. DevicesAge'
    BY <2>2 DEF FanOutInv, DevicesAge
  <2>. QED
    BY <2>2, <2>3, FanOutFrame
<1>5. ASSUME NEW r \in Request, NEW a \in Args, Admit(r, a)
      PROVE  FanOutInv'
  <2>1. DevicesAge'
    BY <1>5 DEF Admit, FanOutInv, DevicesAge
  <2>2. \A s \in Request :
           \/ rows'[s] = {} /\ pc'[s] # "commit"
           \/ rows'[s] = rows[s] /\ pc'[s] = pc[s] /\ req'[s] = req[s]
              /\ atStart'[s] = atStart[s]
    BY <1>5 DEF Admit, Goto, FanOutInv, RowsOpen
  <2>. QED
    BY <1>2, <1>5, <2>1, <2>2, FanOutFrame DEF Admit
<1>6. ASSUME NEW r \in Request,
             CheckParticipant(r) \/ InsertMessage(r) \/ LoadExisting(r) \/ Fail(r)
      PROVE  FanOutInv'
  <2>1. UNCHANGED <<device, req, messages, recipients, atStart>>
    BY <1>6 DEF CheckParticipant, InsertMessage, LoadExisting, Fail
  <2>2. \A s \in Request :
           \/ rows'[s] = {} /\ pc'[s] # "commit"
           \/ rows'[s] = rows[s] /\ pc'[s] = pc[s]
    BY <1>6 DEF CheckParticipant, InsertMessage, LoadExisting, Fail, Goto, Finish,
                FanOutInv, RowsOpen
  <2>3. DevicesAge'
    BY <2>1 DEF FanOutInv, DevicesAge
  <2>. QED
    BY <2>1, <2>2, <2>3, FanOutFrame
<1>7. ASSUME NEW r \in Request, BuildRecipientRows(r)
      PROVE  FanOutInv'
  <2>1. /\ UNCHANGED <<device, req, messages, recipients, atStart>>
        /\ rows' = [rows EXCEPT ![r] = {d \in OtherDevices(r) : device[d] = "active"}]
        /\ pc' = [pc EXCEPT ![r] = "commit"]
    BY <1>7 DEF BuildRecipientRows, Goto
  <2>2. \A s \in Request : OtherDevices(s)' = OtherDevices(s)
    BY <2>1 DEF OtherDevices
  <2>3. DevicesAge' /\ FanOutSound' /\ FanOutComplete'
    BY <2>1, <2>2 DEF FanOutInv, DevicesAge, FanOutSound, FanOutComplete
  <2>4. \A d \in OtherDevices(r) : d \in Device
    BY DEF OtherDevices
  <2>5. RowsSound'
    BY <2>1, <2>2, <2>4 DEF FanOutInv, RowsSound, DevicesAge
  <2>6. RowsComplete'
    BY <2>1, <2>2 DEF FanOutInv, RowsComplete
  <2>7. RowsOpen'
    BY <2>1 DEF FanOutInv, RowsOpen
  <2>. QED
    BY <2>3, <2>5, <2>6, <2>7 DEF FanOutInv
<1>8. ASSUME NEW r \in Request, Commit(r)
      PROVE  FanOutInv'
  <2>1. /\ UNCHANGED <<device, req, atStart>>
        /\ pc[r] = "commit"
        /\ messages' = messages \cup {r}
        /\ recipients' = [recipients EXCEPT ![r] = rows[r]]
        /\ rows' = [rows EXCEPT ![r] = {}]
        /\ pc' = [pc EXCEPT ![r] = "done"]
    BY <1>8 DEF Commit, Goto, Finish
  <2>2. \A s \in Request : OtherDevices(s)' = OtherDevices(s)
    BY <2>1 DEF OtherDevices
  <2>3. DevicesAge' /\ RowsSound' /\ RowsComplete' /\ RowsOpen'
    BY <2>1, <2>2
    DEF FanOutInv, DevicesAge, RowsSound, RowsComplete, RowsOpen
  <2>4. FanOutSound'
    BY <2>1 DEF FanOutInv, FanOutSound, RowsSound, OtherDevices
  <2>5. FanOutComplete'
    BY <2>1, <2>2 DEF FanOutInv, FanOutComplete, RowsComplete
  <2>. QED
    BY <2>3, <2>4, <2>5 DEF FanOutInv
<1>9. CASE Crash
  <2>1. UNCHANGED <<device, req, messages, recipients, atStart>>
    BY <1>9 DEF Crash
  <2>2. \A s \in Request : rows'[s] = {} /\ pc'[s] # "commit"
    BY <1>9 DEF Crash, InFlight
  <2>3. DevicesAge'
    BY <2>1 DEF FanOutInv, DevicesAge
  <2>. QED
    BY <2>1, <2>2, <2>3, FanOutFrame
<1>10. CASE UNCHANGED vars
  <2>1. DevicesAge'
    BY <1>10 DEF vars, FanOutInv, DevicesAge
  <2>. QED
    BY <1>10, <2>1, FanOutFrame DEF vars
<1>. QED
  BY <1>3, <1>4, <1>5, <1>6, <1>7, <1>8, <1>9, <1>10 DEF Next, Serve

LEMMA FanOutInvariant == Spec => []FanOutInv
<1>1. Init => FanOutInv
  BY DEF Init, DeviceRows!Init, FanOutInv, DevicesAge, RowsSound, RowsComplete, RowsOpen,
         FanOutSound, FanOutComplete
<1>. QED
  BY <1>1, FanOutStep, TypeCorrect, KeyInvariant, PTL DEF Spec

\* A stored message has a row for every other participant's device that was
\* logged in from the send's admission on, and for no device it must not reach.
THEOREM FanOutExact == Spec => []FanOut
BY FanOutInvariant, PTL DEF FanOutInv, FanOut

-----------------------------------------------------------------------------
(* Refinement of MessageLog.  A key names at most one stored row, so RowFor *)
(* finds it and the log grows by exactly the row a Commit stores.           *)

LEMMA KeyOfSame ==
  ASSUME NEW r, NEW s PROVE SameKey(r, s) <=> KeyOf(r) = KeyOf(s)
BY DEF SameKey, KeyOf

LEMMA RowForIt ==
  ASSUME KeyInv, NEW m \in messages PROVE RowFor(KeyOf(m)) = m
<1>1. \E n \in messages : KeyOf(n) = KeyOf(m)
  OBVIOUS
<1>2. RowFor(KeyOf(m)) \in messages /\ KeyOf(RowFor(KeyOf(m))) = KeyOf(m)
  BY <1>1 DEF RowFor
<1>3. SameKey(RowFor(KeyOf(m)), m)
  BY <1>2, KeyOfSame
<1>. QED
  BY <1>2, <1>3 DEF KeyInv, NoDuplicateMessage

LEMMA LogBarAt ==
  ASSUME KeyInv, NEW m \in messages, KeyOf(m) \in Key
  PROVE  LogBar[KeyOf(m)] = [conv |-> req[m].conv, inbox |-> recipients[m]]
<1>1. Named(KeyOf(m))
  BY DEF Named
<1>. QED
  BY <1>1, RowForIt DEF LogBar

LEMMA LogBarNone ==
  ASSUME NEW k \in Key, \A m \in messages : KeyOf(m) # k
  PROVE  LogBar[k] = None
BY DEF LogBar, Named

\* Steps that store nothing leave the log as it is.
LEMMA LogBarFrame ==
  ASSUME TypeOK, KeyInv, KeyInv', [Next]_vars, messages' = messages
  PROVE  LogBar' = LogBar
<1>1. \A m \in messages : /\ KeyOf(m)' = KeyOf(m)
                          /\ req'[m] = req[m]
                          /\ recipients'[m] = recipients[m]
  BY StoredStep DEF KeyOf
<1>2. ASSUME NEW k \in Key PROVE LogBar'[k] = LogBar[k]
  <2>1. CASE \E m \in messages : KeyOf(m) = k
    <3>1. PICK m \in messages : KeyOf(m) = k
      BY <2>1
    <3>2. RowFor(k) = m
      BY <3>1, RowForIt
    <3>3. RowFor(k)' = m
      <4>1. RowFor(k)' \in messages /\ KeyOf(RowFor(k))' = k
        BY <1>1, <3>1 DEF RowFor
      <4>2. SameKey(RowFor(k), m)'
        BY <1>1, <3>1, <4>1 DEF SameKey, KeyOf
      <4>. QED
        BY <4>1, <4>2 DEF KeyInv, NoDuplicateMessage
    <3>4. Named(k) /\ Named(k)'
      BY <1>1, <3>1 DEF Named
    <3>. QED
      BY <1>1, <3>2, <3>3, <3>4 DEF LogBar
  <2>2. CASE \A m \in messages : KeyOf(m) # k
    <3>1. ~Named(k) /\ ~Named(k)'
      BY <1>1, <2>2 DEF Named
    <3>. QED
      BY <3>1 DEF LogBar
  <2>. QED
    BY <2>1, <2>2
<1>. QED
  BY <1>2 DEF LogBar

\* A reply stays, and the requests given none add none.
LEMMA RepliesBarFrame ==
  ASSUME \A r \in Request : Replied(r)' <=> Replied(r),
         \A r \in Request : Replied(r) => req'[r] = req[r] /\ answer'[r] = answer[r]
  PROVE  RepliesBar' = RepliesBar
<1>1. \A r \in Request : Replied(r) => KeyOf(r)' = KeyOf(r)
  BY DEF KeyOf
<1>. QED
  BY <1>1 DEF RepliesBar

LEMMA RepliesBarGrows ==
  ASSUME NEW q \in Request, ~Replied(q), Replied(q)', req' = req,
         \A r \in Request \ {q} : answer'[r] = answer[r]
  PROVE  RepliesBar' = RepliesBar \cup
           {[key |-> KeyOf(q), conv |-> req[q].conv, code |-> answer'[q]]}
<1>1. \A r \in Request : KeyOf(r)' = KeyOf(r)
  BY DEF KeyOf
<1>2. \A r \in Request \ {q} : Replied(r)' <=> Replied(r)
  BY DEF Replied
<1>. QED
  BY <1>1, <1>2 DEF RepliesBar

\* A commit posts one entry; it is announced unless the handler saw an error.
LEMMA CommitPosts ==
  ASSUME TypeOK, KeyInv, KeyInv', ReplyInv, [Next]_vars,
         NEW r \in Request, Commit(r)
  PROVE  Log!Next
<1>. USE DEF TypeOK
<1>. DEFINE k == KeyOf(r)
            v == req[r].conv
<1>1. /\ pc[r] = "commit"
      /\ messages' = messages \cup {r}
      /\ recipients' = [recipients EXCEPT ![r] = rows[r]]
      /\ req' = req
      /\ rows[r] \in SUBSET Device
      /\ \/ answer' = [answer EXCEPT ![r] = "created"]
         \/ answer' = [answer EXCEPT ![r] = "error"]
  BY DEF Commit, Goto, Finish
<1>2. req[r] \in Args /\ k \in Key /\ v \in Conversation
  BY <1>1 DEF KeyInv, Admitted, Args, KeyOf, Key
<1>3. \A m \in messages : KeyOf(m) # k
  BY <1>1, KeyOfSame DEF KeyInv, KeyHeld, InTransaction
<1>4. LogBar[k] = None
  BY <1>2, <1>3, LogBarNone
<1>5. LogBar' = [LogBar EXCEPT ![k] = [conv |-> v, inbox |-> rows[r]]]
  <2>1. /\ LogBar = [j \in Key |-> LogBar[j]]
        /\ LogBar' = [j \in Key |-> LogBar'[j]]
    BY DEF LogBar
  <2>2. \A m \in messages' : /\ KeyOf(m)' = KeyOf(m)
                             /\ Named(KeyOf(m))'
                             /\ RowFor(KeyOf(m))' = m
    <3>1. ASSUME NEW m \in messages'
          PROVE  KeyOf(m)' = KeyOf(m) /\ Named(KeyOf(m))' /\ RowFor(KeyOf(m))' = m
      <4>1. \A n : KeyOf(n)' = KeyOf(n)
        BY <1>1 DEF KeyOf
      <4>2. RowFor(KeyOf(m))' \in messages' /\ KeyOf(RowFor(KeyOf(m)))' = KeyOf(m)
        BY <4>1 DEF RowFor
      <4>3. SameKey(RowFor(KeyOf(m)), m)'
        BY <4>1, <4>2 DEF SameKey, KeyOf
      <4>. QED
        BY <4>1, <4>2, <4>3 DEF KeyInv, NoDuplicateMessage, Named
    <3>. QED
      BY <3>1
  <2>3. LogBar'[k] = [conv |-> v, inbox |-> rows[r]]
    BY <1>1, <1>2, <2>2 DEF LogBar
  <2>4. ASSUME NEW j \in Key, j # k PROVE LogBar'[j] = LogBar[j]
    <3>1. CASE \E m \in messages : KeyOf(m) = j
      <4>1. PICK m \in messages : KeyOf(m) = j
        BY <3>1
      <4>2. m # r /\ recipients'[m] = recipients[m] /\ req'[m] = req[m]
        BY <1>1, <2>4, <4>1
      <4>3. LogBar[j] = [conv |-> req[m].conv, inbox |-> recipients[m]]
        BY <4>1, LogBarAt
      <4>4. Named(j)' /\ RowFor(j)' = m
        BY <1>1, <2>2, <4>1
      <4>5. LogBar'[j] = [conv |-> req'[m].conv, inbox |-> recipients'[m]]
        BY <4>4 DEF LogBar
      <4>. QED
        BY <4>2, <4>3, <4>5
    <3>2. CASE \A m \in messages : KeyOf(m) # j
      <4>1. ~Named(j)'
        BY <1>1, <2>2, <2>4, <3>2 DEF Named
      <4>2. LogBar'[j] = None
        BY <4>1 DEF LogBar
      <4>. QED
        BY <3>2, <4>2, LogBarNone
    <3>. QED
      BY <3>1, <3>2
  <2>. QED
    BY <1>2, <2>1, <2>3, <2>4
<1>6. ~Replied(r)
  BY <1>1 DEF Replied, ReplyInv, Outstanding
<1>7. \/ RepliesBar' = RepliesBar \cup {[key |-> k, conv |-> v, code |-> "created"]}
      \/ UNCHANGED RepliesBar
  <2>1. CASE answer' = [answer EXCEPT ![r] = "created"]
    <3>1. Replied(r)' /\ answer'[r] = "created"
      BY <2>1 DEF Replied
    <3>. QED
      BY <1>1, <1>6, <2>1, <3>1, RepliesBarGrows
  <2>2. CASE answer' = [answer EXCEPT ![r] = "error"]
    <3>1. \A s \in Request : Replied(s)' <=> Replied(s)
      BY <1>6, <2>2 DEF Replied
    <3>. QED
      BY <1>1, <1>6, <2>2, <3>1, RepliesBarFrame
  <2>. QED
    BY <1>1, <2>1, <2>2
<1>8. Log!Post(k, v, rows[r])
  BY <1>4, <1>5, <1>7 DEF Log!Post
<1>. QED
  BY <1>1, <1>2, <1>8 DEF Log!Next

\* The lookup after a rollback repeats what the key already names.
LEMMA LookupRepeats ==
  ASSUME TypeOK, KeyInv, KeyInv', ReplyInv, [Next]_vars,
         NEW r \in Request, LoadExisting(r)
  PROVE  Log!Next
<1>. USE DEF TypeOK
<1>. DEFINE k == KeyOf(r)
            v == req[r].conv
<1>1. PICK m \in messages :
        /\ SameKey(r, m)
        /\ Finish(r, IF req[m].conv = v THEN "existing" ELSE "reused")
  BY DEF LoadExisting
<1>2. /\ pc[r] = "lookup" /\ req' = req /\ messages' = messages
      /\ answer' = [answer EXCEPT ![r] = IF req[m].conv = v THEN "existing" ELSE "reused"]
  BY <1>1 DEF LoadExisting, Finish
<1>3. k \in Key /\ v \in Conversation /\ KeyOf(m) = k
  BY <1>1, <1>2, KeyOfSame DEF KeyInv, Admitted, Args, KeyOf, Key
<1>4. LogBar[k] = [conv |-> req[m].conv, inbox |-> recipients[m]]
  BY <1>3, LogBarAt
<1>5. req[m] \in Args /\ req[m].conv \in Conversation /\ recipients[m] \in SUBSET Device
  BY DEF KeyInv, Admitted, StoredDone, Args
<1>6. LogBar[k] # None /\ LogBar[k].conv = req[m].conv
  BY <1>4, <1>5, MessagesAssumption
<1>7. LogBar' = LogBar
  BY <1>2, LogBarFrame
<1>8. ~Replied(r) /\ Replied(r)'
  BY <1>2 DEF Replied, ReplyInv, Outstanding
<1>9. RepliesBar' = RepliesBar \cup {[key |-> k, conv |-> v, code |-> answer'[r]]}
  BY <1>2, <1>8, RepliesBarGrows
<1>10. answer'[r] = IF LogBar[k].conv = v THEN "existing" ELSE "reused"
  BY <1>2, <1>6
<1>11. Log!Repeat(k, v)
  BY <1>6, <1>7, <1>9, <1>10 DEF Log!Repeat
<1>. QED
  BY <1>3, <1>11 DEF Log!Next

LEMMA OtherStepsStutter ==
  ASSUME TypeOK, KeyInv, KeyInv', ReplyInv, [Next]_vars, messages' = messages,
         \A r \in Request : answer'[r] # answer[r] =>
           answer[r] = "none" /\ answer'[r] \in {"forbidden", "error", "lost"},
         \A r \in Request : answer[r] # "none" => req'[r] = req[r]
  PROVE  UNCHANGED <<LogBar, RepliesBar>>
<1>1. LogBar' = LogBar
  BY LogBarFrame
<1>2. \A r \in Request : Replied(r)' <=> Replied(r)
  BY DEF Replied
<1>3. \A r \in Request : Replied(r) => req'[r] = req[r] /\ answer'[r] = answer[r]
  BY DEF Replied
<1>4. RepliesBar' = RepliesBar
  BY <1>2, <1>3, RepliesBarFrame
<1>. QED
  BY <1>1, <1>4

\* SendMessage keeps the promise of MessageLog: every run of its overlapping
\* transactions looks to clients like a log in which a key, once posted, names
\* one message for ever.
THEOREM Refinement == Spec => ImplementsMessageLog
<1>1. Init => Log!Init
  <2>1. SUFFICES ASSUME Init PROVE Log!Init
    OBVIOUS
  <2>2. LogBar = [k \in Key |-> None]
    BY <2>1 DEF Init, LogBar, Named
  <2>3. RepliesBar = {}
    BY <2>1 DEF Init, RepliesBar, Replied
  <2>. QED
    BY <2>2, <2>3 DEF Log!Init
<1>2. TypeOK /\ KeyInv /\ KeyInv' /\ ReplyInv /\ [Next]_vars
        => [Log!Next]_<<LogBar, RepliesBar>>
  <2>1. SUFFICES ASSUME TypeOK, KeyInv, KeyInv', ReplyInv, [Next]_vars
                 PROVE  Log!Next \/ UNCHANGED <<LogBar, RepliesBar>>
    OBVIOUS
  <2>. USE <2>1 DEF TypeOK
  <2>2. \A r \in Request : answer[r] # "none" => pc[r] = "done"
    BY DEF ReplyInv, Outstanding
  <2>3. CASE \/ \E d \in Device : DeviceLogin(d) \/ DeviceLogout(d)
             \/ UNCHANGED vars
    <3>1. UNCHANGED <<req, messages, answer>>
      BY <2>3 DEF DeviceLogin, DeviceLogout, DeviceRows!Login, DeviceRows!Logout, vars
    <3>. QED
      BY <3>1, OtherStepsStutter
  <2>4. ASSUME NEW r \in Request, NEW a \in Args, Admit(r, a)
        PROVE  UNCHANGED <<LogBar, RepliesBar>>
    <3>1. /\ UNCHANGED <<messages, answer>>
          /\ \A s \in Request : answer[s] # "none" => req'[s] = req[s]
      BY <2>2, <2>4 DEF Admit
    <3>. QED
      BY <3>1, OtherStepsStutter
  <2>5. ASSUME NEW r \in Request, CheckParticipant(r) \/ InsertMessage(r)
                                  \/ BuildRecipientRows(r) \/ Fail(r)
        PROVE  UNCHANGED <<LogBar, RepliesBar>>
    <3>1. /\ UNCHANGED <<req, messages>>
          /\ \A s \in Request : answer'[s] # answer[s] =>
               answer[s] = "none" /\ answer'[s] \in {"forbidden", "error", "lost"}
      BY <2>2, <2>5 DEF CheckParticipant, InsertMessage, BuildRecipientRows, Fail,
                        InFlight, Goto, Finish
    <3>. QED
      BY <3>1, OtherStepsStutter
  <2>6. ASSUME NEW r \in Request, Commit(r)
        PROVE  Log!Next
    BY <2>6, CommitPosts
  <2>7. ASSUME NEW r \in Request, LoadExisting(r)
        PROVE  Log!Next
    BY <2>7, LookupRepeats
  <2>8. CASE Crash
    <3>1. /\ UNCHANGED <<req, messages>>
          /\ \A s \in Request : answer'[s] # answer[s] =>
               answer[s] = "none" /\ answer'[s] \in {"forbidden", "error", "lost"}
      BY <2>2, <2>8 DEF Crash, InFlight
    <3>. QED
      BY <3>1, OtherStepsStutter
  <2>. QED
    BY <2>3, <2>4, <2>5, <2>6, <2>7, <2>8 DEF Next, Serve
<1>. QED
  BY <1>1, <1>2, TypeCorrect, KeyInvariant, ReplyInvariant, PTL
  DEF Spec, ImplementsMessageLog, Log!Spec
=============================================================================
