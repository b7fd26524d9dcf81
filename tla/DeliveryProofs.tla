---------------------------- MODULE DeliveryProofs ----------------------------
(***************************************************************************)
(* Proofs about Delivery, for every set of devices, requests and lists.    *)
(* Its runs are runs of Messages and, through PlaceBar, of Inbox.  So the  *)
(* fan-out is exact and a walk is complete; StatusInv joins the two at the *)
(* row of message_recipients.                                              *)
(***************************************************************************)
EXTENDS Delivery, MessagesProofs

\* What is proved of Inbox, for a device without the app.
Lists == INSTANCE ChatClientProofs WITH
           Msg <- Request, place <- PlaceBar, pc <- step, answer <- reply,
           Opening <- {}, screen <- None, sync <- <<>>, left <- <<>>, table <- {}, had <- <<>>

\* The sends of Delivery only take steps of Messages, its lists none.
LEMMA SendsOnly ==
  ASSUME [DeliveryNext]_deliveryVars
  PROVE  [Next]_vars
<1>1. ASSUME NEW r \in Request, TakeTime(r) \/ ServeSend(r) \/ CommitSend(r) PROVE [Next]_vars
  BY <1>1 DEF TakeTime, ServeSend, CommitSend, Next, Serve
<1>2. ASSUME NEW l \in Listing, ServeList(l) PROVE UNCHANGED vars
  BY <1>2 DEF ServeList
<1>3. CASE Elsewhere
  BY <1>3 DEF Elsewhere, Next
<1>4. CASE UNCHANGED deliveryVars
  BY <1>4 DEF deliveryVars
<1>. QED
  BY <1>1, <1>2, <1>3, <1>4 DEF DeliveryNext

\* Every run of Delivery is one of Messages.
THEOREM ImplementsMessages == DeliverySpec => Spec
<1>1. DeliveryInit => Init
  BY DEF DeliveryInit
<1>2. [DeliveryNext]_deliveryVars => [Next]_vars
  BY SendsOnly
<1>. QED
  BY <1>1, <1>2, PTL DEF DeliverySpec, Spec

-----------------------------------------------------------------------------
\* Nothing is inserted without its created_at.
TimeInv == timed \subseteq Request /\ \A r \in Request : InTransaction(r) => r \in timed

\* The device has a status for the messages of the conversation that were
\* fanned out to it, and for no others.
StatusInv == \A m \in Request : status[m] # "none" <=> InChat(m) /\ Reader \in recipients[m]

\* Every step keeps TimeInv.
LEMMA TimeStep ==
  ASSUME TypeOK, TimeInv, [DeliveryNext]_deliveryVars
  PROVE  TimeInv'
<1>. USE DEF TypeOK, TimeInv, InTransaction
<1>1. ASSUME NEW r \in Request, TakeTime(r) PROVE TimeInv'
  BY <1>1 DEF TakeTime, vars
<1>2. ASSUME NEW r \in Request, ServeSend(r) PROVE TimeInv'
  BY <1>2 DEF ServeSend, Admit, CheckParticipant, InsertMessage, BuildRecipientRows,
              LoadExisting, Fail, Finish, Goto
<1>3. ASSUME NEW r \in Request, CommitSend(r) PROVE TimeInv'
  BY <1>3 DEF CommitSend, Commit, Finish, Goto
<1>4. ASSUME NEW l \in Listing, ServeList(l) PROVE TimeInv'
  BY <1>4 DEF ServeList, vars
<1>5. CASE Elsewhere
  BY <1>5 DEF Elsewhere, Crash, DeviceLogin, DeviceLogout, DeviceRows!Login, DeviceRows!Logout, InFlight
<1>6. CASE UNCHANGED deliveryVars
  BY <1>6 DEF deliveryVars, vars
<1>. QED
  BY <1>1, <1>2, <1>3, <1>4, <1>5, <1>6 DEF DeliveryNext

\* A step that stores nothing and takes no time leaves the rows as they are.
LEMMA PlaceFrame ==
  ASSUME TypeOK, KeyInv, [Next]_vars, UNCHANGED <<messages, timed>>
  PROVE  /\ UNCHANGED PlaceBar
         /\ \A m \in Request : InChat(m)' = InChat(m)
<1>1. \A m \in messages : req'[m] = req[m]
  BY StoredStep
<1>2. \A m \in Request : InChat(m)' = InChat(m)
  BY <1>1 DEF InChat
<1>. QED
  BY <1>2 DEF PlaceBar

\* A commit puts the message into the conversation it was sent to.
LEMMA CommitPlaces ==
  ASSUME TypeOK, KeyInv, TimeInv, NEW r \in Request, CommitSend(r)
  PROVE  /\ PlaceBar[r] = "open" /\ ~InChat(r)
         /\ req[r].conv = Chat => PlaceBar' = [PlaceBar EXCEPT ![r] = "stored"]
         /\ req[r].conv # Chat => PlaceBar' = PlaceBar
         /\ \A m \in Request : InChat(m)' <=> InChat(m) \/ (m = r /\ req[r].conv = Chat)
         /\ \A m \in Request \ {r} : recipients'[m] = recipients[m]
         /\ recipients'[r] = rows[r]
<1>. USE DEF TypeOK
<1>1. /\ pc[r] = "commit" /\ messages' = messages \cup {r} /\ req' = req
      /\ recipients' = [recipients EXCEPT ![r] = rows[r]] /\ timed' = timed
  BY DEF CommitSend, Commit
<1>2. r \notin messages /\ r \in timed
  BY <1>1 DEF KeyInv, StoredDone, TimeInv, InTransaction
<1>3. \A m \in Request : InChat(m)' <=> InChat(m) \/ (m = r /\ req[r].conv = Chat)
  BY <1>1 DEF InChat
<1>. QED
  BY <1>1, <1>2, <1>3 DEF InChat, PlaceBar

\* The two instances count alike.
LEMMA SameCount == \A S : In!Cardinality(S) = Lists!Cardinality(S)
BY Zenon DEF In!Cardinality, Lists!Cardinality

\* A step of Delivery is one of Inbox or none.
LEMMA ListsStep ==
  ASSUME TypeOK, KeyInv, TimeInv, StatusInv, Lists!TypeOK, [DeliveryNext]_deliveryVars
  PROVE  [Lists!Next]_Lists!vars
<1>. USE DEF Lists!vars, Lists!sends, Lists!lists, listing
<1>1. ASSUME NEW r \in Request, TakeTime(r) PROVE Lists!Next
  <2>1. Lists!InsertMessage(r)
    BY <1>1 DEF TakeTime, In!InsertMessage, Lists!InsertMessage, In!lists
  <2>. QED
    BY <2>1 DEF Lists!Next
<1>2. ASSUME NEW r \in Request, ServeSend(r) PROVE UNCHANGED Lists!vars
  <2>1. UNCHANGED <<messages, timed, created, status, listing>>
    BY <1>2 DEF ServeSend, Admit, CheckParticipant, InsertMessage, BuildRecipientRows,
                LoadExisting, Fail
  <2>. QED
    BY <1>2, <2>1, PlaceFrame, SendsOnly
<1>3. ASSUME NEW r \in Request, CommitSend(r) PROVE Lists!Next \/ UNCHANGED Lists!vars
  <2>1. /\ status' = [status EXCEPT ![r] =
                        IF req[r].conv = Chat /\ Reader \in rows[r] THEN "sent" ELSE "none"]
        /\ UNCHANGED <<created, listing>>
    BY <1>3 DEF CommitSend
  <2>2. CASE req[r].conv = Chat
    <3>1. Lists!CommitMessage(r)
      BY <1>3, <2>1, <2>2, CommitPlaces DEF Lists!CommitMessage
    <3>. QED
      BY <3>1 DEF Lists!Next
  <2>3. CASE req[r].conv # Chat
    <3>1. status[r] = "none" /\ status \in [Request -> {"none", "sent", "delivered"}]
      BY <1>3, CommitPlaces DEF StatusInv, Lists!TypeOK
    <3>. QED
      BY <1>3, <2>1, <2>3, <3>1, CommitPlaces
  <2>. QED
    BY <2>2, <2>3
<1>4. ASSUME NEW l \in Listing, ServeList(l) PROVE Lists!Next
  <2>1. CASE In!Refuse(l)
    BY <2>1 DEF In!Refuse, In!Finish, In!Goto, In!sends,
                Lists!Next, Lists!Refuse, Lists!Finish, Lists!Goto
  <2>2. ASSUME NEW c \in Request \cup {None}, In!Query(l, c) PROVE Lists!Next
    <3>1. Lists!Query(l, c)
      BY <2>2, SameCount DEF In!Query, In!Goto, In!sends, In!Pages, In!Matching, In!Stored,
                  Lists!Query, Lists!Goto, Lists!Pages, Lists!Matching, Lists!Stored
    <3>. QED
      BY <3>1 DEF Lists!Next
  <2>3. CASE In!MarkDelivered(l)
    BY <2>3 DEF In!MarkDelivered, In!Goto, In!sends, Lists!Next, Lists!MarkDelivered, Lists!Goto
  <2>4. CASE In!Reply(l)
    BY <2>4 DEF In!Reply, In!Finish, In!Goto, In!sends,
                Lists!Next, Lists!Reply, Lists!Finish, Lists!Goto
  <2>5. CASE In!Lose(l)
    BY <2>5 DEF In!Lose, In!Finish, In!Goto, In!sends,
                Lists!Next, Lists!Lose, Lists!Finish, Lists!Goto
  <2>. QED
    BY <1>4, <2>1, <2>2, <2>3, <2>4, <2>5 DEF ServeList
<1>5. CASE Elsewhere \/ UNCHANGED deliveryVars
  <2>1. UNCHANGED <<messages, timed, created, status, listing>>
    BY <1>5 DEF Elsewhere, Crash, DeviceLogin, DeviceLogout, DeviceRows!Login, DeviceRows!Logout, deliveryVars, vars
  <2>. QED
    BY <2>1, PlaceFrame, SendsOnly
<1>. QED
  BY <1>1, <1>2, <1>3, <1>4, <1>5 DEF DeliveryNext

\* Every step keeps StatusInv: only a commit gives a row, and a mark only
\* changes one.
LEMMA StatusStep ==
  ASSUME TypeOK, KeyInv, TimeInv, StatusInv, Lists!TypeOK, Lists!PageInv,
         [DeliveryNext]_deliveryVars
  PROVE  StatusInv'
<1>. USE DEF StatusInv
<1>1. ASSUME UNCHANGED <<messages, status, timed>> PROVE StatusInv'
  <2>1. \A m \in messages : recipients'[m] = recipients[m]
    BY SendsOnly, StoredStep
  <2>2. \A m \in Request : InChat(m)' = InChat(m)
    BY <1>1, PlaceFrame, SendsOnly
  <2>. QED
    BY <1>1, <2>1, <2>2 DEF InChat
<1>2. ASSUME NEW r \in Request, TakeTime(r) PROVE StatusInv'
  BY <1>2 DEF TakeTime, In!InsertMessage, vars, InChat
<1>3. ASSUME NEW r \in Request, ServeSend(r) PROVE StatusInv'
  BY <1>1, <1>3 DEF ServeSend, Admit, CheckParticipant, InsertMessage, BuildRecipientRows,
                    LoadExisting, Fail
<1>4. ASSUME NEW r \in Request, CommitSend(r) PROVE StatusInv'
  <2>1. \A m \in Request :
          status'[m] = IF m = r THEN IF req[r].conv = Chat /\ Reader \in rows[r] THEN "sent" ELSE "none"
                                ELSE status[m]
    BY <1>4 DEF CommitSend, Lists!TypeOK
  <2>. QED
    BY <1>4, <2>1, CommitPlaces
<1>5. ASSUME NEW l \in Listing, ServeList(l) PROVE StatusInv'
  <2>1. UNCHANGED vars
    BY <1>5 DEF ServeList
  <2>2. \A m \in Request : status'[m] # "none" <=> status[m] # "none"
    <3>1. CASE In!MarkDelivered(l)
      <4>1. \A m \in page[l] : status[m] # "none"
        BY DEF Lists!PageInv
      <4>. QED
        BY <3>1, <4>1 DEF In!MarkDelivered
    <3>2. CASE UNCHANGED status
      BY <3>2
    <3>. QED
      BY <1>5, <3>1, <3>2 DEF ServeList, In!Refuse, In!Query, In!Reply, In!Lose
  <2>. QED
    BY <2>1, <2>2 DEF vars, InChat
<1>6. CASE Elsewhere \/ UNCHANGED deliveryVars
  BY <1>1, <1>6 DEF Elsewhere, Crash, DeviceLogin, DeviceLogout, DeviceRows!Login, DeviceRows!Logout, deliveryVars, vars
<1>. QED
  BY <1>2, <1>3, <1>4, <1>5, <1>6 DEF DeliveryNext

ReadInv == TimeInv /\ StatusInv /\ Lists!TypeOK /\ Lists!PageInv

\* ReadInv of every reachable state.
LEMMA ReadInvariant == DeliverySpec => []ReadInv
<1>1. DeliveryInit => Lists!Init
  BY DEF DeliveryInit, Init, Lists!Init, PlaceBar, InChat
<1>2. Lists!Init => Lists!TypeOK /\ Lists!PageInv
  BY DEF Lists!Init, Lists!TypeOK, Lists!PageInv, Lists!Asked
<1>3. DeliveryInit => TimeInv /\ StatusInv
  BY DEF DeliveryInit, Init, TimeInv, StatusInv, InTransaction, InChat
<1>4. TypeOK /\ KeyInv /\ ReadInv /\ [DeliveryNext]_deliveryVars => ReadInv'
  <2>. SUFFICES ASSUME TypeOK, KeyInv, ReadInv, [DeliveryNext]_deliveryVars PROVE ReadInv'
    OBVIOUS
  <2>. USE DEF ReadInv
  <2>1. [Lists!Next]_Lists!vars
    BY ListsStep
  <2>2. Lists!TypeOK' /\ Lists!PageInv'
    BY <2>1, DeliveryAssumption, Lists!TypeStep, Lists!PageStep
  <2>. QED
    BY <2>2, TimeStep, StatusStep
<1>. QED
  BY <1>1, <1>2, <1>3, <1>4, ImplementsMessages, TypeCorrect, KeyInvariant, PTL
  DEF DeliverySpec, ReadInv

\* Every run of Delivery is, for its lists, one of Inbox.
THEOREM ImplementsLists == DeliverySpec => Lists!Spec
<1>1. DeliveryInit => Lists!Init
  BY DEF DeliveryInit, Init, Lists!Init, PlaceBar, InChat
<1>2. TypeOK /\ KeyInv /\ ReadInv /\ [DeliveryNext]_deliveryVars => [Lists!Next]_Lists!vars
  BY ListsStep DEF ReadInv
<1>. QED
  BY <1>1, <1>2, ReadInvariant, ImplementsMessages, TypeCorrect, KeyInvariant, PTL
  DEF DeliverySpec, Lists!Spec

\* The device reads what is sent to it while it is logged in, and nothing else.
THEOREM EverythingIsRead == DeliverySpec => []ReadsWhatWasSent
<1>1. TypeOK /\ FanOut /\ ReadInv /\ Lists!WalkMissesOnlyTies
        => ReadsWhatWasSent
  <2>. SUFFICES ASSUME TypeOK, FanOut, ReadInv, Lists!WalkMissesOnlyTies,
                       NEW W \in SUBSET Listing, In!Walk(W)
                PROVE  /\ \A m \in UNION {page[l] : l \in W} :
                            m \in Addressed /\ atStart[m][Reader] # "revoked"
                       /\ device[Reader] = "active" =>
                            \A m \in Addressed : atStart[m][Reader] = "active" =>
                              \E l \in W : \/ m \in page[l] \cup missing[l]
                                           \/ cursor[l] # None /\ created[m] = created[cursor[l]]
    BY DEF ReadsWhatWasSent, Addressed, TypeOK
  <2>1. Lists!Walk(W)
    BY SameCount DEF In!Walk, In!Follows, Lists!Walk, Lists!Follows
  <2>2. \A m \in Request : status[m] # "none" <=> InChat(m) /\ Reader \in recipients[m]
    BY DEF ReadInv, StatusInv
  <2>3. ASSUME NEW l \in W, NEW m \in page[l]
        PROVE  m \in Addressed /\ atStart[m][Reader] # "revoked"
    <3>1. m \in Request /\ status[m] # "none"
      BY DEF ReadInv, Lists!TypeOK, Lists!PageInv
    <3>2. InChat(m) /\ Reader \in recipients[m]
      BY <2>2, <3>1
    <3>. QED
      BY <3>1, <3>2, DeliveryAssumption DEF FanOut, FanOutSound, Addressed, InChat, OtherDevices
  <2>4. ASSUME device[Reader] = "active", NEW m \in Addressed, atStart[m][Reader] = "active"
        PROVE  \E l \in W : \/ m \in page[l] \cup missing[l]
                            \/ cursor[l] # None /\ created[m] = created[cursor[l]]
    <3>1. m \in messages /\ m \in Request /\ InChat(m) /\ Reader \in OtherDevices(m)
      BY <2>4 DEF Addressed, InChat, TypeOK
    <3>2. status[m] # "none"
      BY <2>2, <2>4, <3>1 DEF FanOut, FanOutComplete
    <3>. QED
      BY <2>1, <3>1, <3>2 DEF Lists!WalkMissesOnlyTies
  <2>. QED
    BY <2>3, <2>4
<1>2. Lists!Spec => []Lists!WalkMissesOnlyTies
  BY DeliveryAssumption, Lists!WalkMisses
<1>. QED
  BY <1>1, <1>2, ImplementsLists, ImplementsMessages, ReadInvariant, TypeCorrect, FanOutExact, PTL
=============================================================================
