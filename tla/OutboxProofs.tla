----------------------------- MODULE OutboxProofs -----------------------------
(***************************************************************************)
(* Proofs about Outbox, for every set of devices, requests and texts and   *)
(* any number of openings.  The app's requests are requests of Messages,   *)
(* so all that is proved there holds under the app; what the app itself    *)
(* adds rests on the input field: its text changes whenever a send of it   *)
(* succeeds or the screen is opened anew (FieldInv).                       *)
(***************************************************************************)
EXTENDS Outbox, MessagesProofs

\* The app takes steps of the server's requests, or none.
LEMMA ServerOnly ==
  ASSUME [OutboxNext]_outVars
  PROVE  [Next]_vars
<1>1. ASSUME NEW r \in Request, NEW a \in Args, Arrive(r, a) PROVE Next
  BY <1>1 DEF Arrive, Next
<1>2. CASE ServerStep
  BY <1>2 DEF ServerStep, Next
<1>3. ASSUME NEW r \in Request, TapSend(r) \/ SaveSent(r) \/ ShowSent(r) \/ ReportFailed(r) \/ EndSilently(r)
      PROVE  UNCHANGED vars
  BY <1>3 DEF TapSend, SaveSent, ShowSent, ReportFailed, EndSilently
<1>4. CASE OpenScreen \/ CloseScreen \/ UNCHANGED outVars
  BY <1>4 DEF OpenScreen, CloseScreen, outVars
<1>. QED
  BY <1>1, <1>2, <1>3, <1>4 DEF OutboxNext

\* Every run of the app and the server is one of the server alone.
THEOREM ImplementsMessages == OutboxSpec => Spec
<1>1. OutboxInit => Init
  BY DEF OutboxInit
<1>2. [OutboxNext]_outVars => [Next]_vars
  BY ServerOnly
<1>. QED
  BY <1>1, <1>2, PTL DEF OutboxSpec, Spec

\* So the server keeps its promises to the app.
THEOREM PromisesCarryOver ==
  OutboxSpec => [](NoDuplicateMessage /\ AckedIsStored /\ FanOut)
BY ImplementsMessages, NoDuplicate, AckedStaysStored, FanOutExact, PTL

-----------------------------------------------------------------------------
\* Every step keeps the app's types.
LEMMA AppTypes ==
  ASSUME OutboxTypeOK, [OutboxNext]_outVars
  PROVE  OutboxTypeOK'
<1>. USE OutboxAssumption DEF OutboxTypeOK, appVars
<1>1. CASE OpenScreen
  BY <1>1 DEF OpenScreen
<1>2. CASE CloseScreen
  BY <1>2 DEF CloseScreen
<1>3. ASSUME NEW r \in Request, TapSend(r) PROVE OutboxTypeOK'
  BY <1>3 DEF TapSend
<1>4. ASSUME NEW r \in Request, SaveSent(r) PROVE OutboxTypeOK'
  BY <1>4 DEF SaveSent
<1>5. ASSUME NEW r \in Request, ShowSent(r) PROVE OutboxTypeOK'
  BY <1>5 DEF ShowSent
<1>6. ASSUME NEW r \in Request, ReportFailed(r) PROVE OutboxTypeOK'
  BY <1>6 DEF ReportFailed
<1>7. ASSUME NEW r \in Request, EndSilently(r) PROVE OutboxTypeOK'
  BY <1>7 DEF EndSilently
<1>8. CASE UNCHANGED appVars
  BY <1>8
<1>. QED
  BY <1>1, <1>2, <1>3, <1>4, <1>5, <1>6, <1>7, <1>8 DEF OutboxNext, Arrive, ServerStep, outVars

\* OutboxSpec keeps every variable of the app within its type.
THEOREM OutboxTypeCorrect == OutboxSpec => []OutboxTypeOK
<1>1. OutboxInit => OutboxTypeOK
  <2>1. OutboxInit => onScreen \in BOOLEAN
    BY Zenon DEF OutboxInit
  <2>. QED
    BY <2>1 DEF OutboxInit, OutboxTypeOK
<1>2. OutboxTypeOK /\ [OutboxNext]_outVars => OutboxTypeOK'
  BY AppTypes
<1>. QED
  BY <1>1, <1>2, PTL DEF OutboxSpec

-----------------------------------------------------------------------------
\* What a send says of the text it carries: it is the field's as long as the
\* send is awaited on its screen, and no longer once it was shown as sent or
\* another screen is open.  Only a screen that was left ends a send in silence,
\* and it does not come back.
FieldInv ==
  /\ \A r \in Request :
       /\ FromApp(r) <=> told[r] # "none"
       /\ tappedOn[r] <= opened
       /\ FromApp(r) => text[r] <= field
       /\ FromApp(r) /\ tappedOn[r] # opened => text[r] < field
       /\ told[r] = "sent" => text[r] < field
       /\ told[r] \in {"saved", "sent"} => r \in table
       /\ told[r] = "silent" => ~Mounted(r)
  /\ onScreen => opened > 0
  /\ \A r, s \in Request :
       Awaited(r) /\ Awaited(s) /\ tappedOn[r] = tappedOn[s] => r = s
  /\ \A r, s \in Request :
       FromApp(r) /\ FromApp(s) /\ r # s /\ text[r] = text[s] =>
         tappedOn[r] = tappedOn[s] /\ "failed" \in {told[r], told[s]}

\* Every step keeps FieldInv.
LEMMA FieldStep ==
  ASSUME OutboxTypeOK, FieldInv, [OutboxNext]_outVars
  PROVE  FieldInv'
<1>. USE DEF OutboxTypeOK, FieldInv, FromApp, Awaited, Mounted
<1>1. CASE OpenScreen
  BY <1>1 DEF OpenScreen
<1>2. CASE CloseScreen
  BY <1>2 DEF CloseScreen
<1>3. ASSUME NEW r \in Request, TapSend(r) PROVE FieldInv'
  BY <1>3 DEF TapSend
<1>4. ASSUME NEW r \in Request, SaveSent(r) PROVE FieldInv'
  BY <1>4 DEF SaveSent
<1>5. ASSUME NEW r \in Request, ShowSent(r) PROVE FieldInv'
  BY <1>5 DEF ShowSent
<1>6. ASSUME NEW r \in Request, ReportFailed(r) PROVE FieldInv'
  BY <1>6 DEF ReportFailed
<1>7. ASSUME NEW r \in Request, EndSilently(r) PROVE FieldInv'
  BY <1>7 DEF EndSilently
<1>8. CASE UNCHANGED appVars
  BY <1>8 DEF appVars
<1>. QED
  BY <1>1, <1>2, <1>3, <1>4, <1>5, <1>6, <1>7, <1>8 DEF OutboxNext, Arrive, ServerStep, outVars

\* A text is stored twice only where it was sent again from the screen that had
\* reported it failed; a stored one its sender's table misses is awaited, was
\* reported failed, or its screen was left.
THEOREM SentOnce == OutboxSpec => []SentOnceOrTold
<1>1. OutboxInit => FieldInv
  BY DEF OutboxInit, FieldInv, FromApp, Awaited, Mounted
<1>2. OutboxTypeOK /\ FieldInv /\ [OutboxNext]_outVars => FieldInv'
  BY FieldStep
<1>3. TypeOK /\ OutboxTypeOK /\ FieldInv => SentOnceOrTold
  BY DEF TypeOK, OutboxTypeOK, FieldInv, SentOnceOrTold, LostOnlyByLeaving,
         StoredTwiceOnlyIfReported
<1>. QED
  BY <1>1, <1>2, <1>3, OutboxTypeCorrect, ImplementsMessages, TypeCorrect, PTL DEF OutboxSpec
=============================================================================
