---------------------------- MODULE AccountsProofs ----------------------------
(***************************************************************************)
(* Proofs about Otp and Accounts, for every set of requests and every      *)
(* bound.                                                                  *)
(*                                                                         *)
(* Otp: codes are never stored twice, so a code that is gone stays gone    *)
(* (CodeInv); the submissions that meet one code are counted by the        *)
(* counter that its sending reset (BudgetInv).  Accounts implements Otp,   *)
(* so all that holds of its codes, too; StageInv ties the statements of a  *)
(* request to its commands.                                                *)
(***************************************************************************)
EXTENDS Accounts, FiniteSetTheorems, TLAPS

\* Every step keeps the types.
LEMMA TypeStep ==
  ASSUME TypeOK, [Next]_vars
  PROVE  TypeOK'
<1>. USE OtpAssumption DEF TypeOK, Stage, Answer, Begin, Goto, Finish, MeetFault, keys
<1>1. ASSUME NEW q \in Request, StartGenerate(q) PROVE TypeOK'
  BY <1>1 DEF StartGenerate
<1>2. ASSUME NEW q \in Request, AcquireCooldown(q) PROVE TypeOK'
  BY <1>2 DEF AcquireCooldown
<1>3. ASSUME NEW q \in Request, StoreCode(q) PROVE TypeOK'
  BY <1>3 DEF StoreCode
<1>4. ASSUME NEW q \in Request, ResetAttempts(q) PROVE TypeOK'
  BY <1>4 DEF ResetAttempts, ClearAttempts
<1>5. ASSUME NEW q \in Request, IncrAttempts(q) PROVE TypeOK'
  BY <1>5 DEF IncrAttempts
<1>6. ASSUME NEW q \in Request, ExpireAttempts(q) PROVE TypeOK'
  BY <1>6 DEF ExpireAttempts
<1>7. ASSUME NEW q \in Request, CheckLimit(q) PROVE TypeOK'
  BY <1>7 DEF CheckLimit
<1>8. ASSUME NEW q \in Request, CompareCode(q) PROVE TypeOK'
  BY <1>8 DEF CompareCode
<1>9. ASSUME NEW q \in Request, ConsumeCode(q) PROVE TypeOK'
  BY <1>9 DEF ConsumeCode, ClearAttempts
<1>10. ASSUME NEW q \in Request, Fail(q) PROVE TypeOK'
  BY <1>10 DEF Fail, InFlight
<1>11. ASSUME NEW q \in Request, NEW c \in Request \cup {None}, StartVerify(q, c) PROVE TypeOK'
  BY <1>11 DEF StartVerify, Sent
<1>12. CASE CooldownEnds
  BY <1>12 DEF CooldownEnds
<1>13. CASE CodeExpires
  BY <1>13 DEF CodeExpires
<1>14. CASE AttemptsExpire
  BY <1>14 DEF AttemptsExpire, ClearAttempts
<1>15. CASE UNCHANGED vars
  BY <1>15 DEF vars
<1>. QED
  BY <1>1, <1>2, <1>3, <1>4, <1>5, <1>6, <1>7, <1>8, <1>9, <1>10, <1>11, <1>12, <1>13, <1>14, <1>15
  DEF Next

\* Spec keeps every variable within its type.
THEOREM TypeCorrect == Spec => []TypeOK
<1>1. Init => TypeOK
  <2>1. Init => cooldown \in BOOLEAN
    BY Zenon DEF Init
  <2>. QED
    BY <2>1 DEF Init, TypeOK, Stage, Answer
<1>2. TypeOK /\ [Next]_vars => TypeOK'
  BY TypeStep
<1>. QED
  BY <1>1, <1>2, PTL DEF Spec

-----------------------------------------------------------------------------
\* Every step keeps CounterExpires.
LEMMA CounterStep ==
  ASSUME TypeOK, CounterExpires, [Next]_vars
  PROVE  CounterExpires'
<1>. USE OtpAssumption DEF TypeOK, Stage, Answer, CounterExpires, Begin, Goto, Finish, MeetFault, keys
<1>1. ASSUME NEW q \in Request, StartGenerate(q) PROVE CounterExpires'
  BY <1>1 DEF StartGenerate
<1>2. ASSUME NEW q \in Request, AcquireCooldown(q) PROVE CounterExpires'
  BY <1>2 DEF AcquireCooldown
<1>3. ASSUME NEW q \in Request, StoreCode(q) PROVE CounterExpires'
  BY <1>3 DEF StoreCode
<1>4. ASSUME NEW q \in Request, ResetAttempts(q) PROVE CounterExpires'
  BY <1>4 DEF ResetAttempts, ClearAttempts
<1>5. ASSUME NEW q \in Request, IncrAttempts(q) PROVE CounterExpires'
  BY <1>5 DEF IncrAttempts
<1>6. ASSUME NEW q \in Request, ExpireAttempts(q) PROVE CounterExpires'
  BY <1>6 DEF ExpireAttempts
<1>7. ASSUME NEW q \in Request, CheckLimit(q) PROVE CounterExpires'
  BY <1>7 DEF CheckLimit
<1>8. ASSUME NEW q \in Request, CompareCode(q) PROVE CounterExpires'
  BY <1>8 DEF CompareCode
<1>9. ASSUME NEW q \in Request, ConsumeCode(q) PROVE CounterExpires'
  BY <1>9 DEF ConsumeCode, ClearAttempts
<1>10. ASSUME NEW q \in Request, Fail(q) PROVE CounterExpires'
  BY <1>10 DEF Fail, InFlight
<1>11. ASSUME NEW q \in Request, NEW c \in Request \cup {None}, StartVerify(q, c) PROVE CounterExpires'
  BY <1>11 DEF StartVerify, Sent
<1>12. CASE CooldownEnds
  BY <1>12 DEF CooldownEnds
<1>13. CASE CodeExpires
  BY <1>13 DEF CodeExpires
<1>14. CASE AttemptsExpire
  BY <1>14 DEF AttemptsExpire, ClearAttempts
<1>15. CASE UNCHANGED vars
  BY <1>15 DEF vars
<1>. QED
  BY <1>1, <1>2, <1>3, <1>4, <1>5, <1>6, <1>7, <1>8, <1>9, <1>10, <1>11, <1>12, <1>13, <1>14, <1>15
  DEF Next

\* A counter without a TTL has its creator still to come, or a failure behind it.
THEOREM CounterHasTTL == Spec => []CounterExpires
<1>1. Init => CounterExpires
  BY DEF Init, CounterExpires
<1>2. TypeOK /\ CounterExpires /\ [Next]_vars => CounterExpires'
  BY CounterStep
<1>. QED
  BY <1>1, <1>2, TypeCorrect, PTL DEF Spec

-----------------------------------------------------------------------------
\* What requests and codes have behind them.
CodeInv ==
  /\ code # None => pc[code] \in {"reset", "done"} /\ answer[code] # "ok"
  /\ \A q \in Request :
       /\ answer[q] # "none" => pc[q] = "done"
       /\ \A p \in before[q] : answer[p] \in {"sent", "ok"}
       /\ pc[q] = "idle" => before[q] = {}
       /\ won[q] # None => /\ pc[q] \in {"consume", "done"}
                          /\ pc[won[q]] \in {"reset", "done"}
       /\ pc[q] = "consume" \/ answer[q] = "ok" => won[q] # None
       /\ answer[q] = "ok" /\ q \notin faulted => code # won[q]
       /\ pc[q] = "compare" => count[q] <= MaxAttempts
       /\ tries[q] # {} => pc[q] \in {"reset", "done"}
       /\ \A v \in tries[q] : pc[v] \in {"consume", "done"}

\* Every step keeps CodeInv.
LEMMA CodeStep ==
  ASSUME TypeOK, CodeInv, [Next]_vars
  PROVE  CodeInv'
<1>. USE OtpAssumption DEF TypeOK, Stage, Answer, CodeInv, Begin, Goto, Finish, MeetFault, keys
<1>1. ASSUME NEW q \in Request, StartGenerate(q) PROVE CodeInv'
  BY <1>1 DEF StartGenerate
<1>2. ASSUME NEW q \in Request, AcquireCooldown(q) PROVE CodeInv'
  BY <1>2 DEF AcquireCooldown
<1>3. ASSUME NEW q \in Request, StoreCode(q) PROVE CodeInv'
  BY <1>3 DEF StoreCode
<1>4. ASSUME NEW q \in Request, ResetAttempts(q) PROVE CodeInv'
  BY <1>4 DEF ResetAttempts, ClearAttempts
<1>5. ASSUME NEW q \in Request, IncrAttempts(q) PROVE CodeInv'
  BY <1>5 DEF IncrAttempts
<1>6. ASSUME NEW q \in Request, ExpireAttempts(q) PROVE CodeInv'
  BY <1>6 DEF ExpireAttempts
<1>7. ASSUME NEW q \in Request, CheckLimit(q) PROVE CodeInv'
  BY <1>7 DEF CheckLimit
<1>8. ASSUME NEW q \in Request, CompareCode(q) PROVE CodeInv'
  BY <1>8 DEF CompareCode
<1>9. ASSUME NEW q \in Request, ConsumeCode(q) PROVE CodeInv'
  BY <1>9 DEF ConsumeCode, ClearAttempts
<1>10. ASSUME NEW q \in Request, Fail(q) PROVE CodeInv'
  BY <1>10 DEF Fail, InFlight
<1>11. ASSUME NEW q \in Request, NEW c \in Request \cup {None}, StartVerify(q, c) PROVE CodeInv'
  BY <1>11 DEF StartVerify, Sent
<1>12. CASE CooldownEnds
  BY <1>12 DEF CooldownEnds
<1>13. CASE CodeExpires
  BY <1>13 DEF CodeExpires
<1>14. CASE AttemptsExpire
  BY <1>14 DEF AttemptsExpire, ClearAttempts
<1>15. CASE UNCHANGED vars
  BY <1>15 DEF vars
<1>. QED
  BY <1>1, <1>2, <1>3, <1>4, <1>5, <1>6, <1>7, <1>8, <1>9, <1>10, <1>11, <1>12, <1>13, <1>14, <1>15
  DEF Next

\* CodeInv holds in every state.
LEMMA CodeInvariant == Spec => [](TypeOK /\ CodeInv)
<1>1. Init => CodeInv
  BY OtpAssumption DEF Init, CodeInv
<1>2. TypeOK /\ CodeInv /\ [Next]_vars => CodeInv'
  BY CodeStep
<1>. QED
  BY <1>1, <1>2, TypeCorrect, PTL DEF Spec
-----------------------------------------------------------------------------
\* A submission whose code was accepted before it began was accepted by itself
\* on a code its predecessor failed to delete.
SpentInv ==
  \A v, w \in Request :
    v \in before[w] /\ answer[v] = "ok" /\ won[w] # None /\ won[v] = won[w] => v \in faulted

\* Every step keeps SpentInv.
LEMMA SpentStep ==
  ASSUME TypeOK, CodeInv, SpentInv, [Next]_vars
  PROVE  SpentInv'
<1>. USE OtpAssumption DEF TypeOK, Stage, Answer, CodeInv, SpentInv, Begin, Goto, Finish, MeetFault, keys
<1>1. ASSUME NEW q \in Request, StartGenerate(q) PROVE SpentInv'
  BY <1>1 DEF StartGenerate
<1>2. ASSUME NEW q \in Request, AcquireCooldown(q) PROVE SpentInv'
  BY <1>2 DEF AcquireCooldown
<1>3. ASSUME NEW q \in Request, StoreCode(q) PROVE SpentInv'
  BY <1>3 DEF StoreCode
<1>4. ASSUME NEW q \in Request, ResetAttempts(q) PROVE SpentInv'
  BY <1>4 DEF ResetAttempts, ClearAttempts
<1>5. ASSUME NEW q \in Request, IncrAttempts(q) PROVE SpentInv'
  BY <1>5 DEF IncrAttempts
<1>6. ASSUME NEW q \in Request, ExpireAttempts(q) PROVE SpentInv'
  BY <1>6 DEF ExpireAttempts
<1>7. ASSUME NEW q \in Request, CheckLimit(q) PROVE SpentInv'
  BY <1>7 DEF CheckLimit
<1>8. ASSUME NEW q \in Request, CompareCode(q) PROVE SpentInv'
  BY <1>8 DEF CompareCode
<1>9. ASSUME NEW q \in Request, ConsumeCode(q) PROVE SpentInv'
  BY <1>9 DEF ConsumeCode, ClearAttempts
<1>10. ASSUME NEW q \in Request, Fail(q) PROVE SpentInv'
  BY <1>10 DEF Fail, InFlight
<1>11. ASSUME NEW q \in Request, NEW c \in Request \cup {None}, StartVerify(q, c) PROVE SpentInv'
  BY <1>11 DEF StartVerify, Sent
<1>12. CASE CooldownEnds
  BY <1>12 DEF CooldownEnds
<1>13. CASE CodeExpires
  BY <1>13 DEF CodeExpires
<1>14. CASE AttemptsExpire
  BY <1>14 DEF AttemptsExpire, ClearAttempts
<1>15. CASE UNCHANGED vars
  BY <1>15 DEF vars
<1>. QED
  BY <1>1, <1>2, <1>3, <1>4, <1>5, <1>6, <1>7, <1>8, <1>9, <1>10, <1>11, <1>12, <1>13, <1>14, <1>15
  DEF Next

\* A code buys two successes only by submissions that overlapped, or because
\* its deletion failed.
THEOREM AcceptedTwice == Spec => []AcceptedTwiceOnlyByOverlap
<1>1. Init => SpentInv
  BY DEF Init, SpentInv
<1>2. TypeOK /\ CodeInv /\ SpentInv /\ [Next]_vars => SpentInv'
  BY SpentStep
<1>3. TypeOK /\ CodeInv /\ SpentInv => AcceptedTwiceOnlyByOverlap
  BY DEF CodeInv, SpentInv, AcceptedTwiceOnlyByOverlap
<1>. QED
  BY <1>1, <1>2, <1>3, CodeInvariant, PTL DEF Spec

-----------------------------------------------------------------------------
\* A code in force that a submission knew when it began is the code it
\* matched: no other was stored meanwhile.
MatchInv ==
  \A v \in Request : pc[v] = "consume" /\ code \in before[v] => won[v] = code

\* Every step keeps MatchInv.
LEMMA MatchStep ==
  ASSUME TypeOK, CodeInv, MatchInv, [Next]_vars
  PROVE  MatchInv'
<1>. USE OtpAssumption DEF TypeOK, Stage, Answer, CodeInv, MatchInv, Begin, Goto, Finish, MeetFault, keys
<1>1. ASSUME NEW q \in Request, StartGenerate(q) PROVE MatchInv'
  BY <1>1 DEF StartGenerate
<1>2. ASSUME NEW q \in Request, AcquireCooldown(q) PROVE MatchInv'
  BY <1>2 DEF AcquireCooldown
<1>3. ASSUME NEW q \in Request, StoreCode(q) PROVE MatchInv'
  BY <1>3 DEF StoreCode
<1>4. ASSUME NEW q \in Request, ResetAttempts(q) PROVE MatchInv'
  BY <1>4 DEF ResetAttempts, ClearAttempts
<1>5. ASSUME NEW q \in Request, IncrAttempts(q) PROVE MatchInv'
  BY <1>5 DEF IncrAttempts
<1>6. ASSUME NEW q \in Request, ExpireAttempts(q) PROVE MatchInv'
  BY <1>6 DEF ExpireAttempts
<1>7. ASSUME NEW q \in Request, CheckLimit(q) PROVE MatchInv'
  BY <1>7 DEF CheckLimit
<1>8. ASSUME NEW q \in Request, CompareCode(q) PROVE MatchInv'
  BY <1>8 DEF CompareCode
<1>9. ASSUME NEW q \in Request, ConsumeCode(q) PROVE MatchInv'
  BY <1>9 DEF ConsumeCode, ClearAttempts
<1>10. ASSUME NEW q \in Request, Fail(q) PROVE MatchInv'
  BY <1>10 DEF Fail, InFlight
<1>11. ASSUME NEW q \in Request, NEW c \in Request \cup {None}, StartVerify(q, c) PROVE MatchInv'
  BY <1>11 DEF StartVerify, Sent
<1>12. CASE CooldownEnds
  BY <1>12 DEF CooldownEnds
<1>13. CASE CodeExpires
  BY <1>13 DEF CodeExpires
<1>14. CASE AttemptsExpire
  BY <1>14 DEF AttemptsExpire, ClearAttempts
<1>15. CASE UNCHANGED vars
  BY <1>15 DEF vars
<1>. QED
  BY <1>1, <1>2, <1>3, <1>4, <1>5, <1>6, <1>7, <1>8, <1>9, <1>10, <1>11, <1>12, <1>13, <1>14, <1>15
  DEF Next

\* No submission deletes a code that was sent before it began and that it did
\* not match.
THEOREM GoneForCause == Spec => CodeGoesForCause
<1>1. Init => MatchInv
  BY OtpAssumption DEF Init, MatchInv
<1>2. TypeOK /\ CodeInv /\ MatchInv /\ [Next]_vars => MatchInv'
  BY MatchStep
<1>3. TypeOK /\ CodeInv /\ MatchInv /\ [Next]_vars =>
        [code # None /\ code' = None =>
           \/ \E v \in Request :
                answer[v] # "ok" /\ answer'[v] = "ok" /\ (won[v] = code \/ code \notin before[v])
           \/ UNCHANGED <<pc, answer>>]_vars
  <2>. SUFFICES ASSUME TypeOK, CodeInv, MatchInv, Next, code # None, code' = None
                PROVE  \/ \E v \in Request :
                            /\ answer[v] # "ok" /\ answer'[v] = "ok"
                            /\ won[v] = code \/ code \notin before[v]
                       \/ UNCHANGED <<pc, answer>>
    BY DEF vars
  <2>. USE OtpAssumption DEF TypeOK, Stage, Answer, CodeInv, MatchInv, Begin, Goto, Finish, MeetFault, keys
  <2>1. ASSUME NEW v \in Request, ConsumeCode(v)
        PROVE  /\ answer[v] # "ok" /\ answer'[v] = "ok"
               /\ won[v] = code \/ code \notin before[v]
    BY <2>1 DEF ConsumeCode
  <2>2. CASE CodeExpires
    BY <2>2 DEF CodeExpires
  <2>3. ASSUME NEW v \in Request, ~ConsumeCode(v),
               \/ StartGenerate(v) \/ AcquireCooldown(v) \/ StoreCode(v) \/ ResetAttempts(v)
               \/ \E c \in Request \cup {None} : StartVerify(v, c)
               \/ IncrAttempts(v) \/ ExpireAttempts(v) \/ CheckLimit(v) \/ CompareCode(v) \/ Fail(v)
        PROVE  FALSE
    BY <2>3 DEF StartGenerate, AcquireCooldown, StoreCode, ResetAttempts, StartVerify,
      IncrAttempts, ExpireAttempts, CheckLimit, CompareCode, Fail
  <2>4. CASE CooldownEnds \/ AttemptsExpire
    BY <2>4 DEF CooldownEnds, AttemptsExpire
  <2>. QED
    BY <2>1, <2>2, <2>3, <2>4 DEF Next
<1>. QED
  BY <1>1, <1>2, <1>3, CodeInvariant, PTL DEF Spec, CodeGoesForCause
-----------------------------------------------------------------------------
\* The submissions that followed the sending of g and were compared with it.
Met(g) == {v \in tries[g] : g \in before[v]}

\* Those and the ones on their way there that the limit will let through.
Charged(g) ==
  Met(g) \cup {v \in Request : /\ g \in before[v]
                              /\ pc[v] \in {"expire", "limit", "compare"}
                              /\ count[v] <= MaxAttempts}

\* Codes sent by requests that overlapped the one that sent g.
Stragglers(g) == {h \in Sent \ {g} : h \notin before[g] /\ g \notin before[h]}

InForce(g) == code = g /\ answer[g] = "sent"

\* A reset still to come belongs to a code no older than the one in force.
ResetInv == \A h \in Request : pc[h] = "reset" => code \notin before[h]

\* Every step keeps ResetInv.
LEMMA ResetStep ==
  ASSUME TypeOK, CodeInv, ResetInv, [Next]_vars
  PROVE  ResetInv'
<1>. USE OtpAssumption DEF TypeOK, Stage, Answer, CodeInv, ResetInv, Begin, Goto, Finish, MeetFault, keys
<1>1. ASSUME NEW q \in Request, StartGenerate(q) PROVE ResetInv'
  BY <1>1 DEF StartGenerate
<1>2. ASSUME NEW q \in Request, AcquireCooldown(q) PROVE ResetInv'
  BY <1>2 DEF AcquireCooldown
<1>3. ASSUME NEW q \in Request, StoreCode(q) PROVE ResetInv'
  BY <1>3 DEF StoreCode
<1>4. ASSUME NEW q \in Request, ResetAttempts(q) PROVE ResetInv'
  BY <1>4 DEF ResetAttempts, ClearAttempts
<1>5. ASSUME NEW q \in Request, IncrAttempts(q) PROVE ResetInv'
  BY <1>5 DEF IncrAttempts
<1>6. ASSUME NEW q \in Request, ExpireAttempts(q) PROVE ResetInv'
  BY <1>6 DEF ExpireAttempts
<1>7. ASSUME NEW q \in Request, CheckLimit(q) PROVE ResetInv'
  BY <1>7 DEF CheckLimit
<1>8. ASSUME NEW q \in Request, CompareCode(q) PROVE ResetInv'
  BY <1>8 DEF CompareCode
<1>9. ASSUME NEW q \in Request, ConsumeCode(q) PROVE ResetInv'
  BY <1>9 DEF ConsumeCode, ClearAttempts
<1>10. ASSUME NEW q \in Request, Fail(q) PROVE ResetInv'
  BY <1>10 DEF Fail, InFlight
<1>11. ASSUME NEW q \in Request, NEW c \in Request \cup {None}, StartVerify(q, c) PROVE ResetInv'
  BY <1>11 DEF StartVerify, Sent
<1>12. CASE CooldownEnds
  BY <1>12 DEF CooldownEnds
<1>13. CASE CodeExpires
  BY <1>13 DEF CodeExpires
<1>14. CASE AttemptsExpire
  BY <1>14 DEF AttemptsExpire, ClearAttempts
<1>15. CASE UNCHANGED vars
  BY <1>15 DEF vars
<1>. QED
  BY <1>1, <1>2, <1>3, <1>4, <1>5, <1>6, <1>7, <1>8, <1>9, <1>10, <1>11, <1>12, <1>13, <1>14, <1>15
  DEF Next

\* Only a submission that has been charged to the code in force meets it.
LEMMA MetStep ==
  ASSUME TypeOK, CodeInv, [Next]_vars, NEW g \in Request
  PROVE  Met(g)' \subseteq IF InForce(g) THEN Charged(g) ELSE Met(g)
<1>. DEFINE Goal == Met(g)' \subseteq IF InForce(g) THEN Charged(g) ELSE Met(g)
<1>. USE OtpAssumption DEF TypeOK, Stage, Answer, CodeInv, Met, Charged, InForce, Begin, Goto, Finish,
       MeetFault, keys
<1>1. ASSUME NEW q \in Request, StartGenerate(q) PROVE Goal
  BY <1>1 DEF StartGenerate
<1>2. ASSUME NEW q \in Request, AcquireCooldown(q) PROVE Goal
  BY <1>2 DEF AcquireCooldown
<1>3. ASSUME NEW q \in Request, StoreCode(q) PROVE Goal
  BY <1>3 DEF StoreCode
<1>4. ASSUME NEW q \in Request, ResetAttempts(q) PROVE Goal
  BY <1>4 DEF ResetAttempts, ClearAttempts
<1>5. ASSUME NEW q \in Request, IncrAttempts(q) PROVE Goal
  BY <1>5 DEF IncrAttempts
<1>6. ASSUME NEW q \in Request, ExpireAttempts(q) PROVE Goal
  BY <1>6 DEF ExpireAttempts
<1>7. ASSUME NEW q \in Request, CheckLimit(q) PROVE Goal
  BY <1>7 DEF CheckLimit
<1>8. ASSUME NEW q \in Request, CompareCode(q) PROVE Goal
  <2>1. before' = before
    BY <1>8 DEF CompareCode
  <2>2. CASE code = g
    <3>1. tries' = [tries EXCEPT ![g] = @ \cup {q}]
      BY <1>8, <2>2 DEF CompareCode
    <3>2. pc[q] = "compare" /\ count[q] <= MaxAttempts
      BY <1>8 DEF CompareCode
    <3>3. Met(g)' \subseteq Met(g) \cup {v \in {q} : g \in before[v]}
      BY <2>1, <3>1
    <3>4. CASE answer[g] = "sent"
      BY <2>2, <3>2, <3>3, <3>4
    <3>5. CASE answer[g] # "sent"
      <4>1. g \notin before[q]
        BY <2>2, <3>2, <3>5
      <4>. QED
        BY <2>2, <3>3, <3>5, <4>1
    <3>. QED
      BY <3>4, <3>5
  <2>3. CASE code # g
    <3>1. tries'[g] = tries[g]
      BY <1>8, <2>3 DEF CompareCode
    <3>. QED
      BY <2>1, <2>3, <3>1
  <2>. QED
    BY <2>2, <2>3
<1>9. ASSUME NEW q \in Request, ConsumeCode(q) PROVE Goal
  BY <1>9 DEF ConsumeCode, ClearAttempts
<1>10. ASSUME NEW q \in Request, Fail(q) PROVE Goal
  BY <1>10 DEF Fail, InFlight
<1>11. ASSUME NEW q \in Request, NEW c \in Request \cup {None}, StartVerify(q, c) PROVE Goal
  BY <1>11 DEF StartVerify, Sent
<1>12. CASE CooldownEnds
  BY <1>12 DEF CooldownEnds
<1>13. CASE CodeExpires
  BY <1>13 DEF CodeExpires
<1>14. CASE AttemptsExpire
  BY <1>14 DEF AttemptsExpire, ClearAttempts
<1>15. CASE UNCHANGED vars
  BY <1>15 DEF vars
<1>. QED
  BY <1>1, <1>2, <1>3, <1>4, <1>5, <1>6, <1>7, <1>8, <1>9, <1>10, <1>11, <1>12, <1>13, <1>14, <1>15
  DEF Next

\* While a code sent without failure or overlap stays in force the counter
\* never falls, and rises with each submission charged to the code.
Counts(g) ==
  /\ timer' # "early"
  /\ \/ attempts' = attempts /\ Charged(g)' \subseteq Charged(g)
     \/ /\ attempts' = attempts + 1
        /\ \E v \in Request :
             Charged(g)' \subseteq Charged(g) \cup IF attempts < MaxAttempts THEN {v} ELSE {}

\* Every step counts what it charges.
LEMMA CountStep ==
  ASSUME TypeOK, CodeInv, ResetInv, [Next]_vars, NEW g \in Request,
         InForce(g), code' = g, timer # "early", Stragglers(g)' = {}
  PROVE  Counts(g)
<1>. USE OtpAssumption DEF TypeOK, Stage, Answer, CodeInv, ResetInv, Met, Charged, InForce, Stragglers,
       Sent, Counts, Begin, Goto, Finish, MeetFault, keys
<1>1. ASSUME NEW q \in Request, StartGenerate(q) PROVE Counts(g)
  BY <1>1 DEF StartGenerate
<1>2. ASSUME NEW q \in Request, AcquireCooldown(q) PROVE Counts(g)
  BY <1>2 DEF AcquireCooldown
<1>3. ASSUME NEW q \in Request, StoreCode(q) PROVE Counts(g)
  BY <1>3 DEF StoreCode
<1>4. ASSUME NEW q \in Request, ResetAttempts(q) PROVE Counts(g)
  BY <1>4 DEF ResetAttempts, ClearAttempts
<1>5. ASSUME NEW q \in Request, IncrAttempts(q) PROVE Counts(g)
  BY <1>5 DEF IncrAttempts
<1>6. ASSUME NEW q \in Request, ExpireAttempts(q) PROVE Counts(g)
  BY <1>6 DEF ExpireAttempts
<1>7. ASSUME NEW q \in Request, CheckLimit(q) PROVE Counts(g)
  BY <1>7 DEF CheckLimit
<1>8. ASSUME NEW q \in Request, CompareCode(q) PROVE Counts(g)
  BY <1>8 DEF CompareCode
<1>9. ASSUME NEW q \in Request, ConsumeCode(q) PROVE Counts(g)
  BY <1>9 DEF ConsumeCode, ClearAttempts
<1>10. ASSUME NEW q \in Request, Fail(q) PROVE Counts(g)
  BY <1>10 DEF Fail, InFlight
<1>11. ASSUME NEW q \in Request, NEW c \in Request \cup {None}, StartVerify(q, c) PROVE Counts(g)
  BY <1>11 DEF StartVerify, Sent
<1>12. CASE CooldownEnds
  BY <1>12 DEF CooldownEnds
<1>13. CASE CodeExpires
  BY <1>13 DEF CodeExpires
<1>14. CASE AttemptsExpire
  BY <1>14 DEF AttemptsExpire, ClearAttempts
<1>15. CASE UNCHANGED vars
  BY <1>15 DEF vars
<1>. QED
  BY <1>1, <1>2, <1>3, <1>4, <1>5, <1>6, <1>7, <1>8, <1>9, <1>10, <1>11, <1>12, <1>13, <1>14, <1>15
  DEF Next

-----------------------------------------------------------------------------
(* The budget of a code, counted.                                          *)

Budget(g) ==
  /\ IsFiniteSet(Met(g)) /\ Cardinality(Met(g)) <= MaxAttempts
  /\ InForce(g) =>
       /\ timer # "early"
       /\ IsFiniteSet(Charged(g))
       /\ Cardinality(Charged(g)) <= attempts
       /\ Cardinality(Charged(g)) <= MaxAttempts

BudgetInv == \A g \in Request \ faulted : Stragglers(g) = {} => Budget(g)

\* A straggler stays one, once the sending it overlaps has begun.
LEMMA StragglersStay ==
  ASSUME TypeOK, CodeInv, [Next]_vars, NEW g \in Request, pc[g] # "idle"
  PROVE  Stragglers(g) \subseteq Stragglers(g)' /\ faulted \subseteq faulted'
<1>. DEFINE Goal == Stragglers(g) \subseteq Stragglers(g)' /\ faulted \subseteq faulted'
<1>. USE OtpAssumption DEF TypeOK, Stage, Answer, CodeInv, Stragglers, Sent, Begin, Goto, Finish,
       MeetFault, keys
<1>1. ASSUME NEW q \in Request, StartGenerate(q) PROVE Goal
  BY <1>1 DEF StartGenerate
<1>2. ASSUME NEW q \in Request, AcquireCooldown(q) PROVE Goal
  BY <1>2 DEF AcquireCooldown
<1>3. ASSUME NEW q \in Request, StoreCode(q) PROVE Goal
  BY <1>3 DEF StoreCode
<1>4. ASSUME NEW q \in Request, ResetAttempts(q) PROVE Goal
  BY <1>4 DEF ResetAttempts, ClearAttempts
<1>5. ASSUME NEW q \in Request, IncrAttempts(q) PROVE Goal
  BY <1>5 DEF IncrAttempts
<1>6. ASSUME NEW q \in Request, ExpireAttempts(q) PROVE Goal
  BY <1>6 DEF ExpireAttempts
<1>7. ASSUME NEW q \in Request, CheckLimit(q) PROVE Goal
  BY <1>7 DEF CheckLimit
<1>8. ASSUME NEW q \in Request, CompareCode(q) PROVE Goal
  BY <1>8 DEF CompareCode
<1>9. ASSUME NEW q \in Request, ConsumeCode(q) PROVE Goal
  BY <1>9 DEF ConsumeCode, ClearAttempts
<1>10. ASSUME NEW q \in Request, Fail(q) PROVE Goal
  BY <1>10 DEF Fail, InFlight
<1>11. ASSUME NEW q \in Request, NEW c \in Request \cup {None}, StartVerify(q, c) PROVE Goal
  BY <1>11 DEF StartVerify, Sent
<1>12. CASE CooldownEnds
  BY <1>12 DEF CooldownEnds
<1>13. CASE CodeExpires
  BY <1>13 DEF CodeExpires
<1>14. CASE AttemptsExpire
  BY <1>14 DEF AttemptsExpire, ClearAttempts
<1>15. CASE UNCHANGED vars
  BY <1>15 DEF vars
<1>. QED
  BY <1>1, <1>2, <1>3, <1>4, <1>5, <1>6, <1>7, <1>8, <1>9, <1>10, <1>11, <1>12, <1>13, <1>14, <1>15
  DEF Next

\* A code is sent with an empty counter, unless the reset failed.
LEMMA SendStep ==
  ASSUME TypeOK, CodeInv, [Next]_vars, NEW g \in Request, g \notin faulted',
         ~InForce(g), InForce(g)'
  PROVE  timer' = "none" /\ attempts' = 0 /\ Charged(g)' = {}
<1>. DEFINE Goal == timer' = "none" /\ attempts' = 0 /\ Charged(g)' = {}
<1>. USE OtpAssumption DEF TypeOK, Stage, Answer, CodeInv, InForce, Met, Charged, Begin, Goto, Finish,
       MeetFault, keys
<1>1. ASSUME NEW q \in Request, StartGenerate(q) PROVE Goal
  BY <1>1 DEF StartGenerate
<1>2. ASSUME NEW q \in Request, AcquireCooldown(q) PROVE Goal
  BY <1>2 DEF AcquireCooldown
<1>3. ASSUME NEW q \in Request, StoreCode(q) PROVE Goal
  BY <1>3 DEF StoreCode
<1>4. ASSUME NEW q \in Request, ResetAttempts(q) PROVE Goal
  BY <1>4 DEF ResetAttempts, ClearAttempts
<1>5. ASSUME NEW q \in Request, IncrAttempts(q) PROVE Goal
  BY <1>5 DEF IncrAttempts
<1>6. ASSUME NEW q \in Request, ExpireAttempts(q) PROVE Goal
  BY <1>6 DEF ExpireAttempts
<1>7. ASSUME NEW q \in Request, CheckLimit(q) PROVE Goal
  BY <1>7 DEF CheckLimit
<1>8. ASSUME NEW q \in Request, CompareCode(q) PROVE Goal
  BY <1>8 DEF CompareCode
<1>9. ASSUME NEW q \in Request, ConsumeCode(q) PROVE Goal
  BY <1>9 DEF ConsumeCode, ClearAttempts
<1>10. ASSUME NEW q \in Request, Fail(q) PROVE Goal
  BY <1>10 DEF Fail, InFlight
<1>11. ASSUME NEW q \in Request, NEW c \in Request \cup {None}, StartVerify(q, c) PROVE Goal
  BY <1>11 DEF StartVerify, Sent
<1>12. CASE CooldownEnds
  BY <1>12 DEF CooldownEnds
<1>13. CASE CodeExpires
  BY <1>13 DEF CodeExpires
<1>14. CASE AttemptsExpire
  BY <1>14 DEF AttemptsExpire, ClearAttempts
<1>15. CASE UNCHANGED vars
  BY <1>15 DEF vars
<1>. QED
  BY <1>1, <1>2, <1>3, <1>4, <1>5, <1>6, <1>7, <1>8, <1>9, <1>10, <1>11, <1>12, <1>13, <1>14, <1>15
  DEF Next

\* Every step keeps BudgetInv.
LEMMA BudgetStep ==
  ASSUME TypeOK, CodeInv, ResetInv, BudgetInv, [Next]_vars
  PROVE  BudgetInv'
<1>. SUFFICES ASSUME NEW g \in Request, g \notin faulted', Stragglers(g)' = {}
              PROVE  Budget(g)'
  BY DEF BudgetInv
<1>a. Budget(g)
  <2>1. CASE pc[g] = "idle"
    <3>1. Met(g) = {} /\ ~InForce(g)
      BY <2>1 DEF CodeInv, Met, InForce
    <3>. QED
      BY <3>1, FS_EmptySet, OtpAssumption DEF Budget
  <2>2. CASE pc[g] # "idle"
    BY <2>2, StragglersStay DEF BudgetInv
  <2>. QED
    BY <2>1, <2>2
<1>b. Met(g)' \subseteq IF InForce(g) THEN Charged(g) ELSE Met(g)
  BY MetStep
<1>c. TypeOK' /\ MaxAttempts \in Nat \ {0}
  BY TypeStep, OtpAssumption
<1>1. IsFiniteSet(Met(g)') /\ Cardinality(Met(g)') <= MaxAttempts
  <2>1. CASE InForce(g)
    <3>1. Cardinality(Met(g)') <= Cardinality(Charged(g)) /\ IsFiniteSet(Met(g)')
      BY <1>a, <1>b, <2>1, FS_Subset DEF Budget
    <3>2. Cardinality(Met(g)') \in Nat /\ Cardinality(Charged(g)) \in Nat
      BY <1>a, <2>1, <3>1, FS_CardinalityType DEF Budget
    <3>. QED
      BY <1>a, <1>c, <2>1, <3>1, <3>2 DEF Budget
  <2>2. CASE ~InForce(g)
    <3>1. Cardinality(Met(g)') <= Cardinality(Met(g)) /\ IsFiniteSet(Met(g)')
      BY <1>a, <1>b, <2>2, FS_Subset DEF Budget
    <3>2. Cardinality(Met(g)') \in Nat /\ Cardinality(Met(g)) \in Nat
      BY <1>a, <3>1, FS_CardinalityType DEF Budget
    <3>. QED
      BY <1>a, <1>c, <3>1, <3>2 DEF Budget
  <2>. QED
    BY <2>1, <2>2
<1>2. ASSUME InForce(g), InForce(g)'
      PROVE  /\ timer' # "early"
             /\ IsFiniteSet(Charged(g)')
             /\ Cardinality(Charged(g)') <= attempts'
             /\ Cardinality(Charged(g)') <= MaxAttempts
  <2>1. Counts(g)
    BY <1>a, <1>2, CountStep DEF Budget, InForce
  <2>2. IsFiniteSet(Charged(g)) /\ Cardinality(Charged(g)) \in Nat /\ attempts \in Nat
    BY <1>a, <1>2, FS_CardinalityType DEF Budget, TypeOK
  <2>3. ASSUME NEW T, IsFiniteSet(T), Charged(g)' \subseteq T,
               Cardinality(T) <= attempts', Cardinality(T) <= MaxAttempts
        PROVE  /\ IsFiniteSet(Charged(g)')
               /\ Cardinality(Charged(g)') <= attempts'
               /\ Cardinality(Charged(g)') <= MaxAttempts
    <3>1. IsFiniteSet(Charged(g)') /\ Cardinality(Charged(g)') <= Cardinality(T)
      BY <2>3, FS_Subset
    <3>2. Cardinality(Charged(g)') \in Nat /\ Cardinality(T) \in Nat /\ attempts' \in Nat
      BY <1>c, <2>3, <3>1, FS_CardinalityType DEF TypeOK
    <3>. QED
      BY <1>c, <2>3, <3>1, <3>2
  <2>4. CASE attempts' = attempts /\ Charged(g)' \subseteq Charged(g)
    BY <1>a, <1>2, <2>1, <2>2, <2>3, <2>4 DEF Budget, Counts
  <2>5. CASE attempts' = attempts + 1 /\ Charged(g)' \subseteq Charged(g)
    BY <1>a, <1>2, <1>c, <2>1, <2>2, <2>3, <2>5 DEF Budget, Counts
  <2>6. ASSUME NEW v \in Request, attempts' = attempts + 1, attempts < MaxAttempts,
               Charged(g)' \subseteq Charged(g) \cup {v}
        PROVE  /\ IsFiniteSet(Charged(g)')
               /\ Cardinality(Charged(g)') <= attempts'
               /\ Cardinality(Charged(g)') <= MaxAttempts
    <3>1. /\ IsFiniteSet(Charged(g) \cup {v})
          /\ \/ Cardinality(Charged(g) \cup {v}) = Cardinality(Charged(g))
             \/ Cardinality(Charged(g) \cup {v}) = Cardinality(Charged(g)) + 1
      BY <2>2, FS_AddElement
    <3>2. /\ Cardinality(Charged(g) \cup {v}) <= attempts'
          /\ Cardinality(Charged(g) \cup {v}) <= MaxAttempts
      BY <1>a, <1>2, <1>c, <2>2, <2>6, <3>1 DEF Budget
    <3>. QED
      BY <2>3, <2>6, <3>1, <3>2
  <2>. QED
    BY <2>1, <2>4, <2>5, <2>6 DEF Counts
<1>3. ASSUME ~InForce(g), InForce(g)'
      PROVE  /\ timer' # "early"
             /\ IsFiniteSet(Charged(g)')
             /\ Cardinality(Charged(g)') <= attempts'
             /\ Cardinality(Charged(g)') <= MaxAttempts
  <2>1. timer' = "none" /\ attempts' = 0 /\ Charged(g)' = {}
    BY <1>3, SendStep
  <2>. QED
    BY <1>c, <2>1, FS_EmptySet
<1>. QED
  BY <1>1, <1>2, <1>3 DEF Budget

\* A code that was sent without a failure, and that no overlapping send
\* follows, is compared with at most maxAttempts later submissions.
THEOREM BudgetHolds == Spec => []GuessBudget
<1>1. Init => ResetInv /\ BudgetInv
  BY OtpAssumption, FS_EmptySet DEF Init, ResetInv, BudgetInv, Budget, Met, InForce
<1>2. TypeOK /\ CodeInv /\ ResetInv /\ BudgetInv /\ [Next]_vars => ResetInv' /\ BudgetInv'
  BY ResetStep, BudgetStep
<1>3. TypeOK /\ CodeInv /\ ResetInv /\ BudgetInv => GuessBudget
  BY DEF BudgetInv, Budget, GuessBudget, Met, Stragglers
<1>. QED
  BY <1>1, <1>2, <1>3, CodeInvariant, PTL DEF Spec

-----------------------------------------------------------------------------
(* The other half of the budget: nobody is turned away before it is spent. *)

Begun == {q \in Request : pc[q] # "idle"}

\* Submissions that met g, failed, or will be let through by the limit.
Pending(g) ==
  tries[g] \cup {w \in Request : \/ answer[w] = "error"
                               \/ /\ pc[w] \in {"expire", "limit", "compare"}
                                  /\ count[w] <= MaxAttempts}

\* v will be turned away although it began when g had been sent.
Late(v, g) == pc[v] \in {"expire", "limit"} /\ count[v] > MaxAttempts /\ g \in before[v]

Full(g) == Cardinality(Pending(g)) >= MaxAttempts

FreshInv ==
  /\ IsFiniteSet(Begun)
  /\ \A g \in Request \ faulted : InForce(g) =>
       /\ Full(g) \/ Cardinality(Pending(g)) >= attempts
       /\ \A v \in Request : Late(v, g) => Full(g)

\* What a step does to the counter of the code in force and to those who are
\* pending on it.
Fills(g) ==
  /\ Pending(g) \subseteq Pending(g)'
  /\ \/ /\ attempts' \in {attempts, 0}
        /\ \A v \in Request : Late(v, g)' => Late(v, g)
     \/ \E q \in Request :
          /\ attempts' = attempts + 1
          /\ attempts < MaxAttempts => q \in Pending(g)' \ Pending(g)
          /\ \A v \in Request : Late(v, g)' => Late(v, g) \/ attempts >= MaxAttempts

\* No step forgets who is pending on the code in force.
LEMMA FillStep ==
  ASSUME TypeOK, CodeInv, [Next]_vars, NEW g \in Request, InForce(g), InForce(g)'
  PROVE  Fills(g)
<1>. USE OtpAssumption DEF TypeOK, Stage, Answer, CodeInv, InForce, Pending, Late, Fills, Begin, Goto,
       Finish, MeetFault, keys
<1>1. ASSUME NEW q \in Request, StartGenerate(q) PROVE Fills(g)
  BY <1>1 DEF StartGenerate
<1>2. ASSUME NEW q \in Request, AcquireCooldown(q) PROVE Fills(g)
  BY <1>2 DEF AcquireCooldown
<1>3. ASSUME NEW q \in Request, StoreCode(q) PROVE Fills(g)
  BY <1>3 DEF StoreCode
<1>4. ASSUME NEW q \in Request, ResetAttempts(q) PROVE Fills(g)
  BY <1>4 DEF ResetAttempts, ClearAttempts
<1>5. ASSUME NEW q \in Request, IncrAttempts(q) PROVE Fills(g)
  BY <1>5 DEF IncrAttempts
<1>6. ASSUME NEW q \in Request, ExpireAttempts(q) PROVE Fills(g)
  BY <1>6 DEF ExpireAttempts
<1>7. ASSUME NEW q \in Request, CheckLimit(q) PROVE Fills(g)
  BY <1>7 DEF CheckLimit
<1>8. ASSUME NEW q \in Request, CompareCode(q) PROVE Fills(g)
  BY <1>8 DEF CompareCode
<1>9. ASSUME NEW q \in Request, ConsumeCode(q) PROVE Fills(g)
  BY <1>9 DEF ConsumeCode, ClearAttempts
<1>10. ASSUME NEW q \in Request, Fail(q) PROVE Fills(g)
  BY <1>10 DEF Fail, InFlight
<1>11. ASSUME NEW q \in Request, NEW c \in Request \cup {None}, StartVerify(q, c) PROVE Fills(g)
  BY <1>11 DEF StartVerify, Sent
<1>12. CASE CooldownEnds
  BY <1>12 DEF CooldownEnds
<1>13. CASE CodeExpires
  BY <1>13 DEF CodeExpires
<1>14. CASE AttemptsExpire
  BY <1>14 DEF AttemptsExpire, ClearAttempts
<1>15. CASE UNCHANGED vars
  BY <1>15 DEF vars
<1>. QED
  BY <1>1, <1>2, <1>3, <1>4, <1>5, <1>6, <1>7, <1>8, <1>9, <1>10, <1>11, <1>12, <1>13, <1>14, <1>15
  DEF Next

\* A step begins at most one request.
LEMMA BegunStep ==
  ASSUME TypeOK, [Next]_vars, IsFiniteSet(Begun)
  PROVE  IsFiniteSet(Begun')
<1>. DEFINE Goal == \E q : Begun' \subseteq Begun \cup {q}
<1>a. Goal
  <2>. USE OtpAssumption DEF TypeOK, Stage, Begun, Begin, Goto, Finish, MeetFault, keys
  <2>1. ASSUME NEW q \in Request, StartGenerate(q) PROVE Goal
    BY <2>1 DEF StartGenerate
  <2>2. ASSUME NEW q \in Request, AcquireCooldown(q) PROVE Goal
    BY <2>2 DEF AcquireCooldown
  <2>3. ASSUME NEW q \in Request, StoreCode(q) PROVE Goal
    BY <2>3 DEF StoreCode
  <2>4. ASSUME NEW q \in Request, ResetAttempts(q) PROVE Goal
    BY <2>4 DEF ResetAttempts, ClearAttempts
  <2>5. ASSUME NEW q \in Request, IncrAttempts(q) PROVE Goal
    BY <2>5 DEF IncrAttempts
  <2>6. ASSUME NEW q \in Request, ExpireAttempts(q) PROVE Goal
    BY <2>6 DEF ExpireAttempts
  <2>7. ASSUME NEW q \in Request, CheckLimit(q) PROVE Goal
    BY <2>7 DEF CheckLimit
  <2>8. ASSUME NEW q \in Request, CompareCode(q) PROVE Goal
    BY <2>8 DEF CompareCode
  <2>9. ASSUME NEW q \in Request, ConsumeCode(q) PROVE Goal
    BY <2>9 DEF ConsumeCode, ClearAttempts
  <2>10. ASSUME NEW q \in Request, Fail(q) PROVE Goal
    BY <2>10 DEF Fail, InFlight
  <2>11. ASSUME NEW q \in Request, NEW c \in Request \cup {None}, StartVerify(q, c) PROVE Goal
    BY <2>11 DEF StartVerify, Sent
  <2>12. CASE CooldownEnds
    BY <2>12 DEF CooldownEnds
  <2>13. CASE CodeExpires
    BY <2>13 DEF CodeExpires
  <2>14. CASE AttemptsExpire
    BY <2>14 DEF AttemptsExpire, ClearAttempts
  <2>15. CASE UNCHANGED vars
    BY <2>15 DEF vars
  <2>. QED
    BY <2>1, <2>2, <2>3, <2>4, <2>5, <2>6, <2>7, <2>8, <2>9, <2>10, <2>11, <2>12, <2>13, <2>14, <2>15
    DEF Next
<1>1. PICK q : Begun' \subseteq Begun \cup {q}
  BY <1>a
<1>. QED
  BY <1>1, FS_AddElement, FS_Subset

\* When a code is sent nobody has begun who knows it.
LEMMA NobodyLate ==
  ASSUME TypeOK, CodeInv, [Next]_vars, NEW g \in Request, ~InForce(g), InForce(g)', NEW v \in Request
  PROVE  ~Late(v, g)'
<1>. DEFINE Goal == ~Late(v, g)'
<1>. USE OtpAssumption DEF TypeOK, Stage, Answer, CodeInv, InForce, Late, Begin, Goto, Finish,
       MeetFault, keys
<1>1. ASSUME NEW q \in Request, StartGenerate(q) PROVE Goal
  BY <1>1 DEF StartGenerate
<1>2. ASSUME NEW q \in Request, AcquireCooldown(q) PROVE Goal
  BY <1>2 DEF AcquireCooldown
<1>3. ASSUME NEW q \in Request, StoreCode(q) PROVE Goal
  BY <1>3 DEF StoreCode
<1>4. ASSUME NEW q \in Request, ResetAttempts(q) PROVE Goal
  BY <1>4 DEF ResetAttempts, ClearAttempts
<1>5. ASSUME NEW q \in Request, IncrAttempts(q) PROVE Goal
  BY <1>5 DEF IncrAttempts
<1>6. ASSUME NEW q \in Request, ExpireAttempts(q) PROVE Goal
  BY <1>6 DEF ExpireAttempts
<1>7. ASSUME NEW q \in Request, CheckLimit(q) PROVE Goal
  BY <1>7 DEF CheckLimit
<1>8. ASSUME NEW q \in Request, CompareCode(q) PROVE Goal
  BY <1>8 DEF CompareCode
<1>9. ASSUME NEW q \in Request, ConsumeCode(q) PROVE Goal
  BY <1>9 DEF ConsumeCode, ClearAttempts
<1>10. ASSUME NEW q \in Request, Fail(q) PROVE Goal
  BY <1>10 DEF Fail, InFlight
<1>11. ASSUME NEW q \in Request, NEW c \in Request \cup {None}, StartVerify(q, c) PROVE Goal
  BY <1>11 DEF StartVerify, Sent
<1>12. CASE CooldownEnds
  BY <1>12 DEF CooldownEnds
<1>13. CASE CodeExpires
  BY <1>13 DEF CodeExpires
<1>14. CASE AttemptsExpire
  BY <1>14 DEF AttemptsExpire, ClearAttempts
<1>15. CASE UNCHANGED vars
  BY <1>15 DEF vars
<1>. QED
  BY <1>1, <1>2, <1>3, <1>4, <1>5, <1>6, <1>7, <1>8, <1>9, <1>10, <1>11, <1>12, <1>13, <1>14, <1>15
  DEF Next

\* Who is pending on a code has begun.
LEMMA PendingFinite ==
  ASSUME TypeOK, CodeInv, IsFiniteSet(Begun), NEW g \in Request
  PROVE  IsFiniteSet(Pending(g)) /\ Cardinality(Pending(g)) \in Nat
<1>1. Pending(g) \subseteq Begun
  BY DEF TypeOK, CodeInv, Pending, Begun
<1>. QED
  BY <1>1, FS_Subset, FS_CardinalityType

\* Every step keeps FreshInv.
LEMMA FreshStep ==
  ASSUME TypeOK, CodeInv, FreshInv, [Next]_vars
  PROVE  FreshInv'
<1>a. TypeOK' /\ CodeInv' /\ IsFiniteSet(Begun') /\ IsFiniteSet(Begun)
  BY TypeStep, CodeStep, BegunStep DEF FreshInv
<1>. SUFFICES ASSUME NEW g \in Request, g \notin faulted', InForce(g)'
              PROVE  /\ Full(g)' \/ Cardinality(Pending(g)') >= attempts'
                     /\ \A v \in Request : Late(v, g)' => Full(g)'
  BY <1>a DEF FreshInv
<1>b. MaxAttempts \in Nat /\ attempts \in Nat
  BY OtpAssumption DEF TypeOK
<1>c. /\ IsFiniteSet(Pending(g)) /\ Cardinality(Pending(g)) \in Nat
      /\ IsFiniteSet(Pending(g)') /\ Cardinality(Pending(g)') \in Nat
  <2>1. Pending(g)' \subseteq Begun'
    BY <1>a DEF TypeOK, CodeInv, Pending, Begun
  <2>. QED
    BY <1>a, <2>1, PendingFinite, FS_Subset, FS_CardinalityType
<1>1. CASE ~InForce(g)
  <2>1. attempts' = 0
    BY <1>1, SendStep
  <2>. QED
    BY <1>1, <1>c, <2>1, NobodyLate
<1>2. CASE InForce(g)
  <2>1. Fills(g)
    BY <1>2, FillStep
  <2>2. g \notin faulted
    BY <1>2, StragglersStay DEF InForce, CodeInv, TypeOK
  <2>3. /\ Full(g) \/ Cardinality(Pending(g)) >= attempts
        /\ \A v \in Request : Late(v, g) => Full(g)
    BY <1>2, <2>2 DEF FreshInv
  <2>4. Cardinality(Pending(g)) <= Cardinality(Pending(g)')
    BY <1>c, <2>1, FS_Subset DEF Fills
  <2>5. Full(g) => Full(g)'
    BY <1>b, <1>c, <2>4 DEF Full
  <2>6. CASE attempts' \in {attempts, 0} /\ \A v \in Request : Late(v, g)' => Late(v, g)
    BY <1>b, <1>c, <2>3, <2>4, <2>5, <2>6
  <2>7. ASSUME NEW q \in Request, attempts' = attempts + 1,
               attempts < MaxAttempts => q \in Pending(g)' \ Pending(g),
               \A v \in Request : Late(v, g)' => Late(v, g) \/ attempts >= MaxAttempts
        PROVE  /\ Full(g)' \/ Cardinality(Pending(g)') >= attempts'
               /\ \A v \in Request : Late(v, g)' => Full(g)'
    <3>1. CASE attempts >= MaxAttempts
      <4>1. Full(g)
        BY <1>b, <1>c, <2>3, <3>1 DEF Full
      <4>. QED
        BY <2>5, <4>1
    <3>2. CASE attempts < MaxAttempts
      <4>1. Pending(g) \cup {q} \subseteq Pending(g)' /\ q \notin Pending(g)
        BY <2>1, <2>7, <3>2 DEF Fills
      <4>2. /\ IsFiniteSet(Pending(g) \cup {q})
            /\ Cardinality(Pending(g) \cup {q}) = Cardinality(Pending(g)) + 1
        BY <1>c, <4>1, FS_AddElement
      <4>3. Cardinality(Pending(g)') >= Cardinality(Pending(g)) + 1
        BY <1>c, <4>1, <4>2, FS_Subset
      <4>4. ~(attempts >= MaxAttempts)
        BY <1>b, <3>2
      <4>. QED
        BY <1>b, <1>c, <2>3, <2>5, <2>7, <4>3, <4>4
    <3>. QED
      BY <1>b, <3>1, <3>2
  <2>. QED
    BY <2>1, <2>6, <2>7 DEF Fills
<1>. QED
  BY <1>1, <1>2

\* A submission that follows the sending of the code in force is turned away
\* only when maxAttempts others have met it, are about to, or failed.
THEOREM NobodyTurnedAwayEarly == Spec => FreshBudget
<1>1. Init => FreshInv
  <2>1. Init => Begun = {} /\ \A g \in Request : ~InForce(g)
    BY DEF Init, Begun, InForce
  <2>. QED
    BY <2>1, FS_EmptySet DEF FreshInv
<1>2. TypeOK /\ CodeInv /\ FreshInv /\ [Next]_vars => FreshInv'
  BY FreshStep
<1>3. TypeOK /\ CodeInv /\ FreshInv /\ [Next]_vars =>
        [\A v \in Request :
           answer[v] # "toomany" /\ answer'[v] = "toomany"
             /\ code \in (before[v] \cap Sent) \ faulted =>
             Cardinality(tries[code] \cup {w \in Request \ {v} : InFlight(w) \/ answer[w] = "error"})
               >= MaxAttempts]_vars
  <2>. SUFFICES ASSUME TypeOK, CodeInv, FreshInv, Next, NEW v \in Request,
                       answer[v] # "toomany", answer'[v] = "toomany",
                       code \in (before[v] \cap Sent) \ faulted
                PROVE  Cardinality(tries[code] \cup
                         {w \in Request \ {v} : InFlight(w) \/ answer[w] = "error"}) >= MaxAttempts
    BY DEF vars
  <2>. DEFINE Others == tries[code] \cup {w \in Request \ {v} : InFlight(w) \/ answer[w] = "error"}
  <2>1. CheckLimit(v)
    <3>. USE OtpAssumption DEF TypeOK, Stage, Answer, Begin, Goto, Finish, MeetFault, keys
    <3>1. ASSUME NEW q \in Request,
                 \/ StartGenerate(q) \/ AcquireCooldown(q) \/ StoreCode(q) \/ ResetAttempts(q)
                 \/ \E c \in Request \cup {None} : StartVerify(q, c)
          PROVE  FALSE
      BY <3>1 DEF StartGenerate, AcquireCooldown, StoreCode, ResetAttempts, StartVerify
    <3>2. ASSUME NEW q \in Request,
                 IncrAttempts(q) \/ ExpireAttempts(q) \/ CompareCode(q) \/ ConsumeCode(q) \/ Fail(q)
          PROVE  FALSE
      BY <3>2 DEF IncrAttempts, ExpireAttempts, CompareCode, ConsumeCode, Fail
    <3>3. ASSUME NEW q \in Request, CheckLimit(q), q # v PROVE FALSE
      BY <3>3 DEF CheckLimit
    <3>4. ~(CooldownEnds \/ CodeExpires \/ AttemptsExpire)
      BY DEF CooldownEnds, CodeExpires, AttemptsExpire
    <3>. QED
      BY <3>1, <3>2, <3>3, <3>4 DEF Next
  <2>2. pc[v] = "limit" /\ count[v] > MaxAttempts
    BY <2>1, OtpAssumption DEF CheckLimit, Goto, TypeOK
  <2>3. code \in Request /\ InForce(code) /\ Late(v, code)
    BY <2>2 DEF InForce, Late, Sent, TypeOK
  <2>4. Full(code)
    BY <2>3 DEF FreshInv
  <2>5. Pending(code) \subseteq Others
    <3>1. v \notin Pending(code)
      BY <2>2, <2>3, OtpAssumption DEF Pending, CodeInv, TypeOK
    <3>. QED
      BY <2>3, <3>1 DEF Pending, InFlight, TypeOK
  <2>6. Others \subseteq Begun
    BY <2>3 DEF CodeInv, InFlight, Begun, TypeOK
  <2>7. /\ IsFiniteSet(Others) /\ Cardinality(Others) \in Nat
        /\ Cardinality(Pending(code)) \in Nat
        /\ Cardinality(Pending(code)) <= Cardinality(Others)
    BY <2>3, <2>5, <2>6, FS_Subset, FS_CardinalityType, PendingFinite DEF FreshInv
  <2>. QED
    BY <2>4, <2>7, OtpAssumption DEF Full
<1>. QED
  BY <1>1, <1>2, <1>3, CodeInvariant, PTL DEF Spec, FreshBudget

-----------------------------------------------------------------------------

\* Every step of the composition is one of Otp or leaves Redis alone.
LEMMA OtpStep == ASSUME [AccountNext]_allVars PROVE [Next]_vars
<1>1. ASSUME NEW q \in Request,
             CountExisting(q) \/ CreateUser(q) \/ FindUnverified(q) \/ Activate(q) \/ FailStatement(q)
      PROVE  StartGenerate(q) \/ UNCHANGED vars
  BY <1>1 DEF CountExisting, CreateUser, FindUnverified, Activate, FailStatement
<1>2. ASSUME NEW q \in Request, NEW c \in Request \cup {None}, Submit(q, c)
      PROVE  StartVerify(q, c)
  BY <1>2 DEF Submit
<1>3. ASSUME NEW q \in Request, RunOtp(q) PROVE Next
  BY <1>3 DEF RunOtp, Next
<1>4. EndTTL => Next
  BY DEF EndTTL, Next
<1>5. UNCHANGED allVars => UNCHANGED vars
  BY DEF allVars
<1>. QED
  BY <1>1, <1>2, <1>3, <1>4, <1>5 DEF AccountNext, Next

\* Accounts implements Otp: its requests use the codes as Otp's clients may.
THEOREM ImplementsOtp == AccountSpec => Spec
<1>1. AccountInit => Init
  BY DEF AccountInit
<1>2. [AccountNext]_allVars => [Next]_vars
  BY OtpStep
<1>. QED
  BY <1>1, <1>2, PTL DEF AccountSpec, Spec

\* Every step keeps the types.
LEMMA AccountTypeStep ==
  ASSUME AccountTypeOK, [AccountNext]_allVars
  PROVE  AccountTypeOK'
<1>a. TypeOK'
  BY OtpStep, TypeStep DEF AccountTypeOK
<1>. USE <1>a DEF AccountTypeOK, Enter, Proceed, End, accountVars
<1>1. ASSUME NEW q \in Request, CountExisting(q) PROVE AccountTypeOK'
  BY <1>1 DEF CountExisting
<1>2. ASSUME NEW q \in Request, CreateUser(q) PROVE AccountTypeOK'
  BY <1>2 DEF CreateUser
<1>3. ASSUME NEW q \in Request, FindUnverified(q) PROVE AccountTypeOK'
  BY <1>3 DEF FindUnverified
<1>4. ASSUME NEW q \in Request, Activate(q) PROVE AccountTypeOK'
  BY <1>4 DEF Activate
<1>5. ASSUME NEW q \in Request, FailStatement(q) PROVE AccountTypeOK'
  BY <1>5 DEF FailStatement
<1>6. ASSUME NEW q \in Request, NEW c \in Request \cup {None}, Submit(q, c) PROVE AccountTypeOK'
  BY <1>6 DEF Submit
<1>7. ASSUME NEW q \in Request, RunOtp(q) PROVE AccountTypeOK'
  <2>1. CASE AcquireCooldown(q)
    BY <1>7, <2>1 DEF AcquireCooldown, RunOtp
  <2>2. CASE StoreCode(q)
    BY <1>7, <2>2 DEF StoreCode, RunOtp
  <2>3. CASE ResetAttempts(q)
    BY <1>7, <2>3 DEF ResetAttempts, RunOtp
  <2>4. CASE IncrAttempts(q)
    BY <1>7, <2>4 DEF IncrAttempts, RunOtp
  <2>5. CASE ExpireAttempts(q)
    BY <1>7, <2>5 DEF ExpireAttempts, RunOtp
  <2>6. CASE CheckLimit(q)
    BY <1>7, <2>6 DEF CheckLimit, RunOtp
  <2>7. CASE CompareCode(q)
    BY <1>7, <2>7 DEF CompareCode, RunOtp
  <2>8. CASE ConsumeCode(q)
    BY <1>7, <2>8 DEF ConsumeCode, RunOtp
  <2>9. CASE Fail(q)
    BY <1>7, <2>9 DEF Fail, RunOtp
  <2>. QED
    BY <1>7, <2>1, <2>2, <2>3, <2>4, <2>5, <2>6, <2>7, <2>8, <2>9 DEF RunOtp
<1>8. CASE EndTTL
  BY <1>8 DEF EndTTL, CooldownEnds, CodeExpires, AttemptsExpire
<1>9. CASE UNCHANGED allVars
  BY <1>9 DEF allVars, vars, accountVars
<1>. QED
  BY <1>1, <1>2, <1>3, <1>4, <1>5, <1>6, <1>7, <1>8, <1>9
  DEF AccountNext

\* AccountSpec keeps every variable within its type.
THEOREM AccountTypeCorrect == AccountSpec => []AccountTypeOK
<1>1. AccountInit => AccountTypeOK
  <2>1. Init => TypeOK
    <3>1. Init => cooldown \in BOOLEAN
      BY Zenon DEF Init
    <3>. QED
      BY <3>1 DEF Init, TypeOK, Stage, Answer
  <2>. QED
    BY <2>1 DEF AccountInit, AccountTypeOK
<1>2. AccountTypeOK /\ [AccountNext]_allVars => AccountTypeOK'
  BY AccountTypeStep
<1>. QED
  BY <1>1, <1>2, PTL DEF AccountSpec

-----------------------------------------------------------------------------
\* Where a request is in Redis and in Postgres.
StageInv ==
  /\ account # None => stage[account] \in {"otp", "ended"}
  /\ account = None <=> status = "none"
  /\ account = None => code = None /\ \A q \in Request : kind[q] # "resend" \/ stage[q] = "ended"
  /\ \A q \in Request :
       /\ won[q] # None => account # None
       /\ stage[q] = "idle" <=> kind[q] = "none"
       /\ stage[q] \in {"idle", "create"} => pc[q] = "idle"
       /\ stage[q] = "create" => kind[q] = "register"
       /\ stage[q] = "otp" => pc[q] # "idle"
       /\ stage[q] = "ended" => pc[q] \in {"idle", "done"}
       /\ pc[q] \in {"acquire", "store", "reset"} => kind[q] \in {"register", "resend"}
       /\ pc[q] \in {"incr", "expire", "limit", "compare", "consume"} => kind[q] = "verify"
       /\ kind[q] = "register" /\ stage[q] = "otp" => account = q
       /\ kind[q] \in {"register", "resend"} /\ pc[q] = "done" =>
            answer[q] \in {"sent", "toosoon", "error"}
       /\ answer[q] = "error" => q \in faulted
       /\ reply[q] = "taken" => account \notin {q, None} /\ stage[q] = "ended"

AccountOK == AccountTypeOK /\ CodeInv /\ StageInv

\* Every step keeps StageInv.
LEMMA StageStep ==
  ASSUME AccountOK, [AccountNext]_allVars
  PROVE  StageInv'
<1>. USE OtpAssumption DEF AccountOK, AccountTypeOK, TypeOK, Stage, Answer, CodeInv, StageInv,
       Enter, Proceed, End, Returned, Registered, StartGenerate, StartVerify, Sent,
       Begin, Goto, Finish, MeetFault, ClearAttempts, InFlight, keys, vars, accountVars
<1>1. ASSUME NEW q \in Request, CountExisting(q) PROVE StageInv'
  BY <1>1 DEF CountExisting
<1>2. ASSUME NEW q \in Request, CreateUser(q) PROVE StageInv'
  BY <1>2 DEF CreateUser
<1>3. ASSUME NEW q \in Request, FindUnverified(q) PROVE StageInv'
  BY <1>3 DEF FindUnverified
<1>4. ASSUME NEW q \in Request, Activate(q) PROVE StageInv'
  BY <1>4 DEF Activate
<1>5. ASSUME NEW q \in Request, FailStatement(q) PROVE StageInv'
  BY <1>5 DEF FailStatement
<1>6. ASSUME NEW q \in Request, NEW c \in Request \cup {None}, Submit(q, c) PROVE StageInv'
  BY <1>6 DEF Submit
<1>7. ASSUME NEW q \in Request, RunOtp(q) PROVE StageInv'
  <2>1. CASE AcquireCooldown(q)
    BY <1>7, <2>1 DEF AcquireCooldown, RunOtp
  <2>2. CASE StoreCode(q)
    BY <1>7, <2>2 DEF StoreCode, RunOtp
  <2>3. CASE ResetAttempts(q)
    BY <1>7, <2>3 DEF ResetAttempts, RunOtp
  <2>4. CASE IncrAttempts(q)
    BY <1>7, <2>4 DEF IncrAttempts, RunOtp
  <2>5. CASE ExpireAttempts(q)
    BY <1>7, <2>5 DEF ExpireAttempts, RunOtp
  <2>6. CASE CheckLimit(q)
    BY <1>7, <2>6 DEF CheckLimit, RunOtp
  <2>7. CASE CompareCode(q)
    BY <1>7, <2>7 DEF CompareCode, RunOtp
  <2>8. CASE ConsumeCode(q)
    BY <1>7, <2>8 DEF ConsumeCode, RunOtp
  <2>9. CASE Fail(q)
    BY <1>7, <2>9 DEF Fail, RunOtp
  <2>. QED
    BY <1>7, <2>1, <2>2, <2>3, <2>4, <2>5, <2>6, <2>7, <2>8, <2>9 DEF RunOtp
<1>8. CASE EndTTL
  BY <1>8 DEF EndTTL, CooldownEnds, CodeExpires, AttemptsExpire
<1>9. CASE UNCHANGED allVars
  BY <1>9 DEF allVars, vars, accountVars
<1>. QED
  BY <1>1, <1>2, <1>3, <1>4, <1>5, <1>6, <1>7, <1>8, <1>9
  DEF AccountNext

\* AccountOK holds in every state.
LEMMA AccountInvariant == AccountSpec => []AccountOK
<1>1. AccountInit => StageInv
  BY OtpAssumption DEF AccountInit, Init, StageInv
<1>2. AccountOK /\ [AccountNext]_allVars => StageInv'
  BY StageStep
<1>. QED
  BY <1>1, <1>2, AccountTypeCorrect, ImplementsOtp, CodeInvariant, PTL DEF AccountSpec, AccountOK

\* Of the registrations that race for an identifier only the one whose row
\* stands answers success.
THEOREM RegisteredOneOwner == AccountSpec => []RegisteredOnce
<1>1. AccountOK => RegisteredOnce
  BY DEF AccountOK, StageInv, RegisteredOnce, Registered, Returned
<1>. QED
  BY <1>1, AccountInvariant, PTL

-----------------------------------------------------------------------------
\* Every step keeps SpentCodeActivates.
LEMMA SpentStepAccount ==
  ASSUME AccountOK, SpentCodeActivates, [AccountNext]_allVars
  PROVE  SpentCodeActivates'
<1>. USE OtpAssumption DEF AccountOK, AccountTypeOK, TypeOK, Stage, Answer, CodeInv, StageInv,
       SpentCodeActivates,
       Enter, Proceed, End, Returned, Registered, StartGenerate, StartVerify, Sent,
       Begin, Goto, Finish, MeetFault, ClearAttempts, InFlight, keys, vars, accountVars
<1>1. ASSUME NEW q \in Request, CountExisting(q) PROVE SpentCodeActivates'
  BY <1>1 DEF CountExisting
<1>2. ASSUME NEW q \in Request, CreateUser(q) PROVE SpentCodeActivates'
  BY <1>2 DEF CreateUser
<1>3. ASSUME NEW q \in Request, FindUnverified(q) PROVE SpentCodeActivates'
  BY <1>3 DEF FindUnverified
<1>4. ASSUME NEW q \in Request, Activate(q) PROVE SpentCodeActivates'
  BY <1>4 DEF Activate
<1>5. ASSUME NEW q \in Request, FailStatement(q) PROVE SpentCodeActivates'
  BY <1>5 DEF FailStatement
<1>6. ASSUME NEW q \in Request, NEW c \in Request \cup {None}, Submit(q, c) PROVE SpentCodeActivates'
  BY <1>6 DEF Submit
<1>7. ASSUME NEW q \in Request, RunOtp(q) PROVE SpentCodeActivates'
  <2>1. CASE AcquireCooldown(q)
    BY <1>7, <2>1 DEF AcquireCooldown, RunOtp
  <2>2. CASE StoreCode(q)
    BY <1>7, <2>2 DEF StoreCode, RunOtp
  <2>3. CASE ResetAttempts(q)
    BY <1>7, <2>3 DEF ResetAttempts, RunOtp
  <2>4. CASE IncrAttempts(q)
    BY <1>7, <2>4 DEF IncrAttempts, RunOtp
  <2>5. CASE ExpireAttempts(q)
    BY <1>7, <2>5 DEF ExpireAttempts, RunOtp
  <2>6. CASE CheckLimit(q)
    BY <1>7, <2>6 DEF CheckLimit, RunOtp
  <2>7. CASE CompareCode(q)
    BY <1>7, <2>7 DEF CompareCode, RunOtp
  <2>8. CASE ConsumeCode(q)
    BY <1>7, <2>8 DEF ConsumeCode, RunOtp
  <2>9. CASE Fail(q)
    BY <1>7, <2>9 DEF Fail, RunOtp
  <2>. QED
    BY <1>7, <2>1, <2>2, <2>3, <2>4, <2>5, <2>6, <2>7, <2>8, <2>9 DEF RunOtp
<1>8. CASE EndTTL
  BY <1>8 DEF EndTTL, CooldownEnds, CodeExpires, AttemptsExpire
<1>9. CASE UNCHANGED allVars
  BY <1>9 DEF allVars, vars, accountVars
<1>. QED
  BY <1>1, <1>2, <1>3, <1>4, <1>5, <1>6, <1>7, <1>8, <1>9
  DEF AccountNext

\* The account is active only by a code that was sent for it, and pending only
\* until the submission that matched one is through, or failed.
THEOREM ActivatedByCode == AccountSpec => []SpentCodeActivates
<1>1. AccountInit => SpentCodeActivates
  BY DEF AccountInit, Init, SpentCodeActivates
<1>2. AccountOK /\ SpentCodeActivates /\ [AccountNext]_allVars => SpentCodeActivates'
  BY SpentStepAccount
<1>. QED
  BY <1>1, <1>2, AccountInvariant, PTL DEF AccountSpec

-----------------------------------------------------------------------------
\* Who set the cooldown sends a code, has sent it, or failed.
CooldownInv ==
  /\ cooldown => \E g \in Request :
       /\ kind[g] \in {"register", "resend"} /\ stage[g] = "otp"
       /\ pc[g] \in {"store", "reset"} \/ answer[g] = "sent" \/ g \in faulted
  /\ RegisterSendsCode

\* Every step keeps CooldownInv.
LEMMA CooldownStep ==
  ASSUME AccountOK, CooldownInv, [AccountNext]_allVars
  PROVE  CooldownInv'
<1>. USE OtpAssumption DEF AccountOK, AccountTypeOK, TypeOK, Stage, Answer, CodeInv, StageInv,
       CooldownInv, RegisterSendsCode,
       Enter, Proceed, End, Returned, Registered, StartGenerate, StartVerify, Sent,
       Begin, Goto, Finish, MeetFault, ClearAttempts, InFlight, keys, vars, accountVars
<1>1. ASSUME NEW q \in Request, CountExisting(q) PROVE CooldownInv'
  BY <1>1 DEF CountExisting
<1>2. ASSUME NEW q \in Request, CreateUser(q) PROVE CooldownInv'
  BY <1>2 DEF CreateUser
<1>3. ASSUME NEW q \in Request, FindUnverified(q) PROVE CooldownInv'
  BY <1>3 DEF FindUnverified
<1>4. ASSUME NEW q \in Request, Activate(q) PROVE CooldownInv'
  BY <1>4 DEF Activate
<1>5. ASSUME NEW q \in Request, FailStatement(q) PROVE CooldownInv'
  BY <1>5 DEF FailStatement
<1>6. ASSUME NEW q \in Request, NEW c \in Request \cup {None}, Submit(q, c) PROVE CooldownInv'
  BY <1>6 DEF Submit
<1>7. ASSUME NEW q \in Request, RunOtp(q) PROVE CooldownInv'
  <2>1. CASE AcquireCooldown(q)
    BY <1>7, <2>1 DEF AcquireCooldown, RunOtp
  <2>2. CASE StoreCode(q)
    BY <1>7, <2>2 DEF StoreCode, RunOtp
  <2>3. CASE ResetAttempts(q)
    BY <1>7, <2>3 DEF ResetAttempts, RunOtp
  <2>4. CASE IncrAttempts(q)
    BY <1>7, <2>4 DEF IncrAttempts, RunOtp
  <2>5. CASE ExpireAttempts(q)
    BY <1>7, <2>5 DEF ExpireAttempts, RunOtp
  <2>6. CASE CheckLimit(q)
    BY <1>7, <2>6 DEF CheckLimit, RunOtp
  <2>7. CASE CompareCode(q)
    BY <1>7, <2>7 DEF CompareCode, RunOtp
  <2>8. CASE ConsumeCode(q)
    BY <1>7, <2>8 DEF ConsumeCode, RunOtp
  <2>9. CASE Fail(q)
    BY <1>7, <2>9 DEF Fail, RunOtp
  <2>. QED
    BY <1>7, <2>1, <2>2, <2>3, <2>4, <2>5, <2>6, <2>7, <2>8, <2>9 DEF RunOtp
<1>8. CASE EndTTL
  BY <1>8 DEF EndTTL, CooldownEnds, CodeExpires, AttemptsExpire
<1>9. CASE UNCHANGED allVars
  BY <1>9 DEF allVars, vars, accountVars
<1>. QED
  BY <1>1, <1>2, <1>3, <1>4, <1>5, <1>6, <1>7, <1>8, <1>9
  DEF AccountNext

\* A registration that answers success has sent its code, but for a failure of
\* Redis or a resend that overtook it.
THEOREM RegistrationSends == AccountSpec => []RegisterSendsCode
<1>1. AccountInit => CooldownInv
  BY DEF AccountInit, Init, CooldownInv, RegisterSendsCode, Registered, Returned
<1>2. AccountOK /\ CooldownInv /\ [AccountNext]_allVars => CooldownInv'
  BY CooldownStep
<1>3. CooldownInv => RegisterSendsCode
  BY DEF CooldownInv
<1>. QED
  BY <1>1, <1>2, <1>3, AccountInvariant, PTL DEF AccountSpec

\* What is proved of Otp holds of its codes in the composition, too.
THEOREM BudgetsCarryOver ==
  AccountSpec => /\ [](GuessBudget /\ CounterExpires /\ AcceptedTwiceOnlyByOverlap)
                 /\ FreshBudget /\ CodeGoesForCause
BY ImplementsOtp, BudgetHolds, CounterHasTTL, AcceptedTwice, NobodyTurnedAwayEarly, GoneForCause, PTL
=============================================================================
