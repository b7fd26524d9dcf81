------------------------------ MODULE KeysProofs ------------------------------
(***************************************************************************)
(* Proofs about Keys, for every set of devices, key ids, uploads and       *)
(* fetches.  A fetch touches nothing of the uploads and an upload nothing  *)
(* of the fetches, so each invariant needs the steps of one side in detail *)
(* only: UploadInv is about signed prekeys, ClaimInv about the one-time    *)
(* key a fetch has in hand.                                                *)
(***************************************************************************)
EXTENDS Keys, TLAPS

UploadStep(u) ==
  \/ \E m \in Material : StartUpload(u, m)
  \/ UpsertIdentity(u) \/ DeactivateSigned(u)
  \/ InsertSigned(u) \/ InsertOneTime(u) \/ FailUpload(u)

FetchStep(f) ==
  \/ \E ds \in SUBSET Device : StartFetch(f, ds)
  \/ \E d \in Device : ReadIdentity(f, d)
  \/ ReadSigned(f) \/ LockOneTime(f) \/ MarkUsed(f)
  \/ EndFetch(f) \/ FailFetch(f)

\* A fetch leaves everything of the uploads alone.
LEMMA FetchFrame ==
  ASSUME NEW f \in Fetch, FetchStep(f)
  PROVE  UNCHANGED <<identity, signed, maker, upc, what, uans, before>>
BY DEF FetchStep, StartFetch, ReadIdentity, ReadSigned, LockOneTime, MarkUsed,
       EndFetch, FailFetch, uploadVars

\* An upload leaves everything of the fetches alone.
LEMMA UploadFrame ==
  ASSUME NEW u \in Upload, UploadStep(u)
  PROVE  UNCHANGED <<fpc, todo, cur, got, fans, over>>
BY DEF UploadStep, StartUpload, UpsertIdentity, DeactivateSigned, InsertSigned,
       InsertOneTime, FailUpload, fetchVars

\* Writing one entry of a table of tables.
LEMMA TableUpdate ==
  ASSUME NEW S, NEW T, NEW V, NEW g \in [S -> [T -> V]],
         NEW d \in S, NEW k \in T, NEW v \in V
  PROVE  /\ [g EXCEPT ![d][k] = v] \in [S -> [T -> V]]
         /\ \A e \in S, j \in T :
              [g EXCEPT ![d][k] = v][e][j] = IF e = d /\ j = k THEN v ELSE g[e][j]
OBVIOUS

-----------------------------------------------------------------------------
\* The uploads' side of the types: an active or old signed prekey has its
\* upload, and an upload under way its material.
UploadOK ==
  /\ identity \in [Device -> Ident \cup {None}]
  /\ signed \in [Device -> [KeyId -> {"absent", "active", "old"}]]
  /\ maker \in [Device -> [KeyId -> Upload \cup {None}]]
  /\ onetime \in [Device -> [KeyId -> {"absent", "unused", "used"}]]
  /\ upc \in [Upload -> {"idle", "identity", "deactivate", "insert", "onetime", "done"}]
  /\ what \in [Upload -> Material \cup {None}]
  /\ uans \in [Upload -> {"none", "ok", "error"}]
  /\ before \in [Upload -> SUBSET Upload]
  /\ \A u \in Upload :
       /\ upc[u] # "idle" => what[u] \in Material
       /\ upc[u] \in {"deactivate", "insert"} => what[u].spk \in KeyId
  /\ \A d \in Device, k \in KeyId :
       signed[d][k] # "absent" => /\ maker[d][k] \in Upload
                                 /\ upc[maker[d][k]] # "idle"

\* The fetches' side: what is in hand of one, as far as its bundle is built.
FetchOK ==
  /\ fpc \in [Fetch -> {"idle", "loop", "signed", "claim", "mark", "done"}]
  /\ todo \in [Fetch -> SUBSET Device]
  /\ cur \in [Fetch -> Partial]
  /\ got \in [Fetch -> SUBSET Bundle]
  /\ fans \in [Fetch -> {"none", "ok", "nokeys", "error"}]
  /\ over \in [Fetch -> SUBSET Upload]
  /\ \A f \in Fetch :
       /\ fpc[f] = "signed" => /\ cur[f].dev \in Device
                              /\ cur[f].ident \in Ident
                              /\ cur[f].otk = None
       /\ fpc[f] = "claim" => cur[f] \in Bundle /\ cur[f].otk = None
       /\ fpc[f] = "mark" => cur[f] \in Bundle /\ cur[f].otk \in KeyId

\* Every step of an upload keeps its side of the types.
LEMMA UploadTypes ==
  ASSUME UploadOK, NEW u \in Upload, UploadStep(u)
  PROVE  UploadOK'
<1>. USE KeysAssumption DEF UploadOK, UGoto, UFinish
<1>1. ASSUME NEW m \in Material, StartUpload(u, m) PROVE UploadOK'
  BY <1>1 DEF StartUpload, Material
<1>2. CASE UpsertIdentity(u)
  BY <1>2 DEF UpsertIdentity, Material
<1>3. CASE DeactivateSigned(u)
  BY <1>3 DEF DeactivateSigned, Material
<1>4. CASE InsertSigned(u)
  <2>. DEFINE d == what[u].dev
              k == what[u].spk
  <2>1. d \in Device /\ k \in KeyId
    BY <1>4 DEF InsertSigned, Material
  <2>2. CASE signed[d][k] = "absent"
    <3>1. signed' = [signed EXCEPT ![d][k] = "active"] /\ maker' = [maker EXCEPT ![d][k] = u]
      BY <1>4, <2>2 DEF InsertSigned
    <3>2. signed' \in [Device -> [KeyId -> {"absent", "active", "old"}]]
      BY <2>1, <3>1, TableUpdate
    <3>3. maker' \in [Device -> [KeyId -> Upload \cup {None}]]
      BY <2>1, <3>1, TableUpdate
    <3>4. \A e \in Device, j \in KeyId :
            /\ e # d \/ j # k => signed'[e][j] = signed[e][j] /\ maker'[e][j] = maker[e][j]
            /\ e = d /\ j = k => maker'[e][j] = u
      BY <2>1, <3>1, TableUpdate
    <3>5. /\ upc[u] = "insert" /\ upc' = [upc EXCEPT ![u] = "onetime"]
          /\ UNCHANGED <<identity, onetime, what, uans, before>>
      BY <1>4, <2>2 DEF InsertSigned
    <3>. HIDE DEF d, k
    <3>. QED
      BY <3>2, <3>3, <3>4, <3>5
  <2>3. CASE signed[d][k] # "absent"
    <3>1. /\ upc[u] = "insert" /\ upc' = [upc EXCEPT ![u] = "done"]
          /\ uans' = [uans EXCEPT ![u] = "error"]
          /\ UNCHANGED <<identity, signed, maker, onetime, what, before>>
      BY <1>4, <2>3 DEF InsertSigned
    <3>. HIDE DEF d, k
    <3>. QED
      BY <3>1
  <2>. QED
    BY <2>2, <2>3
<1>5. CASE InsertOneTime(u)
  <2>. DEFINE row == [k \in KeyId |-> IF k \in what[u].otks THEN "unused"
                                     ELSE onetime[what[u].dev][k]]
  <2>1. what[u].dev \in Device
    BY <1>5 DEF InsertOneTime, Material
  <2>2. row \in [KeyId -> {"absent", "unused", "used"}]
    BY <2>1
  <2>3. onetime' = [onetime EXCEPT ![what[u].dev] = row] \/ UNCHANGED onetime
    BY <1>5, <2>1 DEF InsertOneTime
  <2>4. onetime' \in [Device -> [KeyId -> {"absent", "unused", "used"}]]
    <3>. HIDE DEF row
    <3>. QED
      BY <2>1, <2>2, <2>3
  <2>5. /\ upc[u] = "onetime" /\ upc' = [upc EXCEPT ![u] = "done"]
        /\ uans' = [uans EXCEPT ![u] = "ok"] \/ uans' = [uans EXCEPT ![u] = "error"]
        /\ UNCHANGED <<identity, signed, maker, what, before>>
    BY <1>5 DEF InsertOneTime
  <2>. QED
    BY <2>4, <2>5
<1>6. CASE FailUpload(u)
  BY <1>6 DEF FailUpload, Uploading
<1>. QED
  BY <1>1, <1>2, <1>3, <1>4, <1>5, <1>6 DEF UploadStep

\* Every step of a fetch keeps the types of both sides.
LEMMA FetchTypes ==
  ASSUME UploadOK, FetchOK, NEW f \in Fetch, FetchStep(f)
  PROVE  UploadOK' /\ FetchOK'
<1>1. UploadOK'
  <2>1. onetime' \in [Device -> [KeyId -> {"absent", "unused", "used"}]]
    <3>1. CASE MarkUsed(f)
      BY <3>1 DEF MarkUsed, UploadOK, FetchOK, Bundle
    <3>. QED
      BY <3>1 DEF UploadOK, FetchStep, StartFetch, ReadIdentity, ReadSigned, LockOneTime,
        EndFetch, FailFetch
  <2>. QED
    BY <2>1, FetchFrame DEF UploadOK
<1>2. FetchOK'
  <2>. USE KeysAssumption DEF FetchOK, FGoto, FFail
  <2>1. ASSUME NEW ds \in SUBSET Device, StartFetch(f, ds) PROVE FetchOK'
    BY <2>1 DEF StartFetch
  <2>2. ASSUME NEW d \in Device, ReadIdentity(f, d) PROVE FetchOK'
    <3>1. CASE identity[d] = None
      BY <2>2, <3>1 DEF ReadIdentity
    <3>2. CASE identity[d] # None
      <4>1. /\ cur' = [cur EXCEPT ![f] = [NoBundle EXCEPT !.dev = d, !.ident = identity[d]]]
            /\ fpc' = [fpc EXCEPT ![f] = "signed"]
            /\ todo' = [todo EXCEPT ![f] = @ \ {d}]
            /\ UNCHANGED <<got, fans, over>>
        BY <2>2, <3>2 DEF ReadIdentity
      <4>2. identity[d] \in Ident
        BY <3>2 DEF UploadOK
      <4>3. LET b == [NoBundle EXCEPT !.dev = d, !.ident = identity[d]]
            IN  b \in Partial /\ b.dev \in Device /\ b.ident \in Ident /\ b.otk = None
        BY <4>2 DEF NoBundle, Partial
      <4>. QED
        BY <4>1, <4>3
    <3>. QED
      BY <3>1, <3>2
  <2>3. CASE ReadSigned(f)
    <3>1. CASE NextDevice(f, {})
      BY <2>3, <3>1 DEF ReadSigned, NextDevice, NoBundle, Partial
    <3>2. ASSUME NEW k \in KeyId, signed[cur[f].dev][k] = "active",
                 cur' = [cur EXCEPT ![f].spk = k,
                                    ![f].signer = what[maker[cur[f].dev][k]].ident],
                 FGoto(f, "claim"), UNCHANGED got
          PROVE  FetchOK'
      <4>1. what[maker[cur[f].dev][k]].ident \in Ident
        <5>1. cur[f].dev \in Device
          BY <2>3 DEF ReadSigned
        <5>2. maker[cur[f].dev][k] \in Upload /\ what[maker[cur[f].dev][k]] \in Material
          BY <3>2, <5>1 DEF UploadOK
        <5>. QED
          BY <5>2 DEF Material
      <4>2. cur'[f] \in Bundle /\ cur'[f] \in Partial /\ cur'[f].otk = None
        <5>1. cur[f] \in Partial /\ cur[f].dev \in Device /\ cur[f].ident \in Ident
              /\ cur[f].otk = None
          BY <2>3 DEF ReadSigned
        <5>2. cur'[f] = [cur[f] EXCEPT !.spk = k, !.signer = what[maker[cur[f].dev][k]].ident]
          BY <3>2
        <5>. QED
          BY <4>1, <5>1, <5>2 DEF Bundle, Partial
      <4>. QED
        BY <2>3, <3>2, <4>2 DEF ReadSigned
    <3>. QED
      BY <2>3, <3>1, <3>2 DEF ReadSigned
  <2>4. CASE LockOneTime(f)
    <3>1. ASSUME NEW k \in Claimable(cur[f].dev), cur' = [cur EXCEPT ![f].otk = k],
                 FGoto(f, "mark"), UNCHANGED got
          PROVE  FetchOK'
      <4>1. cur'[f] \in Bundle /\ cur'[f] \in Partial /\ cur'[f].otk \in KeyId
        BY <2>4, <3>1 DEF LockOneTime, Claimable, Bundle, Partial
      <4>. QED
        BY <2>4, <3>1, <4>1 DEF LockOneTime
    <3>2. CASE NextDevice(f, {cur[f]})
      BY <2>4, <3>2 DEF LockOneTime, NextDevice, NoBundle, Partial
    <3>. QED
      BY <2>4, <3>1, <3>2 DEF LockOneTime
  <2>5. CASE MarkUsed(f)
    <3>1. CASE NextDevice(f, {cur[f]}) /\ UNCHANGED fans
      BY <2>5, <3>1 DEF MarkUsed, NextDevice, NoBundle, Partial
    <3>2. CASE FFail(f) /\ UNCHANGED <<cur, got>>
      BY <2>5, <3>2 DEF MarkUsed
    <3>. QED
      BY <2>5, <3>1, <3>2 DEF MarkUsed
  <2>6. CASE EndFetch(f)
    BY <2>6 DEF EndFetch
  <2>7. CASE FailFetch(f)
    BY <2>7 DEF FailFetch, Fetching
  <2>. QED
    BY <2>1, <2>2, <2>3, <2>4, <2>5, <2>6, <2>7 DEF FetchStep
<1>. QED
  BY <1>1, <1>2

\* Both sides of the types, of every reachable state.
LEMMA TypedAlways == Spec => [](UploadOK /\ FetchOK)
<1>1. Init => UploadOK /\ FetchOK
  BY KeysAssumption DEF Init, UploadOK, FetchOK, Partial, NoBundle
<1>2. UploadOK /\ FetchOK /\ [Next]_vars => (UploadOK /\ FetchOK)'
  <2>1. ASSUME UploadOK, FetchOK, NEW u \in Upload, UploadStep(u)
        PROVE  (UploadOK /\ FetchOK)'
    BY <2>1, UploadTypes, UploadFrame DEF FetchOK
  <2>2. ASSUME UploadOK, FetchOK, NEW f \in Fetch, FetchStep(f)
        PROVE  (UploadOK /\ FetchOK)'
    BY <2>2, FetchTypes
  <2>3. ASSUME UploadOK, FetchOK, UNCHANGED vars
        PROVE  (UploadOK /\ FetchOK)'
    BY <2>3 DEF UploadOK, FetchOK, vars, uploadVars, fetchVars
  <2>. QED
    BY <2>1, <2>2, <2>3 DEF Next, UploadStep, FetchStep
<1>. QED
  BY <1>1, <1>2, PTL DEF Spec

\* Spec keeps every variable within its type.
THEOREM TypeCorrect == Spec => []TypeOK
<1>1. UploadOK /\ FetchOK => TypeOK
  BY DEF UploadOK, FetchOK, TypeOK
<1>. QED
  BY <1>1, TypedAlways, PTL

-----------------------------------------------------------------------------
\* What one step of an upload does to the uploads' own progress.
LEMMA UploadTurn ==
  ASSUME UploadOK, NEW u \in Upload, UploadStep(u)
  PROVE  /\ upc[u] # "done" /\ upc'[u] # "idle"
         /\ \A v \in Upload \ {u} : /\ upc'[v] = upc[v] /\ what'[v] = what[v]
                                    /\ uans'[v] = uans[v] /\ before'[v] = before[v]
         /\ upc[u] # "idle" => what'[u] = what[u] /\ before'[u] = before[u]
         /\ upc[u] = "idle" => before'[u] = {v \in Upload : upc[v] = "done"}
         /\ uans'[u] # uans[u] => upc'[u] = "done"
BY DEF UploadOK, UploadStep, StartUpload, UpsertIdentity, DeactivateSigned, InsertSigned,
       InsertOneTime, FailUpload, Uploading, UGoto, UFinish

\* What it does to the signed prekeys: nothing, or it deactivates those of its
\* device, or it inserts one.
LEMMA SignedTurn ==
  ASSUME UploadOK, NEW u \in Upload, UploadStep(u)
  PROVE  \/ /\ UNCHANGED <<signed, maker>>
            /\ upc'[u] # "insert"
            /\ upc[u] = "insert" => upc'[u] = "done" /\ uans'[u] = "error"
         \/ /\ UNCHANGED maker
            /\ upc[u] = "deactivate" /\ upc'[u] = "insert"
            /\ \A j \in KeyId : /\ signed'[what[u].dev][j] # "active"
                                /\ signed[what[u].dev][j] = "old" => signed'[what[u].dev][j] = "old"
            /\ \A e \in Device \ {what[u].dev} : signed'[e] = signed[e]
         \/ /\ upc[u] = "insert" /\ upc'[u] = "onetime"
            /\ what[u].dev \in Device /\ what[u].spk \in KeyId
            /\ signed[what[u].dev][what[u].spk] = "absent"
            /\ \A e \in Device, j \in KeyId :
                 IF e = what[u].dev /\ j = what[u].spk
                   THEN signed'[e][j] = "active" /\ maker'[e][j] = u
                   ELSE signed'[e][j] = signed[e][j] /\ maker'[e][j] = maker[e][j]
<1>1. CASE InsertSigned(u)
  <2>. DEFINE d == what[u].dev
              k == what[u].spk
  <2>1. d \in Device /\ k \in KeyId /\ upc[u] = "insert"
    BY <1>1 DEF InsertSigned, UploadOK, Material
  <2>2. CASE signed[d][k] = "absent"
    <3>1. signed' = [signed EXCEPT ![d][k] = "active"] /\ maker' = [maker EXCEPT ![d][k] = u]
      BY <1>1, <2>2 DEF InsertSigned
    <3>2. \A e \in Device, j \in KeyId :
            /\ signed'[e][j] = IF e = d /\ j = k THEN "active" ELSE signed[e][j]
            /\ maker'[e][j] = IF e = d /\ j = k THEN u ELSE maker[e][j]
      BY <2>1, <3>1, TableUpdate DEF UploadOK
    <3>3. upc'[u] = "onetime"
      BY <1>1, <2>2 DEF InsertSigned, UGoto, UploadOK
    <3>. QED
      BY <2>1, <2>2, <3>2, <3>3
  <2>3. CASE signed[d][k] # "absent"
    BY <1>1, <2>3 DEF InsertSigned, UGoto, UFinish, UploadOK
  <2>. QED
    BY <2>2, <2>3
<1>2. CASE DeactivateSigned(u)
  <2>1. what[u].dev \in Device /\ upc[u] = "deactivate" /\ upc'[u] = "insert"
    BY <1>2 DEF DeactivateSigned, UGoto, UploadOK, Material
  <2>2. /\ UNCHANGED maker
        /\ \A e \in Device \ {what[u].dev} : signed'[e] = signed[e]
        /\ signed'[what[u].dev] = [j \in KeyId |->
             IF signed[what[u].dev][j] = "active" THEN "old" ELSE signed[what[u].dev][j]]
    BY <1>2, <2>1 DEF DeactivateSigned, UploadOK
  <2>. QED
    BY <2>1, <2>2
<1>3. CASE UpsertIdentity(u) \/ InsertOneTime(u) \/ FailUpload(u)
  BY <1>3 DEF UpsertIdentity, InsertOneTime, FailUpload, UGoto, UFinish, UploadOK
<1>4. ASSUME NEW m \in Material, StartUpload(u, m)
      PROVE  UNCHANGED <<signed, maker>> /\ upc'[u] # "insert" /\ upc[u] # "insert"
  BY <1>4 DEF StartUpload, UGoto, UploadOK
<1>. QED
  BY <1>1, <1>2, <1>3, <1>4 DEF UploadStep

\* Uploads that are over stay over; what an upload about to insert found active
\* since it deactivated comes from uploads that were not over when it began.
UploadHistory ==
  \A u \in Upload :
    /\ uans[u] # "none" => upc[u] = "done"
    /\ \A v \in before[u] : upc[v] = "done"
    /\ upc[u] = "insert" =>
         \A k \in KeyId : signed[what[u].dev][k] = "active" =>
                           maker[what[u].dev][k] \notin before[u]

\* A device keeps an active signed prekey but for the gap of an upload that
\* deactivated and has not inserted, or that failed in the gap.
PrekeyGap ==
  \A d \in Device :
    \/ \A k \in KeyId : signed[d][k] = "absent"
    \/ \E k \in KeyId : signed[d][k] = "active"
    \/ \E u \in Upload : upc[u] = "insert" /\ what[u].dev = d
    \/ \E u \in Upload : upc[u] = "done" /\ uans[u] = "error" /\ what[u].dev = d

UploadInv == UploadHistory /\ PrekeyGap /\ TwoActiveOnlyByOverlap

\* Every step of an upload keeps UploadInv.
LEMMA UploadInvStep ==
  ASSUME UploadOK, UploadInv, NEW u \in Upload, UploadStep(u)
  PROVE  UploadInv'
<1>1. UploadHistory'
  <2>1. \A v \in Upload : uans'[v] # "none" => upc'[v] = "done"
    BY UploadTurn DEF UploadInv, UploadHistory
  <2>2. \A v \in Upload : \A w \in before'[v] : upc'[w] = "done"
    BY UploadTurn DEF UploadInv, UploadHistory, UploadOK
  <2>3. ASSUME NEW v \in Upload, upc'[v] = "insert", NEW k \in KeyId,
               signed'[what'[v].dev][k] = "active"
        PROVE  maker'[what'[v].dev][k] \notin before'[v]
    <3>1. what'[v] = what[v] /\ before'[v] = before[v] /\ what[v].dev \in Device
      BY <2>3, UploadTurn, SignedTurn DEF UploadOK, Material
    <3>2. CASE v = u
      BY <2>3, <3>1, <3>2, SignedTurn
    <3>3. CASE v # u
      <4>1. upc[v] = "insert"
        BY <2>3, <3>3, UploadTurn
      <4>2. u \notin before[v]
        BY UploadTurn DEF UploadInv, UploadHistory
      <4>. QED
        BY <2>3, <3>1, <4>1, <4>2, SignedTurn DEF UploadInv, UploadHistory
    <3>. QED
      BY <3>2, <3>3
  <2>. QED
    BY <2>1, <2>2, <2>3 DEF UploadHistory
<1>2. PrekeyGap'
  <2>. SUFFICES ASSUME NEW d \in Device
                PROVE  \/ \A k \in KeyId : signed'[d][k] = "absent"
                       \/ \E k \in KeyId : signed'[d][k] = "active"
                       \/ \E v \in Upload : upc'[v] = "insert" /\ what'[v].dev = d
                       \/ \E v \in Upload : upc'[v] = "done" /\ uans'[v] = "error" /\ what'[v].dev = d
    BY DEF PrekeyGap
  <2>1. \A v \in Upload : upc[v] # "idle" => what'[v] = what[v]
    BY UploadTurn
  <2>2. \A v \in Upload : upc[v] = "done" => upc'[v] = "done" /\ uans'[v] = uans[v]
    BY UploadTurn
  <2>3. \A v \in Upload \ {u} : upc'[v] = upc[v]
    BY UploadTurn
  <2>4. CASE UNCHANGED <<signed, maker>>
    BY <2>1, <2>2, <2>3, <2>4, SignedTurn DEF UploadInv, PrekeyGap
  <2>5. CASE upc[u] = "deactivate"
    BY <2>1, <2>2, <2>3, <2>5, SignedTurn DEF UploadInv, PrekeyGap
  <2>6. CASE upc[u] = "insert" /\ upc'[u] = "onetime"
    BY <2>1, <2>2, <2>3, <2>6, SignedTurn DEF UploadInv, PrekeyGap
  <2>. QED
    BY <2>4, <2>5, <2>6, SignedTurn
<1>3. TwoActiveOnlyByOverlap'
  <2>. SUFFICES ASSUME NEW d \in Device, NEW j \in KeyId, NEW k \in KeyId, j # k,
                       signed'[d][j] = "active", signed'[d][k] = "active"
                PROVE  maker'[d][j] \notin before'[maker'[d][k]]
    BY DEF TwoActiveOnlyByOverlap
  <2>1. \A v \in Upload : upc[v] # "idle" => before'[v] = before[v]
    BY UploadTurn
  <2>2. \A i \in KeyId : signed[d][i] = "active" =>
          maker[d][i] \in Upload /\ upc[maker[d][i]] # "idle"
    BY DEF UploadOK
  <2>3. CASE signed[d][j] = "active" /\ signed[d][k] = "active"
    BY <2>1, <2>2, <2>3, SignedTurn DEF UploadInv, TwoActiveOnlyByOverlap
  <2>4. CASE signed[d][k] = "active" /\ signed[d][j] # "active"
    <3>1. maker'[d][j] = u /\ maker'[d][k] = maker[d][k]
      BY <2>4, SignedTurn
    <3>2. u \notin before[maker[d][k]]
      BY <2>2, <2>4, UploadTurn DEF UploadInv, UploadHistory
    <3>. QED
      BY <2>1, <2>2, <2>4, <3>1, <3>2
  <2>5. CASE signed[d][j] = "active" /\ signed[d][k] # "active"
    <3>1. /\ maker'[d][k] = u /\ maker'[d][j] = maker[d][j]
          /\ upc[u] = "insert" /\ what[u].dev = d
      BY <2>5, SignedTurn
    <3>. QED
      BY <2>1, <2>5, <3>1 DEF UploadInv, UploadHistory
  <2>6. CASE signed[d][j] # "active" /\ signed[d][k] # "active"
    BY <2>6, SignedTurn
  <2>. QED
    BY <2>3, <2>4, <2>5, <2>6
<1>. QED
  BY <1>1, <1>2, <1>3 DEF UploadInv

\* UploadInv of every reachable state.
LEMMA UploadInvariant == Spec => []UploadInv
<1>1. Init => UploadInv
  BY DEF Init, UploadInv, UploadHistory, PrekeyGap, TwoActiveOnlyByOverlap
<1>2. UploadOK /\ UploadInv /\ [Next]_vars => UploadInv'
  <2>1. ASSUME UploadInv, UNCHANGED <<signed, maker, upc, what, uans, before>>
        PROVE  UploadInv'
    BY <2>1 DEF UploadInv, UploadHistory, PrekeyGap, TwoActiveOnlyByOverlap
  <2>2. UNCHANGED vars => UNCHANGED <<signed, maker, upc, what, uans, before>>
    BY DEF vars, uploadVars
  <2>. QED
    BY <2>1, <2>2, UploadInvStep, FetchFrame DEF Next, UploadStep, FetchStep
<1>. QED
  BY <1>1, <1>2, TypedAlways, PTL DEF Spec

\* Two signed prekeys of one device are active only if their uploads overlapped.
THEOREM TwoActiveNeedsOverlap == Spec => []TwoActiveOnlyByOverlap
<1>1. UploadInv => TwoActiveOnlyByOverlap
  BY DEF UploadInv
<1>. QED
  BY <1>1, UploadInvariant, PTL

\* Overlapping uploads alone never leave a device without its signed prekey.
THEOREM PrekeyLossNeedsError == Spec => []PrekeyLostOnlyByError
<1>1. UploadOK /\ UploadInv => PrekeyLostOnlyByError
  <2>. SUFFICES ASSUME UploadOK, UploadInv, NEW d \in Device
                PROVE  PrekeyStands(d) \/ \E u \in Upload :
                         what[u] # None /\ what[u].dev = d /\ uans[u] = "error"
    BY DEF PrekeyLostOnlyByError
  <2>1. \A u \in Upload : upc[u] = "done" => what[u] # None
    BY KeysAssumption DEF UploadOK
  <2>. QED
    BY <2>1 DEF UploadInv, PrekeyGap, PrekeyStands, Uploading
<1>. QED
  BY <1>1, TypedAlways, UploadInvariant, PTL

-----------------------------------------------------------------------------
\* An upload adds one-time keys and changes none that is there.
LEMMA OneTimeAdded ==
  ASSUME UploadOK, NEW u \in Upload, UploadStep(u), NEW d \in Device, NEW k \in KeyId
  PROVE  /\ onetime[d][k] # "absent" => onetime'[d][k] = onetime[d][k]
         /\ onetime[d][k] = "absent" => onetime'[d][k] # "used"
<1>1. CASE InsertOneTime(u)
  <2>. DEFINE row == [j \in KeyId |-> IF j \in what[u].otks THEN "unused"
                                     ELSE onetime[what[u].dev][j]]
  <2>1. what[u].dev \in Device
    BY <1>1 DEF InsertOneTime, UploadOK, Material
  <2>2. CASE UNCHANGED onetime
    BY <2>2
  <2>3. CASE /\ \A j \in what[u].otks : onetime[what[u].dev][j] = "absent"
             /\ onetime' = [onetime EXCEPT ![what[u].dev] = row]
    <3>1. onetime'[d] = IF d = what[u].dev THEN row ELSE onetime[d]
      BY <2>1, <2>3 DEF UploadOK
    <3>2. CASE d = what[u].dev
      BY <2>3, <3>1, <3>2
    <3>3. CASE d # what[u].dev
      BY <3>1, <3>3
    <3>. QED
      BY <3>2, <3>3
  <2>. QED
    BY <1>1, <2>2, <2>3 DEF InsertOneTime
<1>2. CASE ~InsertOneTime(u)
  BY <1>2 DEF UploadStep, StartUpload, UpsertIdentity, DeactivateSigned, InsertSigned, FailUpload
<1>. QED
  BY <1>1, <1>2

\* What one step of a fetch does to the fetches' own progress.
LEMMA FetchTurn ==
  ASSUME FetchOK, NEW f \in Fetch, FetchStep(f)
  PROVE  /\ fpc[f] # "done"
         /\ \A g \in Fetch \ {f} : /\ fpc'[g] = fpc[g] /\ cur'[g] = cur[g]
                                   /\ got'[g] = got[g] /\ fans'[g] = fans[g]
         /\ fans'[f] # fans[f] => fpc'[f] = "done"
         /\ fpc'[f] # "idle"
         /\ \A g \in Fetch : fpc[g] # "idle" => over'[g] = over[g]
BY DEF FetchOK, FetchStep, StartFetch, ReadIdentity, ReadSigned, LockOneTime, MarkUsed,
       EndFetch, FailFetch, Fetching, FGoto, FFail, NextDevice

\* What it does to the one-time keys and the bundles: nothing; or it locks a
\* key; or it adds a bundle without one; or it marks the key in hand used, and
\* the bundle is added or the fetch failed.
LEMMA ClaimTurn ==
  ASSUME FetchOK, UploadOK, NEW f \in Fetch, FetchStep(f)
  PROVE  \/ UNCHANGED <<onetime, got>> /\ fpc'[f] # "mark"
         \/ /\ UNCHANGED <<onetime, got>>
            /\ fpc'[f] = "mark"
            /\ onetime[cur'[f].dev][cur'[f].otk] = "unused"
            /\ \A g \in Fetch \ {f} : fpc[g] = "mark" /\ cur[g].dev = cur'[f].dev =>
                 cur[g].otk # cur'[f].otk
         \/ /\ UNCHANGED onetime
            /\ fpc'[f] = "loop"
            /\ cur[f].otk = None
            /\ got'[f] = got[f] \cup {cur[f]}
         \/ /\ fpc[f] = "mark" /\ fpc'[f] # "mark"
            /\ \A d \in Device, k \in KeyId :
                 onetime'[d][k] = IF d = cur[f].dev /\ k = cur[f].otk THEN "used" ELSE onetime[d][k]
            /\ \/ got'[f] = got[f] \cup {cur[f]}
               \/ UNCHANGED <<got, cur>> /\ fans'[f] = "error"
<1>1. CASE LockOneTime(f)
  <2>1. fpc[f] = "claim" /\ cur[f].otk = None
    BY <1>1 DEF LockOneTime, FetchOK
  <2>2. ASSUME NEW k \in Claimable(cur[f].dev), cur' = [cur EXCEPT ![f].otk = k],
               FGoto(f, "mark"), UNCHANGED got
        PROVE  /\ UNCHANGED onetime /\ fpc'[f] = "mark"
               /\ onetime[cur'[f].dev][cur'[f].otk] = "unused"
               /\ \A g \in Fetch \ {f} : fpc[g] = "mark" /\ cur[g].dev = cur'[f].dev =>
                    cur[g].otk # cur'[f].otk
    <3>1. cur'[f].dev = cur[f].dev /\ cur'[f].otk = k
      BY <2>2 DEF FetchOK, Partial
    <3>2. onetime[cur[f].dev][k] = "unused" /\ ~Locked(cur[f].dev, k)
      BY <2>2 DEF Claimable
    <3>. QED
      BY <1>1, <2>2, <3>1, <3>2 DEF LockOneTime, Locked, FGoto, FetchOK
  <2>3. CASE NextDevice(f, {cur[f]})
    BY <1>1, <2>1, <2>3 DEF LockOneTime, NextDevice, FGoto, FetchOK
  <2>. QED
    BY <1>1, <2>2, <2>3 DEF LockOneTime
<1>2. CASE MarkUsed(f)
  <2>1. /\ fpc[f] = "mark"
        /\ cur[f].dev \in Device /\ cur[f].otk \in KeyId
        /\ onetime' = [onetime EXCEPT ![cur[f].dev][cur[f].otk] = "used"]
    BY <1>2 DEF MarkUsed, FetchOK, Bundle
  <2>2. \A d \in Device, k \in KeyId :
          onetime'[d][k] = IF d = cur[f].dev /\ k = cur[f].otk THEN "used" ELSE onetime[d][k]
    BY <2>1, TableUpdate DEF UploadOK
  <2>3. fpc'[f] # "mark" /\ \/ got'[f] = got[f] \cup {cur[f]}
                            \/ UNCHANGED <<got, cur>> /\ fans'[f] = "error"
    BY <1>2 DEF MarkUsed, NextDevice, FFail, FGoto, FetchOK
  <2>. QED
    BY <2>1, <2>2, <2>3
<1>3. CASE ReadSigned(f)
  <2>1. UNCHANGED onetime /\ fpc'[f] # "mark"
    BY <1>3 DEF ReadSigned, NextDevice, FGoto, FetchOK
  <2>2. got' = [got EXCEPT ![f] = @ \cup {}] \/ UNCHANGED got
    BY <1>3 DEF ReadSigned, NextDevice
  <2>3. got[f] \cup {} = got[f]
    OBVIOUS
  <2>4. UNCHANGED got
    BY <2>2, <2>3 DEF FetchOK
  <2>. QED
    BY <2>1, <2>4
<1>4. CASE EndFetch(f) \/ FailFetch(f)
  BY <1>4 DEF EndFetch, FailFetch, FFail, FGoto, FetchOK
<1>5. ASSUME NEW ds \in SUBSET Device, StartFetch(f, ds)
      PROVE  UNCHANGED <<onetime, got>> /\ fpc'[f] # "mark"
  BY <1>5 DEF StartFetch, FGoto, FetchOK
<1>6. ASSUME NEW d \in Device, ReadIdentity(f, d)
      PROVE  UNCHANGED <<onetime, got>> /\ fpc'[f] # "mark"
  BY <1>6 DEF ReadIdentity, FGoto, FetchOK
<1>. QED
  BY <1>1, <1>2, <1>3, <1>4, <1>5, <1>6 DEF FetchStep

\* A key in hand of a fetch is unused and in no other hand.
KeyInHand ==
  \A f \in Fetch :
    /\ fans[f] # "none" => fpc[f] = "done"
    /\ fpc[f] = "mark" =>
         /\ onetime[cur[f].dev][cur[f].otk] = "unused"
         /\ \A g \in Fetch \ {f} : fpc[g] = "mark" /\ cur[g].dev = cur[f].dev =>
              cur[g].otk # cur[f].otk

ClaimInv == KeyInHand /\ ClaimedOnce /\ UsedIffClaimed

\* Every step keeps ClaimInv.
LEMMA FetchClaimStep ==
  ASSUME UploadOK, FetchOK, ClaimInv, NEW f \in Fetch, FetchStep(f)
  PROVE  ClaimInv'
<1>1. /\ \A g \in Fetch \ {f} : /\ fpc'[g] = fpc[g] /\ cur'[g] = cur[g]
                                /\ got'[g] = got[g] /\ fans'[g] = fans[g]
      /\ \A g \in Fetch : fans[g] = "error" => g # f
  BY FetchTurn DEF ClaimInv, KeyInHand
<1>2. \A g \in Fetch : fpc[g] = "mark" => cur[g].dev \in Device /\ cur[g].otk \in KeyId
  BY DEF FetchOK, Bundle
<1>3. \A g \in Fetch : \A b \in got[g] : b.dev \in Device /\ (b.otk # None => b.otk \in KeyId)
  BY DEF FetchOK, Bundle
<1>4. \A g \in Fetch : \A b \in got[g] : b.otk # None => onetime[b.dev][b.otk] = "used"
  BY <1>3 DEF ClaimInv, UsedIffClaimed
<1>5. \A g \in Fetch : fans'[g] # "none" => fpc'[g] = "done"
  BY FetchTurn DEF ClaimInv, KeyInHand
<1>6. CASE UNCHANGED <<onetime, got>> /\ fpc'[f] # "mark"
  <2>1. KeyInHand'
    BY <1>1, <1>5, <1>6 DEF ClaimInv, KeyInHand
  <2>2. ClaimedOnce'
    BY <1>6 DEF ClaimInv, ClaimedOnce
  <2>3. UsedIffClaimed'
    BY <1>1, <1>6 DEF ClaimInv, UsedIffClaimed
  <2>. QED
    BY <2>1, <2>2, <2>3 DEF ClaimInv
<1>7. CASE /\ UNCHANGED <<onetime, got>>
           /\ fpc'[f] = "mark"
           /\ onetime[cur'[f].dev][cur'[f].otk] = "unused"
           /\ \A g \in Fetch \ {f} : fpc[g] = "mark" /\ cur[g].dev = cur'[f].dev =>
                cur[g].otk # cur'[f].otk
  <2>1. KeyInHand'
    BY <1>1, <1>5, <1>7 DEF ClaimInv, KeyInHand
  <2>2. ClaimedOnce'
    BY <1>7 DEF ClaimInv, ClaimedOnce
  <2>3. UsedIffClaimed'
    BY <1>1, <1>7 DEF ClaimInv, UsedIffClaimed
  <2>. QED
    BY <2>1, <2>2, <2>3 DEF ClaimInv
<1>8. CASE /\ UNCHANGED onetime
           /\ fpc'[f] = "loop"
           /\ cur[f].otk = None
           /\ got'[f] = got[f] \cup {cur[f]}
  <2>1. KeyInHand'
    BY <1>1, <1>5, <1>8 DEF ClaimInv, KeyInHand
  <2>2. \A g \in Fetch : /\ got[g] \subseteq got'[g]
                         /\ \A b \in got'[g] : b.otk # None => b \in got[g]
    BY <1>1, <1>8
  <2>3. ClaimedOnce'
    BY <2>2 DEF ClaimInv, ClaimedOnce
  <2>4. UsedIffClaimed'
    BY <1>1, <1>8, <2>2, KeysAssumption DEF ClaimInv, UsedIffClaimed
  <2>. QED
    BY <2>1, <2>3, <2>4 DEF ClaimInv
<1>9. CASE /\ fpc[f] = "mark" /\ fpc'[f] # "mark"
           /\ \A d \in Device, k \in KeyId :
                onetime'[d][k] = IF d = cur[f].dev /\ k = cur[f].otk THEN "used" ELSE onetime[d][k]
           /\ \/ got'[f] = got[f] \cup {cur[f]}
              \/ UNCHANGED <<got, cur>> /\ fans'[f] = "error"
  <2>1. cur[f].dev \in Device /\ cur[f].otk \in KeyId /\ onetime[cur[f].dev][cur[f].otk] = "unused"
    BY <1>2, <1>9 DEF ClaimInv, KeyInHand
  <2>2. KeyInHand'
    BY <1>1, <1>2, <1>5, <1>9 DEF ClaimInv, KeyInHand
  <2>3. \A g \in Fetch : \A b \in got[g] : b.otk # None => b.dev # cur[f].dev \/ b.otk # cur[f].otk
    BY <1>4, <2>1
  <2>4. \A g \in Fetch : /\ got[g] \subseteq got'[g]
                         /\ \A b \in got'[g] : b \in got[g] \/ (g = f /\ b = cur[f])
    BY <1>1, <1>9
  <2>5. ClaimedOnce'
    BY <2>3, <2>4 DEF ClaimInv, ClaimedOnce
  <2>6. ASSUME NEW d \in Device, NEW k \in KeyId,
               NEW g \in Fetch, NEW b \in got'[g], b.dev = d, b.otk = k
        PROVE  onetime'[d][k] = "used"
    BY <1>4, <1>9, <2>4, <2>6, KeysAssumption
  <2>7. ASSUME NEW d \in Device, NEW k \in KeyId, onetime'[d][k] = "used"
        PROVE  \/ \E g \in Fetch : \E b \in got'[g] : b.dev = d /\ b.otk = k
               \/ \E g \in Fetch : fans'[g] = "error" /\ cur'[g].dev = d /\ cur'[g].otk = k
    <3>1. CASE d = cur[f].dev /\ k = cur[f].otk
      BY <1>9, <3>1
    <3>2. CASE onetime[d][k] = "used"
      BY <1>1, <2>4, <3>2 DEF ClaimInv, UsedIffClaimed
    <3>. QED
      BY <1>9, <2>7, <3>1, <3>2
  <2>8. UsedIffClaimed'
    BY <2>6, <2>7 DEF UsedIffClaimed
  <2>. QED
    BY <2>2, <2>5, <2>8 DEF ClaimInv
<1>. QED
  BY <1>6, <1>7, <1>8, <1>9, ClaimTurn

\* Uploads keep it, too: what is in hand or used is there already.
LEMMA UploadClaimStep ==
  ASSUME UploadOK, FetchOK, ClaimInv, NEW u \in Upload, UploadStep(u)
  PROVE  ClaimInv'
<1>1. UNCHANGED <<fpc, cur, got, fans>>
  BY UploadFrame
<1>2. \A d \in Device, k \in KeyId : /\ onetime[d][k] = "unused" => onetime'[d][k] = "unused"
                                     /\ onetime[d][k] = "used" <=> onetime'[d][k] = "used"
  BY OneTimeAdded DEF UploadOK
<1>3. \A g \in Fetch : fpc[g] = "mark" => cur[g].dev \in Device /\ cur[g].otk \in KeyId
  BY DEF FetchOK, Bundle
<1>4. KeyInHand'
  BY <1>1, <1>2, <1>3 DEF ClaimInv, KeyInHand
<1>5. ClaimedOnce'
  BY <1>1 DEF ClaimInv, ClaimedOnce
<1>6. UsedIffClaimed'
  BY <1>1, <1>2 DEF ClaimInv, UsedIffClaimed
<1>. QED
  BY <1>4, <1>5, <1>6 DEF ClaimInv

\* ClaimInv of every reachable state.
LEMMA ClaimInvariant == Spec => []ClaimInv
<1>1. Init => ClaimInv
  BY DEF Init, ClaimInv, KeyInHand, ClaimedOnce, UsedIffClaimed
<1>2. UploadOK /\ FetchOK /\ ClaimInv /\ [Next]_vars => ClaimInv'
  <2>1. ASSUME ClaimInv, UNCHANGED vars PROVE ClaimInv'
    BY <2>1 DEF ClaimInv, KeyInHand, ClaimedOnce, UsedIffClaimed, vars, fetchVars
  <2>. QED
    BY <2>1, UploadClaimStep, FetchClaimStep DEF Next, UploadStep, FetchStep
<1>. QED
  BY <1>1, <1>2, TypedAlways, PTL DEF Spec

\* No one-time prekey is handed out twice.
THEOREM NeverClaimedTwice == Spec => []ClaimedOnce
<1>1. ClaimInv => ClaimedOnce
  BY DEF ClaimInv
<1>. QED
  BY <1>1, ClaimInvariant, PTL

\* Every used key is in a bundle or was lost with a failed fetch.
THEOREM UsedAccountedFor == Spec => []UsedIffClaimed
<1>1. ClaimInv => UsedIffClaimed
  BY DEF ClaimInv
<1>. QED
  BY <1>1, ClaimInvariant, PTL

-----------------------------------------------------------------------------
\* The upload that wrote the identity a device has now: whoever put in a
\* prekey that is active was not begun after it had ended; nor is it over, but
\* for an overlap, an error, or because there was no prekey to replace it by.
Writer(d, w) ==
  /\ upc[w] \notin {"idle", "identity"}
  /\ what[w].dev = d /\ what[w].ident = identity[d]
  /\ \A u \in Upload :
       upc[u] \in {"deactivate", "insert"} /\ what[u].dev = d => w \notin before[u]
  /\ \A k \in KeyId : signed[d][k] = "active" /\ maker[d][k] # w =>
       /\ w \notin before[maker[d][k]]
       /\ \/ maker[d][k] \notin before[w]
          \/ upc[w] = "deactivate" \/ uans[w] = "error" \/ what[w].spk = None

IdentityInv ==
  /\ \A d \in Device, k \in KeyId :
       signed[d][k] # "absent" => what[maker[d][k]].dev = d
  /\ \A d \in Device : identity[d] # None => \E w \in Upload : Writer(d, w)

\* A step keeps the writer of a device whose identity it does not write.
LEMMA WriterStays ==
  ASSUME UploadOK, UploadInv, NEW u \in Upload, UploadStep(u),
         NEW d \in Device, NEW w \in Upload, Writer(d, w), identity'[d] = identity[d],
         upc[u] = "identity" => upc'[u] = "done" \/ what[u].dev # d
  PROVE  Writer(d, w)'
<1>1. /\ \A v \in Upload : upc[v] # "idle" => what'[v] = what[v] /\ before'[v] = before[v]
      /\ \A v \in Upload \ {u} : upc'[v] = upc[v] /\ uans'[v] = uans[v]
      /\ upc[u] # "done" /\ upc'[u] # "idle"
  BY UploadTurn
<1>2. upc[w] # "idle" /\ what'[w] = what[w] /\ before'[w] = before[w]
  BY <1>1 DEF Writer
<1>3. upc'[w] \notin {"idle", "identity"}
  BY <1>1 DEF Writer, UploadStep, StartUpload, UpsertIdentity, DeactivateSigned, InsertSigned,
      InsertOneTime, FailUpload, UGoto, UFinish, UploadOK
<1>4. ASSUME NEW v \in Upload, upc'[v] \in {"deactivate", "insert"}, what'[v].dev = d
      PROVE  w \notin before'[v]
  <2>1. CASE v # u \/ upc[u] \in {"deactivate", "insert"}
    BY <1>1, <1>4, <2>1 DEF Writer
  <2>2. CASE v = u /\ upc[u] \notin {"deactivate", "insert"}
    <3>1. upc[u] = "identity"
      BY <1>4, <2>2 DEF UploadStep, StartUpload, UpsertIdentity, DeactivateSigned, InsertSigned,
        InsertOneTime, FailUpload, UGoto, UFinish, UploadOK
    <3>. QED
      BY <1>1, <1>4, <2>2, <3>1
  <2>. QED
    BY <2>1, <2>2
<1>5. ASSUME NEW k \in KeyId, signed'[d][k] = "active", maker'[d][k] # w
      PROVE  /\ w \notin before'[maker'[d][k]]
             /\ \/ maker'[d][k] \notin before'[w]
                \/ upc'[w] = "deactivate" \/ uans'[w] = "error" \/ what'[w].spk = None
  <2>1. CASE signed[d][k] = "active" /\ maker'[d][k] = maker[d][k]
    <3>1. /\ upc[maker[d][k]] # "idle" /\ maker[d][k] \in Upload
          /\ before'[maker[d][k]] = before[maker[d][k]]
      BY <1>1, <2>1 DEF UploadOK
    <3>2. upc[w] = "deactivate" => upc'[w] = "deactivate" \/ uans'[w] = "error"
      <4>1. CASE w # u
        BY <1>1, <4>1
      <4>2. CASE w = u /\ upc[u] = "deactivate"
        <5>1. CASE upc'[u] # "insert"
          BY <4>2, <5>1 DEF UploadStep, StartUpload, UpsertIdentity, DeactivateSigned, InsertSigned,
            InsertOneTime, FailUpload, UGoto, UFinish, UploadOK, Writer
        <5>2. CASE upc'[u] = "insert" /\ \A j \in KeyId : signed'[what[u].dev][j] # "active"
          BY <1>5, <4>2, <5>2 DEF Writer
        <5>. QED
          BY <4>2, <5>1, <5>2, SignedTurn
      <4>. QED
        BY <4>1, <4>2
    <3>3. uans[w] = "error" => uans'[w] = "error"
      BY <1>1 DEF UploadInv, UploadHistory
    <3>. QED
      BY <1>2, <1>5, <2>1, <3>1, <3>2, <3>3 DEF Writer
  <2>2. CASE ~(signed[d][k] = "active" /\ maker'[d][k] = maker[d][k])
    <3>1. upc[u] = "insert" /\ what[u].dev = d /\ maker'[d][k] = u
      BY <1>5, <2>2, SignedTurn DEF UploadOK
    <3>2. w \notin before[u] /\ u \notin before[w]
      BY <3>1 DEF Writer, UploadInv, UploadHistory
    <3>. QED
      BY <1>1, <1>2, <3>1, <3>2
  <2>. QED
    BY <2>1, <2>2
<1>. QED
  BY <1>2, <1>3, <1>4, <1>5 DEF Writer

\* Every step of an upload keeps IdentityInv; an upsert makes its own the
\* writer.
LEMMA IdentityStep ==
  ASSUME UploadOK, UploadInv, IdentityInv, NEW u \in Upload, UploadStep(u)
  PROVE  IdentityInv'
<1>1. /\ \A v \in Upload : upc[v] # "idle" => what'[v] = what[v] /\ before'[v] = before[v]
      /\ \A v \in Upload \ {u} : upc'[v] = upc[v] /\ uans'[v] = uans[v]
  BY UploadTurn
<1>2. ASSUME NEW d \in Device, NEW k \in KeyId, signed'[d][k] # "absent"
      PROVE  what'[maker'[d][k]].dev = d
  <2>1. CASE signed[d][k] # "absent"
    <3>1. maker'[d][k] = maker[d][k]
      BY <2>1, SignedTurn
    <3>2. upc[maker[d][k]] # "idle" /\ maker[d][k] \in Upload
      BY <2>1 DEF UploadOK
    <3>. QED
      BY <1>1, <2>1, <3>1, <3>2 DEF IdentityInv
  <2>2. CASE signed[d][k] = "absent"
    <3>1. upc[u] = "insert" /\ what[u].dev = d /\ maker'[d][k] = u
      <4>1. CASE DeactivateSigned(u)
        <5>1. what[u].dev \in Device
          BY <4>1 DEF DeactivateSigned, UploadOK, Material
        <5>. QED
          BY <1>2, <2>2, <4>1, <5>1 DEF DeactivateSigned, UploadOK
      <4>2. CASE ~DeactivateSigned(u)
        <5>1. upc[u] = "deactivate" => upc'[u] = "done"
          BY <4>2 DEF UploadStep, StartUpload, UpsertIdentity, InsertSigned,
            InsertOneTime, FailUpload, UGoto, UFinish, UploadOK
        <5>. QED
          BY <1>2, <2>2, <5>1, SignedTurn
      <4>. QED
        BY <4>1, <4>2
    <3>. QED
      BY <1>1, <3>1
  <2>. QED
    BY <2>1, <2>2
<1>3. ASSUME NEW d \in Device, identity'[d] # None
      PROVE  \E w \in Upload : Writer(d, w)'
  <2>1. CASE UpsertIdentity(u) /\ what[u].dev = d
    <3>1. /\ upc[u] = "identity" /\ what' = what /\ before' = before
          /\ UNCHANGED <<signed, maker, uans>>
          /\ upc'[u] \in {"deactivate", "onetime"}
          /\ upc'[u] = "deactivate" \/ what[u].spk = None
          /\ what[u].ident = identity'[d]
      BY <2>1 DEF UpsertIdentity, UGoto, UploadOK
    <3>2. \A v \in Upload : u \notin before[v]
      BY <3>1 DEF UploadInv, UploadHistory
    <3>3. \A k \in KeyId : signed[d][k] = "active" => maker[d][k] \in Upload
      BY DEF UploadOK
    <3>. QED
      BY <2>1, <3>1, <3>2, <3>3 DEF Writer
  <2>2. CASE ~(UpsertIdentity(u) /\ what[u].dev = d)
    <3>1. identity'[d] = identity[d]
      BY <2>2 DEF UploadStep, StartUpload, UpsertIdentity, DeactivateSigned, InsertSigned,
        InsertOneTime, FailUpload, UploadOK
    <3>2. upc[u] = "identity" => upc'[u] = "done" \/ what[u].dev # d
      BY <2>2 DEF UploadStep, StartUpload, UpsertIdentity, DeactivateSigned, InsertSigned,
        InsertOneTime, FailUpload, UGoto, UFinish, UploadOK
    <3>. QED
      BY <1>3, <3>1, <3>2, WriterStays DEF IdentityInv
  <2>. QED
    BY <2>1, <2>2
<1>. QED
  BY <1>2, <1>3 DEF IdentityInv

-----------------------------------------------------------------------------
\* Why a bundle of f may be torn.
Cause(f, b) ==
  \E u \in Upload :
    /\ upc[u] # "idle" /\ what[u].dev = b.dev
    /\ \/ u \notin over[f]
       \/ uans[u] = "error" \/ what[u].spk = None
       \/ \E v \in Upload \ {u} : /\ upc[v] # "idle" /\ what[v].dev = b.dev
                                  /\ u \notin before[v] /\ v \notin before[u]

\* A fetch that has read an identity and no prekey yet has the one that
\* stands, or a newer one was written beside it.
BundleInv ==
  \A f \in Fetch :
    /\ \A u \in over[f] : upc[u] = "done"
    /\ fpc[f] = "idle" => got[f] = {}
    /\ fpc[f] = "signed" =>
         \/ cur[f].ident = identity[cur[f].dev]
         \/ \E u \in Upload \ over[f] : upc[u] # "idle" /\ what[u].dev = cur[f].dev
    /\ fpc[f] \in {"claim", "mark"} /\ cur[f].signer # cur[f].ident => Cause(f, cur[f])
    /\ \A b \in got[f] : b.signer # b.ident => Cause(f, b)

\* A cause stays one.
LEMMA CauseStays ==
  ASSUME UploadOK, UploadInv, NEW u \in Upload, UploadStep(u),
         NEW f \in Fetch, NEW b, Cause(f, b)
  PROVE  Cause(f, b)'
<1>1. /\ \A v \in Upload : upc[v] # "idle" =>
           upc'[v] # "idle" /\ what'[v] = what[v] /\ before'[v] = before[v]
      /\ \A v \in Upload : uans[v] = "error" => uans'[v] = "error"
      /\ over' = over
  BY UploadTurn, UploadFrame DEF UploadInv, UploadHistory
<1>2. PICK w \in Upload :
        /\ upc[w] # "idle" /\ what[w].dev = b.dev
        /\ \/ w \notin over[f]
           \/ uans[w] = "error" \/ what[w].spk = None
           \/ \E v \in Upload \ {w} : /\ upc[v] # "idle" /\ what[v].dev = b.dev
                                      /\ w \notin before[v] /\ v \notin before[w]
  BY DEF Cause
<1>. QED
  BY <1>1, <1>2 DEF Cause

\* An upload keeps BundleInv: one that writes an identity is not over, so it
\* was not over when a fetch under way began.
LEMMA UploadBundleStep ==
  ASSUME UploadOK, FetchOK, UploadInv, BundleInv, NEW u \in Upload, UploadStep(u)
  PROVE  BundleInv'
<1>1. UNCHANGED <<fpc, cur, got, over>>
  BY UploadFrame
<1>. SUFFICES ASSUME NEW f \in Fetch
              PROVE  /\ \A v \in over[f] : upc'[v] = "done"
                     /\ fpc[f] = "idle" => got[f] = {}
                     /\ fpc[f] = "signed" =>
                          \/ cur[f].ident = identity'[cur[f].dev]
                          \/ \E v \in Upload \ over[f] : upc'[v] # "idle" /\ what'[v].dev = cur[f].dev
                     /\ fpc[f] \in {"claim", "mark"} /\ cur[f].signer # cur[f].ident => Cause(f, cur[f])'
                     /\ \A b \in got[f] : b.signer # b.ident => Cause(f, b)'
  BY <1>1 DEF BundleInv, Cause
<1>2. \A v \in Upload : upc[v] # "idle" => upc'[v] # "idle" /\ what'[v] = what[v]
  BY UploadTurn
<1>3. u \notin over[f] /\ \A v \in over[f] : upc'[v] = "done"
  BY UploadTurn DEF BundleInv, FetchOK
<1>4. ASSUME fpc[f] = "signed"
      PROVE  \/ cur[f].ident = identity'[cur[f].dev]
             \/ \E v \in Upload \ over[f] : upc'[v] # "idle" /\ what'[v].dev = cur[f].dev
  <2>1. CASE identity'[cur[f].dev] = identity[cur[f].dev]
    BY <1>2, <1>4, <2>1 DEF BundleInv
  <2>2. CASE identity'[cur[f].dev] # identity[cur[f].dev]
    <3>1. upc[u] = "identity" /\ what[u].dev = cur[f].dev
      BY <1>4, <2>2 DEF FetchOK, UploadStep, StartUpload, UpsertIdentity, DeactivateSigned,
        InsertSigned, InsertOneTime, FailUpload, UploadOK
    <3>. QED
      BY <1>2, <1>3, <3>1
  <2>. QED
    BY <2>1, <2>2
<1>5. fpc[f] \in {"claim", "mark"} /\ cur[f].signer # cur[f].ident => Cause(f, cur[f])'
  <2>1. \A b : Cause(f, b) => Cause(f, b)'
    BY CauseStays
  <2>. QED
    BY <2>1, <1>1 DEF BundleInv, Cause
<1>6. \A b \in got[f] : b.signer # b.ident => Cause(f, b)'
  BY CauseStays DEF BundleInv
<1>. QED
  BY <1>3, <1>4, <1>5, <1>6 DEF BundleInv

\* A fetch that finds a prekey of another identity than it has read finds the
\* cause with it: the writer of the one and the maker of the other.
LEMMA ReadSignedCause ==
  ASSUME UploadOK, FetchOK, UploadInv, IdentityInv, BundleInv,
         NEW f \in Fetch, fpc[f] = "signed",
         NEW k \in KeyId, signed[cur[f].dev][k] = "active",
         what[maker[cur[f].dev][k]].ident # cur[f].ident
  PROVE  Cause(f, cur[f])
<1>. DEFINE d == cur[f].dev
            m == maker[d][k]
<1>1. d \in Device /\ cur[f].ident \in Ident
  BY DEF FetchOK
<1>2. m \in Upload /\ upc[m] # "idle" /\ what[m].dev = d
  BY <1>1 DEF UploadOK, IdentityInv
<1>3. CASE \E u \in Upload \ over[f] : upc[u] # "idle" /\ what[u].dev = d
  BY <1>3 DEF Cause
<1>4. CASE cur[f].ident = identity[d]
  <2>1. identity[d] # None
    BY <1>1, <1>4, KeysAssumption
  <2>2. PICK w \in Upload : Writer(d, w)
    BY <1>1, <2>1 DEF IdentityInv
  <2>3. /\ m # w /\ upc[w] # "idle" /\ what[w].dev = d
        /\ w \notin before[m]
        /\ \/ m \notin before[w]
           \/ upc[w] = "deactivate" \/ uans[w] = "error" \/ what[w].spk = None
    BY <1>4, <2>2 DEF Writer
  <2>4. upc[w] = "deactivate" => w \notin over[f]
    BY DEF BundleInv
  <2>. HIDE DEF m, d
  <2>5. what[w].dev = cur[f].dev /\ what[m].dev = cur[f].dev
    BY <1>2, <2>3 DEF d
  <2>. QED
    BY <1>2, <2>3, <2>4, <2>5 DEF Cause
<1>. QED
  BY <1>3, <1>4 DEF BundleInv

\* Every step of a fetch keeps BundleInv.
LEMMA FetchBundleStep ==
  ASSUME UploadOK, FetchOK, UploadInv, IdentityInv, BundleInv,
         NEW f \in Fetch, FetchStep(f)
  PROVE  BundleInv'
<1>1. UNCHANGED <<identity, signed, maker, upc, what, uans, before>>
  BY FetchFrame
<1>2. /\ \A g \in Fetch \ {f} : fpc'[g] = fpc[g] /\ cur'[g] = cur[g] /\ got'[g] = got[g]
      /\ \A g \in Fetch : fpc[g] # "idle" => over'[g] = over[g]
      /\ \A g \in Fetch \ {f} : over'[g] = over[g]
      /\ \A v \in over'[f] : upc[v] = "done"
      /\ fpc'[f] # "idle"
  <2>1. /\ \A g \in Fetch \ {f} : over'[g] = over[g]
        /\ over'[f] = over[f] \/ over'[f] = {u \in Upload : upc[u] = "done"}
    BY DEF FetchOK, FetchStep, StartFetch, ReadIdentity, ReadSigned, LockOneTime, MarkUsed,
       EndFetch, FailFetch
  <2>. QED
    BY <2>1, FetchTurn DEF BundleInv
<1>3. ASSUME NEW g \in Fetch, NEW b, over'[g] = over[g], Cause(g, b) PROVE Cause(g, b)'
  BY <1>1, <1>3 DEF Cause
<1>4. ASSUME /\ fpc'[f] # "idle"
             /\ fpc'[f] = "signed" => cur'[f].ident = identity[cur'[f].dev]
             /\ fpc'[f] \in {"claim", "mark"} /\ cur'[f].signer # cur'[f].ident => Cause(f, cur[f])'
             /\ \A b \in got'[f] : b.signer # b.ident => Cause(f, b)'
      PROVE  BundleInv'
  <2>1. ASSUME NEW g \in Fetch \ {f}
        PROVE  /\ \A u \in over'[g] : upc'[u] = "done"
               /\ fpc'[g] = "idle" => got'[g] = {}
               /\ fpc'[g] = "signed" =>
                    \/ cur'[g].ident = identity'[cur'[g].dev]
                    \/ \E u \in Upload \ over'[g] : upc'[u] # "idle" /\ what'[u].dev = cur'[g].dev
    BY <1>1, <1>2 DEF BundleInv
  <2>2. ASSUME NEW g \in Fetch \ {f}
        PROVE  /\ fpc'[g] \in {"claim", "mark"} /\ cur'[g].signer # cur'[g].ident =>
                    Cause(g, cur[g])'
               /\ \A b \in got'[g] : b.signer # b.ident => Cause(g, b)'
    BY <1>2, <1>3 DEF BundleInv
  <2>. QED
    BY <1>1, <1>2, <1>4, <2>1, <2>2 DEF BundleInv
<1>5. CASE fpc'[f] \in {"loop", "done"} /\ got'[f] = got[f] /\ over'[f] = over[f]
  BY <1>1, <1>3, <1>4, <1>5 DEF BundleInv
<1>6. ASSUME NEW ds \in SUBSET Device, StartFetch(f, ds) PROVE BundleInv'
  <2>1. got[f] = {} /\ got' = got /\ fpc'[f] = "loop"
    BY <1>6 DEF StartFetch, FGoto, FetchOK, BundleInv
  <2>. QED
    BY <1>4, <2>1
<1>7. ASSUME NEW d \in Device, ReadIdentity(f, d) PROVE BundleInv'
  <2>1. CASE identity[d] = None
    BY <1>5, <1>7, <2>1 DEF ReadIdentity
  <2>2. CASE identity[d] # None
    <3>1. /\ cur'[f].dev = d /\ cur'[f].ident = identity[d]
          /\ fpc'[f] = "signed" /\ got' = got /\ over' = over
      BY <1>7, <2>2 DEF ReadIdentity, FGoto, FetchOK, NoBundle
    <3>. QED
      BY <1>1, <1>3, <1>4, <3>1 DEF BundleInv
  <2>. QED
    BY <2>1, <2>2
<1>8. CASE ReadSigned(f)
  <2>1. CASE NextDevice(f, {})
    <3>1. got'[f] = got[f] \cup {} /\ fpc'[f] = "loop" /\ over' = over
      BY <1>8, <2>1 DEF ReadSigned, NextDevice, FGoto, FetchOK
    <3>. QED
      BY <1>5, <3>1
  <2>2. ASSUME NEW k \in KeyId, signed[cur[f].dev][k] = "active",
               cur' = [cur EXCEPT ![f].spk = k,
                                  ![f].signer = what[maker[cur[f].dev][k]].ident],
               FGoto(f, "claim"), UNCHANGED got
        PROVE  BundleInv'
    <3>1. /\ fpc[f] = "signed" /\ fpc'[f] = "claim" /\ over' = over
          /\ cur'[f].dev = cur[f].dev /\ cur'[f].ident = cur[f].ident
          /\ cur'[f].signer = what[maker[cur[f].dev][k]].ident
      <4>1. cur[f] \in Partial /\ f \in DOMAIN cur /\ f \in DOMAIN fpc
        BY DEF FetchOK
      <4>2. cur'[f] = [cur[f] EXCEPT !.spk = k, !.signer = what[maker[cur[f].dev][k]].ident]
        BY <2>2, <4>1
      <4>3. fpc[f] = "signed" /\ fpc'[f] = "claim" /\ over' = over
        BY <1>8, <2>2, <4>1 DEF ReadSigned, FGoto
      <4>. QED
        BY <4>1, <4>2, <4>3 DEF Partial
    <3>2. cur'[f].signer # cur'[f].ident => Cause(f, cur[f])
      BY <2>2, <3>1, ReadSignedCause
    <3>3. cur'[f].signer # cur'[f].ident => Cause(f, cur[f])'
      BY <1>1, <3>1, <3>2 DEF Cause
    <3>. QED
      BY <1>1, <1>3, <1>4, <2>2, <3>1, <3>3 DEF BundleInv
  <2>. QED
    BY <1>8, <2>1, <2>2 DEF ReadSigned
<1>9. CASE LockOneTime(f)
  <2>1. fpc[f] = "claim" /\ over' = over
    BY <1>9 DEF LockOneTime
  <2>2. ASSUME NEW k \in KeyId, cur' = [cur EXCEPT ![f].otk = k], FGoto(f, "mark"), UNCHANGED got
        PROVE  BundleInv'
    <3>1. /\ fpc'[f] = "mark" /\ cur'[f].dev = cur[f].dev
          /\ cur'[f].ident = cur[f].ident /\ cur'[f].signer = cur[f].signer
      BY <2>2 DEF FGoto, FetchOK, Partial
    <3>2. cur'[f].signer # cur'[f].ident => Cause(f, cur[f])'
      BY <1>1, <2>1, <3>1 DEF BundleInv, Cause
    <3>. QED
      BY <1>1, <1>3, <1>4, <2>1, <2>2, <3>1, <3>2 DEF BundleInv
  <2>3. CASE NextDevice(f, {cur[f]})
    <3>1. fpc'[f] = "loop" /\ got'[f] = got[f] \cup {cur[f]}
      BY <2>3 DEF NextDevice, FGoto, FetchOK
    <3>. QED
      BY <1>1, <1>3, <1>4, <2>1, <3>1 DEF BundleInv
  <2>. QED
    BY <1>9, <2>2, <2>3 DEF LockOneTime, Claimable
<1>10. CASE MarkUsed(f)
  <2>1. /\ fpc[f] = "mark" /\ over' = over
        /\ \/ fpc'[f] = "loop" /\ got'[f] = got[f] \cup {cur[f]}
           \/ fpc'[f] = "done" /\ got'[f] = got[f]
    BY <1>10 DEF MarkUsed, NextDevice, FFail, FGoto, FetchOK
  <2>. QED
    BY <1>1, <1>3, <1>4, <2>1 DEF BundleInv
<1>11. CASE EndFetch(f) \/ FailFetch(f)
  BY <1>5, <1>11 DEF EndFetch, FailFetch, FFail, FGoto, FetchOK
<1>. QED
  BY <1>6, <1>7, <1>8, <1>9, <1>10, <1>11 DEF FetchStep

\* IdentityInv and BundleInv of every reachable state.
LEMMA BundleInvariant == Spec => [](IdentityInv /\ BundleInv)
<1>1. Init => IdentityInv /\ BundleInv
  BY KeysAssumption DEF Init, IdentityInv, BundleInv
<1>2. UploadOK /\ FetchOK /\ UploadInv /\ IdentityInv /\ BundleInv /\ [Next]_vars =>
        (IdentityInv /\ BundleInv)'
  <2>1. ASSUME UploadOK, FetchOK, UploadInv, IdentityInv, BundleInv,
               NEW u \in Upload, UploadStep(u)
        PROVE  (IdentityInv /\ BundleInv)'
    BY <2>1, IdentityStep, UploadBundleStep
  <2>2. ASSUME UploadOK, FetchOK, UploadInv, IdentityInv, BundleInv,
               NEW f \in Fetch, FetchStep(f)
        PROVE  (IdentityInv /\ BundleInv)'
    BY <2>2, FetchFrame, FetchBundleStep DEF IdentityInv, Writer
  <2>3. ASSUME IdentityInv, BundleInv, UNCHANGED vars
        PROVE  (IdentityInv /\ BundleInv)'
    BY <2>3 DEF IdentityInv, Writer, BundleInv, Cause, vars, uploadVars, fetchVars
  <2>. QED
    BY <2>1, <2>2, <2>3 DEF Next, UploadStep, FetchStep
<1>. QED
  BY <1>1, <1>2, TypedAlways, UploadInvariant, PTL DEF Spec

\* A device that uploads one at a time, each to its end and each with a signed
\* prekey, is never handed out torn by a fetch no upload overlaps.
THEOREM TornNeedsUpload == Spec => []TornOnlyByUpload
<1>1. BundleInv => TornOnlyByUpload
  BY DEF BundleInv, TornOnlyByUpload, Cause
<1>. QED
  BY <1>1, BundleInvariant, PTL

-----------------------------------------------------------------------------
\* A used one-time key is never handed out again, a replaced prekey never back.
THEOREM NeverReissued == Spec => KeysNeverReissued
<1>. DEFINE Kept == \A d \in Device, k \in KeyId :
       /\ onetime[d][k] = "used" => onetime'[d][k] = "used"
       /\ onetime[d][k] = "unused" => onetime'[d][k] # "absent"
       /\ signed[d][k] = "old" => signed'[d][k] = "old"
<1>1. ASSUME UploadOK, NEW u \in Upload, UploadStep(u) PROVE Kept
  <2>1. \A d \in Device, k \in KeyId : signed[d][k] = "old" => signed'[d][k] = "old"
    BY <1>1, SignedTurn
  <2>. QED
    BY <1>1, <2>1, OneTimeAdded
<1>2. ASSUME UploadOK, FetchOK, NEW f \in Fetch, FetchStep(f) PROVE Kept
  <2>1. UNCHANGED signed
    BY <1>2, FetchFrame
  <2>. QED
    BY <1>2, <2>1, ClaimTurn
<1>3. UploadOK /\ FetchOK /\ [Next]_vars => [Kept]_vars
  BY <1>1, <1>2 DEF Next, UploadStep, FetchStep
<1>. QED
  BY <1>3, TypedAlways, PTL DEF Spec, KeysNeverReissued
=============================================================================
