-------------------------------- MODULE Keys --------------------------------
(***************************************************************************)
(* POST /users/keys and GET /users/:userId/keys: internal/keys Service at  *)
(* the granularity of its SQL statements.  Each commits by itself;         *)
(* a request that fails half-way (or dies with the server) leaves what its *)
(* earlier statements wrote.                                               *)
(***************************************************************************)

CONSTANTS
  Device,   \* active devices of the user whose keys are fetched
  KeyId,    \* key_id values; signed and one-time keys have separate tables
  Ident,    \* identity key pairs a device may hold
  Upload,   \* upload requests; bounds them
  Fetch,    \* bundle requests; bounds them
  None

\* What a device uploads; both prekey parts are optional.
Material == [dev : Device, ident : Ident,
             spk : KeyId \cup {None}, otks : SUBSET KeyId]

ASSUME KeysAssumption ==
  None \notin Device \cup KeyId \cup Ident \cup Upload \cup Material

VARIABLES
  identity,  \* signal_identity_keys: the current identity key
  signed,    \* signal_signed_prekeys: "absent", "active" or "old" per key id
  maker,     \* the upload that inserted a signed prekey and made its signature
  onetime,   \* signal_one_time_prekeys: "absent", "unused" or "used"
  upc, what, uans,          \* uploads: next statement, material, answer
  before,                   \* history: uploads over when an upload began
  fpc, todo, cur, got, fans, \* fetches: next statement, devices left, the
                            \* bundle being built, bundles built, answer
  over       \* history: uploads over when a fetch began

uploadVars == <<upc, what, uans, before>>
fetchVars  == <<fpc, todo, cur, got, fans, over>>
vars == <<identity, signed, maker, onetime, uploadVars, fetchVars>>

Bundle == [dev : Device, ident : Ident, spk : KeyId, signer : Ident,
           otk : KeyId \cup {None}]
Partial == [dev : Device \cup {None}, ident : Ident \cup {None},
            spk : KeyId \cup {None}, signer : Ident \cup {None},
            otk : KeyId \cup {None}]
NoBundle == [dev |-> None, ident |-> None, spk |-> None, signer |-> None,
             otk |-> None]

TypeOK ==
  /\ identity \in [Device -> Ident \cup {None}]
  /\ signed \in [Device -> [KeyId -> {"absent", "active", "old"}]]
  /\ maker \in [Device -> [KeyId -> Upload \cup {None}]]
  /\ onetime \in [Device -> [KeyId -> {"absent", "unused", "used"}]]
  /\ upc \in [Upload -> {"idle", "identity", "deactivate", "insert", "onetime", "done"}]
  /\ what \in [Upload -> Material \cup {None}]
  /\ uans \in [Upload -> {"none", "ok", "error"}]
  /\ before \in [Upload -> SUBSET Upload]
  /\ fpc \in [Fetch -> {"idle", "loop", "signed", "claim", "mark", "done"}]
  /\ todo \in [Fetch -> SUBSET Device]
  /\ cur \in [Fetch -> Partial]
  /\ got \in [Fetch -> SUBSET Bundle]
  /\ fans \in [Fetch -> {"none", "ok", "nokeys", "error"}]
  /\ over \in [Fetch -> SUBSET Upload]

Init ==
  /\ identity = [d \in Device |-> None]
  /\ signed = [d \in Device |-> [k \in KeyId |-> "absent"]]
  /\ maker = [d \in Device |-> [k \in KeyId |-> None]]
  /\ onetime = [d \in Device |-> [k \in KeyId |-> "absent"]]
  /\ upc = [u \in Upload |-> "idle"]
  /\ what = [u \in Upload |-> None]
  /\ uans = [u \in Upload |-> "none"]
  /\ before = [u \in Upload |-> {}]
  /\ fpc = [f \in Fetch |-> "idle"]
  /\ todo = [f \in Fetch |-> {}]
  /\ cur = [f \in Fetch |-> NoBundle]
  /\ got = [f \in Fetch |-> {}]
  /\ fans = [f \in Fetch |-> "none"]
  /\ over = [f \in Fetch |-> {}]

-----------------------------------------------------------------------------
(* UploadKeys.                                                             *)

Uploading(u) == upc[u] \notin {"idle", "done"}

UGoto(u, stage) == upc' = [upc EXCEPT ![u] = stage]
UFinish(u, a)   == UGoto(u, "done") /\ uans' = [uans EXCEPT ![u] = a]

StartUpload(u, m) ==
  /\ upc[u] = "idle"
  /\ before' = [before EXCEPT ![u] = {v \in Upload : upc[v] = "done"}]
  /\ what' = [what EXCEPT ![u] = m]
  /\ UGoto(u, "identity")
  /\ UNCHANGED <<identity, signed, maker, onetime, uans, fetchVars>>

\* INSERT .. ON CONFLICT (device_id) DO UPDATE: the last writer's key stays.
UpsertIdentity(u) ==
  /\ upc[u] = "identity"
  /\ identity' = [identity EXCEPT ![what[u].dev] = what[u].ident]
  /\ UGoto(u, IF what[u].spk = None THEN "onetime" ELSE "deactivate")
  /\ UNCHANGED <<signed, maker, onetime, what, uans, before, fetchVars>>

\* Fault: the previous signed prekey is left active.
DeactivateNone(u) ==
  /\ upc[u] = "deactivate"
  /\ UGoto(u, "insert")
  /\ UNCHANGED <<identity, signed, maker, onetime, what, uans, before, fetchVars>>

DeactivateSigned(u) ==
  /\ upc[u] = "deactivate"
  /\ signed' = [signed EXCEPT ![what[u].dev] =
                  [k \in KeyId |-> IF @[k] = "active" THEN "old" ELSE @[k]]]
  /\ UGoto(u, "insert")
  /\ UNCHANGED <<identity, maker, onetime, what, uans, before, fetchVars>>

\* Fault: ON CONFLICT DO NOTHING, so an id used before is passed over.
InsertSignedSilently(u) ==
  LET d == what[u].dev
      k == what[u].spk
  IN  /\ upc[u] = "insert"
      /\ \/ /\ signed[d][k] = "absent"
            /\ signed' = [signed EXCEPT ![d][k] = "active"]
            /\ maker' = [maker EXCEPT ![d][k] = u]
         \/ signed[d][k] # "absent" /\ UNCHANGED <<signed, maker>>
      /\ UGoto(u, "onetime")
      /\ UNCHANGED <<identity, onetime, what, uans, before, fetchVars>>

\* The unique index (device_id, key_id) rejects an id the device used before,
\* active or not; the previous key has been deactivated by then.
InsertSigned(u) ==
  LET d == what[u].dev
      k == what[u].spk
  IN  /\ upc[u] = "insert"
      /\ \/ /\ signed[d][k] = "absent"
            /\ signed' = [signed EXCEPT ![d][k] = "active"]
            /\ maker' = [maker EXCEPT ![d][k] = u]
            /\ UGoto(u, "onetime")
            /\ UNCHANGED uans
         \/ /\ signed[d][k] # "absent"
            /\ UFinish(u, "error")
            /\ UNCHANGED <<signed, maker>>
      /\ UNCHANGED <<identity, onetime, what, before, fetchVars>>

\* Fault: an id uploaded again overwrites its row, used or not.
UpsertOneTime(u) ==
  /\ upc[u] = "onetime"
  /\ onetime' = [onetime EXCEPT ![what[u].dev] =
       [k \in KeyId |-> IF k \in what[u].otks THEN "unused" ELSE @[k]]]
  /\ UFinish(u, "ok")
  /\ UNCHANGED <<identity, signed, maker, what, before, fetchVars>>

\* One INSERT for the whole batch: a single used id rejects all of it.  It may
\* have been committed although the handler only saw an error.
InsertOneTime(u) ==
  LET d == what[u].dev
  IN  /\ upc[u] = "onetime"
      /\ \/ /\ \A k \in what[u].otks : onetime[d][k] = "absent"
            /\ onetime' = [onetime EXCEPT ![d] =
                 [k \in KeyId |-> IF k \in what[u].otks THEN "unused" ELSE @[k]]]
            /\ UFinish(u, "ok") \/ UFinish(u, "error")
         \/ /\ \E k \in what[u].otks : onetime[d][k] # "absent"
            /\ UFinish(u, "error")
            /\ UNCHANGED onetime
      /\ UNCHANGED <<identity, signed, maker, what, before, fetchVars>>

FailUpload(u) ==
  /\ Uploading(u)
  /\ UFinish(u, "error")
  /\ UNCHANGED <<identity, signed, maker, onetime, what, before, fetchVars>>

-----------------------------------------------------------------------------
(* GetUserKeyBundle.                                                       *)

Fetching(f) == fpc[f] \notin {"idle", "done"}

FGoto(f, stage) == fpc' = [fpc EXCEPT ![f] = stage]
FFail(f)        == FGoto(f, "done") /\ fans' = [fans EXCEPT ![f] = "error"]

\* On to the next device, with or without a bundle for the current one.
NextDevice(f, bundles) ==
  /\ got' = [got EXCEPT ![f] = @ \cup bundles]
  /\ cur' = [cur EXCEPT ![f] = NoBundle]
  /\ FGoto(f, "loop")

\* The user's active devices are read once.
StartFetch(f, ds) ==
  /\ fpc[f] = "idle"
  /\ todo' = [todo EXCEPT ![f] = ds]
  /\ over' = [over EXCEPT ![f] = {u \in Upload : upc[u] = "done"}]
  /\ FGoto(f, "loop")
  /\ UNCHANGED <<identity, signed, maker, onetime, uploadVars, cur, got, fans>>

ReadIdentity(f, d) ==
  /\ fpc[f] = "loop"
  /\ d \in todo[f]
  /\ todo' = [todo EXCEPT ![f] = @ \ {d}]
  /\ \/ /\ identity[d] = None
        /\ UNCHANGED <<fpc, cur, got>>
     \/ /\ identity[d] # None
        /\ cur' = [cur EXCEPT ![f] = [NoBundle EXCEPT !.dev = d, !.ident = identity[d]]]
        /\ FGoto(f, "signed")
        /\ UNCHANGED got
  /\ UNCHANGED <<identity, signed, maker, onetime, uploadVars, fans, over>>

\* Fault: a device without an active signed prekey is not skipped.
ReadSignedUnskipped(f) ==
  LET d == cur[f].dev
  IN  /\ fpc[f] = "signed"
      /\ \/ /\ \A k \in KeyId : signed[d][k] # "active"
            /\ NextDevice(f, {cur[f]})
         \/ \E k \in KeyId :
              /\ signed[d][k] = "active"
              /\ cur' = [cur EXCEPT ![f].spk = k, ![f].signer = what[maker[d][k]].ident]
              /\ FGoto(f, "claim")
              /\ UNCHANGED got
      /\ UNCHANGED <<identity, signed, maker, onetime, uploadVars, todo, fans, over>>

\* First() orders by a random row id: any active row may come first.
ReadSigned(f) ==
  LET d == cur[f].dev
  IN  /\ fpc[f] = "signed"
      /\ \/ /\ \A k \in KeyId : signed[d][k] # "active"
            /\ NextDevice(f, {})
         \/ \E k \in KeyId :
              /\ signed[d][k] = "active"
              /\ cur' = [cur EXCEPT ![f].spk = k, ![f].signer = what[maker[d][k]].ident]
              /\ FGoto(f, "claim")
              /\ UNCHANGED got
      /\ UNCHANGED <<identity, signed, maker, onetime, uploadVars, todo, fans, over>>

\* The row a concurrent claim of the device has locked and not yet updated.
Locked(d, k) == \E g \in Fetch : fpc[g] = "mark" /\ cur[g].dev = d /\ cur[g].otk = k

\* Fault: no FOR UPDATE, so another claim's choice is not skipped.
Unused(d) == {k \in KeyId : onetime[d][k] = "unused"}

Claimable(d) == {k \in KeyId : onetime[d][k] = "unused" /\ ~Locked(d, k)}

\* The subquery of claimOneTimePrekey: FOR UPDATE SKIP LOCKED LIMIT 1.  Rows of
\* one batch share created_at, so the order leaves the choice open.
LockOneTime(f) ==
  LET d == cur[f].dev
  IN  /\ fpc[f] = "claim"
      /\ \/ \E k \in Claimable(d) :
              /\ cur' = [cur EXCEPT ![f].otk = k]
              /\ FGoto(f, "mark")
              /\ UNCHANGED got
         \/ /\ Claimable(d) = {}
            /\ NextDevice(f, {cur[f]})
      /\ UNCHANGED <<identity, signed, maker, onetime, uploadVars, todo, fans, over>>

\* Fault: the key is read and not marked.
ReadOnly(f) ==
  /\ fpc[f] = "mark"
  /\ NextDevice(f, {cur[f]})
  /\ UNCHANGED <<identity, signed, maker, onetime, uploadVars, todo, fans, over>>

\* The UPDATE around it: the row is used and the lock released.  The handler
\* may only see an error, and then the key is spent on nobody.
MarkUsed(f) ==
  /\ fpc[f] = "mark"
  /\ onetime' = [onetime EXCEPT ![cur[f].dev][cur[f].otk] = "used"]
  /\ \/ NextDevice(f, {cur[f]}) /\ UNCHANGED fans
     \/ FFail(f) /\ UNCHANGED <<cur, got>>
  /\ UNCHANGED <<identity, signed, maker, uploadVars, todo, over>>

EndFetch(f) ==
  /\ fpc[f] = "loop"
  /\ todo[f] = {}
  /\ fans' = [fans EXCEPT ![f] = IF got[f] = {} THEN "nokeys" ELSE "ok"]
  /\ FGoto(f, "done")
  /\ UNCHANGED <<identity, signed, maker, onetime, uploadVars, todo, cur, got, over>>

\* A lock held by the failing statement is released; keys claimed for earlier
\* devices stay used although no bundle is sent.
FailFetch(f) ==
  /\ Fetching(f)
  /\ FFail(f)
  /\ UNCHANGED <<identity, signed, maker, onetime, uploadVars, todo, cur, got, over>>

Next ==
  \/ \E u \in Upload :
       \/ \E m \in Material : StartUpload(u, m)
       \/ UpsertIdentity(u) \/ DeactivateSigned(u)
       \/ InsertSigned(u) \/ InsertOneTime(u) \/ FailUpload(u)
  \/ \E f \in Fetch :
       \/ \E ds \in SUBSET Device : StartFetch(f, ds)
       \/ \E d \in Device : ReadIdentity(f, d)
       \/ ReadSigned(f) \/ LockOneTime(f) \/ MarkUsed(f)
       \/ EndFetch(f) \/ FailFetch(f)

Spec == Init /\ [][Next]_vars

-----------------------------------------------------------------------------
(* Properties.                                                             *)

\* A one-time prekey is handed out at most once, whatever fetches, uploads and
\* failures overlap (service.go, "can never both claim the same row").
ClaimedOnce ==
  \A f, g \in Fetch : \A b \in got[f], c \in got[g] :
    b.otk # None /\ b.dev = c.dev /\ b.otk = c.otk => f = g /\ b = c

\* Every used key is accounted for: a bundle holds it, or it is the one a
\* failed fetch had in hand; and no bundle holds a key left for others.
UsedIffClaimed ==
  \A d \in Device, k \in KeyId :
    LET claimed == \E f \in Fetch : \E b \in got[f] : b.dev = d /\ b.otk = k
        lost    == \E f \in Fetch : fans[f] = "error" /\ cur[f].dev = d /\ cur[f].otk = k
    IN  /\ claimed => onetime[d][k] = "used"
        /\ onetime[d][k] = "used" => claimed \/ lost

\* Two signed prekeys of a device are active only when the uploads that
\* inserted them overlapped.
TwoActiveOnlyByOverlap ==
  \A d \in Device : \A j, k \in KeyId :
    j # k /\ signed[d][j] = "active" /\ signed[d][k] = "active" =>
      /\ maker[d][j] \notin before[maker[d][k]]
      /\ maker[d][k] \notin before[maker[d][j]]

\* A device that has stored a signed prekey has an active one whenever none of
\* its uploads is under way.
PrekeyStands(d) ==
  \/ \A k \in KeyId : signed[d][k] = "absent"
  \/ \E k \in KeyId : signed[d][k] = "active"
  \/ \E u \in Upload : Uploading(u) /\ what[u].dev = d

\* Only an upload that answered an error leaves a device without one, overlaps
\* do not.
PrekeyLostOnlyByError ==
  \A d \in Device :
    PrekeyStands(d) \/ \E u \in Upload : what[u] # None /\ what[u].dev = d /\ uans[u] = "error"

\* A bundle is usable when its signed prekey carries a signature of its identity
\* key (service.go, "enough for a client to establish an encrypted session").
\* One that is not was built beside an upload of its device, or
\* left by earlier ones: one that failed or brought no signed prekey, or two
\* that overlapped.  A device that uploads one at a time, each to its end, is
\* never handed out torn.
TornOnlyByUpload ==
  \A f \in Fetch : \A b \in got[f] : b.signer # b.ident =>
    \E u \in Upload :
      /\ upc[u] # "idle" /\ what[u].dev = b.dev
      /\ \/ u \notin over[f]
         \/ uans[u] = "error" \/ what[u].spk = None
         \/ \E v \in Upload \ {u} : /\ upc[v] # "idle" /\ what[v].dev = b.dev
                                    /\ u \notin before[v] /\ v \notin before[u]

\* One-time keys only ever go from absent through unused to used, and a signed
\* prekey once replaced is never active again: an id is not reused.
KeysNeverReissued ==
  [][\A d \in Device, k \in KeyId :
       /\ onetime[d][k] = "used" => onetime'[d][k] = "used"
       /\ onetime[d][k] = "unused" => onetime'[d][k] # "absent"
       /\ signed[d][k] = "old" => signed'[d][k] = "old"]_vars
=============================================================================
