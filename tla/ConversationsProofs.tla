------------------------- MODULE ConversationsProofs -------------------------
(***************************************************************************)
(* Proofs about Conversations, for every set of users and requests.  The   *)
(* invariant is built in layers: types and the pair a request works on,    *)
(* the rows committed for it (ConvInv), what requests that began later     *)
(* still find (FoundInv), and what a list has read so far (ListInv).       *)
(***************************************************************************)
EXTENDS Conversations, FiniteSetTheorems, TLAPS

\* A request past its start has a pair, and goes on only with two users.
PairInv ==
  \A r \in Request :
    /\ pc[r] # "idle" => pair[r] \in User \X User
    /\ InFlight(r) => pair[r][1] # pair[r][2]

\* The members of a conversation are typed by the pair of its request.
TypeInv == TypeOK /\ PairInv

\* Every step keeps types and pairs.
LEMMA TypeStep ==
  ASSUME TypeInv, [Next]_vars
  PROVE  TypeInv'
<1>. USE ConversationsAssumption DEF TypeInv, TypeOK, PairInv, InFlight, Finish, Both,
       createVars, listVars
<1>1. ASSUME NEW r \in Request, NEW u \in User, NEW v \in User, Start(r, u, v)
      PROVE  TypeInv'
  BY <1>1 DEF Start
<1>2. ASSUME NEW r \in Request, FindExisting(r) PROVE TypeInv'
  <2>1. ASSUME NEW c \in Existing(r), Finish(r, "existing", c) PROVE TypeInv'
    <3>1. c \in Request
      BY <2>1 DEF Existing
    <3>2. pc' \in [Request -> {"idle", "find", "begin", "insert", "done"}]
      BY <2>1
    <3>3. answer' \in [Request -> {"none", "created", "existing", "refused", "error"}]
      BY <2>1
    <3>4. result' \in [Request -> Request \cup {None}]
      BY <2>1, <3>1
    <3>. QED
      BY <1>2, <2>1, <3>2, <3>3, <3>4 DEF FindExisting
  <2>2. CASE Existing(r) = {}
    BY <1>2, <2>2 DEF FindExisting
  <2>. QED
    BY <1>2, <2>1, <2>2 DEF FindExisting
<1>3. ASSUME NEW r \in Request, InsertConversation(r) PROVE TypeInv'
  BY <1>3 DEF InsertConversation
<1>4. ASSUME NEW r \in Request, CommitParticipants(r) PROVE TypeInv'
  <2>1. Both(r) \subseteq User
    BY <1>4 DEF CommitParticipants
  <2>2. members' \in [Request -> SUBSET User] /\ convs' \subseteq Request
    BY <1>4, <2>1 DEF CommitParticipants
  <2>3. /\ pc' \in [Request -> {"idle", "find", "begin", "insert", "done"}]
        /\ answer' \in [Request -> {"none", "created", "existing", "refused", "error"}]
        /\ result' \in [Request -> Request \cup {None}]
    <3>1. CASE Finish(r, "created", r)
      BY <3>1
    <3>2. CASE Finish(r, "error", None)
      BY <3>2
    <3>. QED
      BY <1>4, <3>1, <3>2 DEF CommitParticipants
  <2>. QED
    BY <1>4, <2>2, <2>3 DEF CommitParticipants
<1>5. ASSUME NEW r \in Request, Fail(r) PROVE TypeInv'
  BY <1>5 DEF Fail
<1>6. ASSUME NEW l \in Listing, NEW u \in User, StartListing(l, u) PROVE TypeInv'
  BY <1>6 DEF StartListing
<1>7. ASSUME NEW l \in Listing, ListRows(l) PROVE TypeInv'
  BY <1>7 DEF ListRows
<1>8. ASSUME NEW l \in Listing, ListOthers(l) PROVE TypeInv'
  <2>1. ASSUME NEW c \in found[l]
        PROVE  [conv |-> c, other |-> IF members[c] \ {lister[l]} = {} THEN None
                            ELSE CHOOSE u \in members[c] : u # lister[l]] \in Item
    <3>1. c \in Request /\ members[c] \subseteq User
      OBVIOUS
    <3>2. CASE members[c] \ {lister[l]} = {}
      BY <3>1, <3>2 DEF Item
    <3>3. CASE members[c] \ {lister[l]} # {}
      <4>1. (CHOOSE u \in members[c] : u # lister[l]) \in members[c]
        BY <3>3
      <4>. QED
        BY <3>1, <3>3, <4>1 DEF Item
    <3>. QED
      BY <3>2, <3>3
  <2>2. items' \in [Listing -> SUBSET Item]
    BY <1>8, <2>1 DEF ListOthers
  <2>. QED
    BY <1>8, <2>2 DEF ListOthers
<1>9. CASE UNCHANGED vars
  BY <1>9 DEF vars
<1>. QED
  BY <1>1, <1>2, <1>3, <1>4, <1>5, <1>6, <1>7, <1>8, <1>9 DEF Next

\* Spec keeps every variable within its type.
THEOREM TypeCorrect == Spec => []TypeOK
<1>1. Init => TypeInv
  BY DEF Init, TypeInv, TypeOK, PairInv, InFlight
<1>2. TypeInv /\ [Next]_vars => TypeInv'
  BY TypeStep
<1>3. TypeInv => TypeOK
  BY DEF TypeInv
<1>. QED
  BY <1>1, <1>2, <1>3, PTL DEF Spec

-----------------------------------------------------------------------------
\* What is committed, and what was returned, is a conversation of the two users
\* of its request.
ConvInv ==
  /\ \A c \in convs :
       pc[c] = "done" /\ pair[c][1] # pair[c][2] /\ members[c] = Both(c)
  /\ \A r \in Request :
       answer[r] \in {"created", "existing"} =>
         /\ pc[r] = "done" /\ pair[r][1] # pair[r][2]
         /\ result[r] \in convs /\ members[result[r]] = Both(r)

\* Committed conversations and ended requests stay as they are.
Kept ==
  /\ convs \subseteq convs'
  /\ \A c \in convs : members'[c] = members[c]
  /\ \A r \in Request :
       /\ pc[r] # "idle" => pair'[r] = pair[r] /\ before'[r] = before[r] /\ pc'[r] # "idle"
       /\ pc[r] = "done" =>
            pc'[r] = "done" /\ answer'[r] = answer[r] /\ result'[r] = result[r]
       /\ r \in convs' => r \in convs \/ pc[r] = "insert"

\* No step of a create or of a list touches what another has committed.
LEMMA KeptStep ==
  ASSUME TypeInv, ConvInv, [Next]_vars
  PROVE  Kept
<1>. USE DEF TypeInv, TypeOK, ConvInv, Kept, InFlight, Finish, createVars, listVars
<1>1. ASSUME NEW r \in Request, NEW u \in User, NEW v \in User, Start(r, u, v)
      PROVE  Kept
  BY <1>1 DEF Start
<1>2. ASSUME NEW r \in Request, FindExisting(r)
      PROVE  Kept
  BY <1>2 DEF FindExisting, Existing
<1>3. ASSUME NEW r \in Request, InsertConversation(r)
      PROVE  Kept
  BY <1>3 DEF InsertConversation
<1>4. ASSUME NEW r \in Request, CommitParticipants(r)
      PROVE  Kept
  BY <1>4 DEF CommitParticipants
<1>5. ASSUME NEW r \in Request, Fail(r)
      PROVE  Kept
  BY <1>5 DEF Fail
<1>6. ASSUME NEW l \in Listing, NEW u \in User, StartListing(l, u)
      PROVE  Kept
  BY <1>6 DEF StartListing
<1>7. ASSUME NEW l \in Listing, ListRows(l)
      PROVE  Kept
  BY <1>7 DEF ListRows
<1>8. ASSUME NEW l \in Listing, ListOthers(l)
      PROVE  Kept
  BY <1>8 DEF ListOthers
<1>9. CASE UNCHANGED vars
  BY <1>9 DEF vars
<1>. QED
  BY <1>1, <1>2, <1>3, <1>4, <1>5, <1>6, <1>7, <1>8, <1>9 DEF Next

\* Every step keeps ConvInv: what FindExisting finds has both users of its
\* request among exactly two members.
LEMMA ConvStep ==
  ASSUME TypeInv, ConvInv, [Next]_vars
  PROVE  ConvInv'
<1>a. Kept /\ TypeInv'
  BY KeptStep, TypeStep
<1>. USE <1>a DEF TypeInv, TypeOK, PairInv, ConvInv, Kept, InFlight, Finish, Both,
       createVars, listVars
<1>1. ASSUME NEW r \in Request, NEW u \in User, NEW v \in User, Start(r, u, v)
      PROVE  ConvInv'
  BY <1>1 DEF Start
<1>2. ASSUME NEW r \in Request, FindExisting(r)
      PROVE  ConvInv'
  BY <1>2 DEF FindExisting, Existing
<1>3. ASSUME NEW r \in Request, InsertConversation(r)
      PROVE  ConvInv'
  BY <1>3 DEF InsertConversation
<1>4. ASSUME NEW r \in Request, CommitParticipants(r)
      PROVE  ConvInv'
  BY <1>4 DEF CommitParticipants
<1>5. ASSUME NEW r \in Request, Fail(r)
      PROVE  ConvInv'
  BY <1>5 DEF Fail
<1>6. ASSUME NEW l \in Listing, NEW u \in User, StartListing(l, u)
      PROVE  ConvInv'
  BY <1>6 DEF StartListing
<1>7. ASSUME NEW l \in Listing, ListRows(l)
      PROVE  ConvInv'
  BY <1>7 DEF ListRows
<1>8. ASSUME NEW l \in Listing, ListOthers(l)
      PROVE  ConvInv'
  BY <1>8 DEF ListOthers
<1>9. CASE UNCHANGED vars
  BY <1>9 DEF vars
<1>. QED
  BY <1>1, <1>2, <1>3, <1>4, <1>5, <1>6, <1>7, <1>8, <1>9 DEF Next

\* The inductive invariant of the theorems below.
RowsOK == TypeInv /\ ConvInv

\* RowsOK holds in every state.
LEMMA RowsOKInvariant == Spec => []RowsOK
<1>1. Init => RowsOK
  BY DEF Init, RowsOK, TypeInv, TypeOK, PairInv, InFlight, ConvInv
<1>2. RowsOK /\ [Next]_vars => RowsOK'
  BY TypeStep, ConvStep DEF RowsOK
<1>. QED
  BY <1>1, <1>2, PTL DEF Spec

\* Every conversation a create returned stands, with exactly its two users.
THEOREM ReturnsShared == Spec => []ReturnedIsShared
<1>1. ASSUME NEW a, NEW b, a # b
      PROVE  Cardinality({a, b}) = 2
  <2>1. IsFiniteSet({a}) /\ Cardinality({a}) = 1
    BY FS_Singleton
  <2>2. Cardinality({a} \cup {b}) = Cardinality({a}) + 1
    BY <1>1, <2>1, FS_AddElement
  <2>3. {a} \cup {b} = {a, b}
    OBVIOUS
  <2>. QED
    BY <2>1, <2>2, <2>3
<1>2. RowsOK => ReturnedIsShared
  <2>1. SUFFICES ASSUME RowsOK, NEW r \in Request, answer[r] \in {"created", "existing"}
                 PROVE  /\ result[r] \in convs
                        /\ members[result[r]] = Both(r)
                        /\ Cardinality(Both(r)) = 2
    BY DEF ReturnedIsShared
  <2>2. result[r] \in convs /\ members[result[r]] = Both(r) /\ pair[r][1] # pair[r][2]
    BY <2>1 DEF RowsOK, ConvInv
  <2>. QED
    BY <2>2, <1>1 DEF Both
<1>. QED
  BY <1>2, RowsOKInvariant, PTL

\* A committed conversation keeps its members, which is what the services that
\* read them take for granted.
THEOREM MembersStay == Spec => MembersAreFinal
<1>1. RowsOK /\ [Next]_vars =>
        [\A c \in convs : c \in convs' /\ members'[c] = members[c]]_<<convs, members>>
  BY KeptStep DEF RowsOK, Kept
<1>. QED
  BY <1>1, RowsOKInvariant, PTL DEF Spec, MembersAreFinal

-----------------------------------------------------------------------------
\* A create that began after another of its pair had committed finds a
\* conversation, and so does not insert one.
FoundInv ==
  \A c, d \in Request :
    c \in before[d] =>
      /\ pc[c] = "done" /\ pc[d] # "idle" /\ Both(c) = Both(d)
      /\ c \in convs => pc[d] \in {"find", "done"} /\ d \notin convs

\* Every step keeps FoundInv.
LEMMA FoundStep ==
  ASSUME RowsOK, FoundInv, [Next]_vars
  PROVE  FoundInv'
<1>a. Kept /\ RowsOK'
  BY KeptStep, TypeStep, ConvStep DEF RowsOK
<1>b. \A r \in Request : pc[r] # "idle" => Both(r)' = Both(r)
  BY <1>a DEF Kept, Both
<1>. USE <1>a, <1>b DEF RowsOK, TypeInv, TypeOK, ConvInv, Kept, FoundInv, InFlight, Finish,
       createVars, listVars
<1>1. ASSUME NEW r \in Request, NEW u \in User, NEW v \in User, Start(r, u, v)
      PROVE  FoundInv'
  <2>1. Both(r)' = {u, v}
    BY <1>1 DEF Start, Both
  <2>2. \A c \in before'[r] : pc[c] = "done" /\ Both(c) = {u, v}
    BY <1>1 DEF Start
  <2>3. \A d \in Request \ {r} : before'[d] = before[d] /\ pc'[d] = pc[d]
    BY <1>1 DEF Start
  <2>4. pc'[r] \in {"find", "done"} /\ convs' = convs /\ r \notin convs
    BY <1>1 DEF Start
  <2>5. ASSUME NEW c \in Request, NEW d \in Request, c \in before'[d]
        PROVE  /\ pc'[c] = "done" /\ pc'[d] # "idle" /\ Both(c)' = Both(d)'
               /\ c \in convs' => pc'[d] \in {"find", "done"} /\ d \notin convs'
    <3>1. CASE d = r
      <4>1. pc[c] = "done" /\ Both(c) = {u, v}
        BY <2>2, <2>5, <3>1
      <4>2. Both(c)' = {u, v}
        BY <4>1
      <4>3. Both(d)' = {u, v}
        BY <2>1, <3>1
      <4>4. pc'[c] = "done"
        BY <4>1
      <4>5. pc'[d] \in {"find", "done"} /\ d \notin convs'
        BY <2>4, <3>1
      <4>. QED
        BY <4>2, <4>3, <4>4, <4>5
    <3>2. CASE d # r
      BY <2>3, <2>4, <2>5, <3>2
    <3>. QED
      BY <3>1, <3>2
  <2>. QED
    BY <2>5
<1>2. ASSUME NEW r \in Request, FindExisting(r)
      PROVE  FoundInv'
  BY <1>2 DEF FindExisting, Existing
<1>3. ASSUME NEW r \in Request, InsertConversation(r)
      PROVE  FoundInv'
  BY <1>3 DEF InsertConversation
<1>4. ASSUME NEW r \in Request, CommitParticipants(r)
      PROVE  FoundInv'
  BY <1>4 DEF CommitParticipants
<1>5. ASSUME NEW r \in Request, Fail(r)
      PROVE  FoundInv'
  BY <1>5 DEF Fail
<1>6. ASSUME NEW l \in Listing, NEW u \in User, StartListing(l, u)
      PROVE  FoundInv'
  BY <1>6 DEF StartListing
<1>7. ASSUME NEW l \in Listing, ListRows(l)
      PROVE  FoundInv'
  BY <1>7 DEF ListRows
<1>8. ASSUME NEW l \in Listing, ListOthers(l)
      PROVE  FoundInv'
  BY <1>8 DEF ListOthers
<1>9. CASE UNCHANGED vars
  BY <1>9 DEF vars
<1>. QED
  BY <1>1, <1>2, <1>3, <1>4, <1>5, <1>6, <1>7, <1>8, <1>9 DEF Next

\* Two users share a second conversation only when both were created by
\* requests that overlapped.
THEOREM DuplicateNeedsOverlap == Spec => []DuplicateOnlyByOverlap
<1>1. Init => FoundInv
  BY DEF Init, FoundInv
<1>2. RowsOK /\ FoundInv /\ [Next]_vars => FoundInv'
  BY FoundStep
<1>3. RowsOK /\ FoundInv => DuplicateOnlyByOverlap
  BY DEF RowsOK, TypeInv, TypeOK, FoundInv, DuplicateOnlyByOverlap
<1>. QED
  BY <1>1, <1>2, <1>3, RowsOKInvariant, PTL DEF Spec

-----------------------------------------------------------------------------
\* What a list has read so far covers what stood when it began.
ListInv ==
  \A l \in Listing :
    /\ lpc[l] # "idle" => \A c \in known[l] : c \in convs /\ lister[l] \in members[c]
    /\ lpc[l] \in {"others", "done"} =>
         known[l] \subseteq found[l] /\ found[l] \subseteq convs
    /\ lpc[l] = "done" =>
         /\ \A i \in items[l] : i.other # None
         /\ known[l] \subseteq {i.conv : i \in items[l]}

\* Every step keeps ListInv: a committed row never lacks its other member.
LEMMA ListStep ==
  ASSUME RowsOK, ListInv, [Next]_vars
  PROVE  ListInv'
<1>a. Kept
  BY KeptStep DEF RowsOK
<1>. USE <1>a, ConversationsAssumption DEF RowsOK, TypeInv, TypeOK, ConvInv, Kept, ListInv,
       Finish, Both, createVars, listVars
<1>1. ASSUME NEW r \in Request, NEW u \in User, NEW v \in User, Start(r, u, v)
      PROVE  ListInv'
  BY <1>1 DEF Start
<1>2. ASSUME NEW r \in Request, FindExisting(r)
      PROVE  ListInv'
  BY <1>2 DEF FindExisting, Existing
<1>3. ASSUME NEW r \in Request, InsertConversation(r)
      PROVE  ListInv'
  BY <1>3 DEF InsertConversation
<1>4. ASSUME NEW r \in Request, CommitParticipants(r)
      PROVE  ListInv'
  BY <1>4 DEF CommitParticipants
<1>5. ASSUME NEW r \in Request, Fail(r)
      PROVE  ListInv'
  BY <1>5 DEF Fail
<1>6. ASSUME NEW l \in Listing, NEW u \in User, StartListing(l, u)
      PROVE  ListInv'
  BY <1>6 DEF StartListing
<1>7. ASSUME NEW l \in Listing, ListRows(l)
      PROVE  ListInv'
  BY <1>7 DEF ListRows
<1>8. ASSUME NEW l \in Listing, ListOthers(l)
      PROVE  ListInv'
  <2>. DEFINE Entry(c) == [conv |-> c, other |-> IF members[c] \ {lister[l]} = {} THEN None
                              ELSE CHOOSE u \in members[c] : u # lister[l]]
  <2>1. ASSUME NEW c \in found[l]
        PROVE  Entry(c).conv = c /\ Entry(c).other # None
    <3>1. c \in convs /\ c \in Request
      BY <1>8 DEF ListOthers
    <3>2. members[c] = {pair[c][1], pair[c][2]} /\ pair[c][1] # pair[c][2]
      BY <3>1
    <3>3. \E u \in members[c] : u # lister[l]
      BY <3>2
    <3>4. /\ members[c] \ {lister[l]} # {}
          /\ (CHOOSE u \in members[c] : u # lister[l]) \in members[c]
      BY <3>3
    <3>5. members[c] \subseteq User
      BY <3>1
    <3>. QED
      BY <3>4, <3>5
  <2>2. items'[l] = {Entry(c) : c \in found[l]}
    BY <1>8 DEF ListOthers
  <2>. HIDE DEF Entry
  <2>3. \A i \in items'[l] : i.other # None
    BY <2>1, <2>2
  <2>4. found[l] \subseteq {i.conv : i \in items'[l]}
    BY <2>1, <2>2
  <2>5. known[l] \subseteq found[l] /\ known'[l] = known[l]
    BY <1>8 DEF ListOthers
  <2>6. /\ \A m \in Listing \ {l} : items'[m] = items[m] /\ lpc'[m] = lpc[m]
        /\ lpc'[l] = "done" /\ lpc[l] = "others"
        /\ lister' = lister /\ known' = known /\ found' = found
    BY <1>8 DEF ListOthers
  <2>7. ASSUME NEW m \in Listing
        PROVE  /\ lpc'[m] # "idle" =>
                    \A c \in known'[m] : c \in convs' /\ lister'[m] \in members'[c]
               /\ lpc'[m] \in {"others", "done"} =>
                    known'[m] \subseteq found'[m] /\ found'[m] \subseteq convs'
    <3>1. lpc[m] # "idle" => \A c \in known[m] : c \in convs /\ lister[m] \in members[c]
      OBVIOUS
    <3>2. lpc[m] \in {"others", "done"} => known[m] \subseteq found[m] /\ found[m] \subseteq convs
      OBVIOUS
    <3>. QED
      BY <2>6, <3>1, <3>2
  <2>8. ASSUME NEW m \in Listing, lpc'[m] = "done"
        PROVE  /\ \A i \in items'[m] : i.other # None
               /\ known'[m] \subseteq {i.conv : i \in items'[m]}
    <3>1. CASE m = l
      BY <2>3, <2>4, <2>5, <3>1
    <3>2. CASE m # l
      BY <2>6, <2>8, <3>2
    <3>. QED
      BY <3>1, <3>2
  <2>. QED
    BY <2>7, <2>8
<1>9. CASE UNCHANGED vars
  BY <1>9 DEF vars
<1>. QED
  BY <1>1, <1>2, <1>3, <1>4, <1>5, <1>6, <1>7, <1>8, <1>9 DEF Next

\* A finished list names the other participant of every row and misses none of
\* the conversations that stood when it began.
THEOREM ListsWhole == Spec => []ListingWhole
<1>1. Init => ListInv
  BY DEF Init, ListInv
<1>2. RowsOK /\ ListInv /\ [Next]_vars => ListInv'
  BY ListStep
<1>3. ListInv => ListingWhole
  BY DEF ListInv, ListingWhole
<1>. QED
  BY <1>1, <1>2, <1>3, RowsOKInvariant, PTL DEF Spec
==============================================================================
