--------------------------- MODULE ChatClientProofs ---------------------------
(***************************************************************************)
(* Proofs about Inbox and ChatClient, for every set of messages, lists and *)
(* openings, every limit and every clock.  A page never changes, nor does  *)
(* what it was cut from (PageInv); the app's table is compared with its    *)
(* pages opening by opening (SyncInv).                                     *)
(***************************************************************************)
EXTENDS ChatClient, WellFoundedInduction, TLAPS

\* Every step of the server keeps the types of Inbox.
LEMMA TypeStep ==
  ASSUME TypeOK, [Next]_vars
  PROVE  TypeOK'
<1>. USE InboxAssumption DEF TypeOK, Goto, Finish, sends, lists
<1>1. ASSUME NEW m \in Msg, InsertMessage(m) PROVE TypeOK'
  BY <1>1 DEF InsertMessage
<1>2. ASSUME NEW m \in Msg, CommitMessage(m) PROVE TypeOK'
  BY <1>2 DEF CommitMessage
<1>3. ASSUME NEW l \in Listing, Refuse(l) PROVE TypeOK'
  BY <1>3 DEF Refuse
<1>4. ASSUME NEW l \in Listing, NEW c \in Msg \cup {None}, Query(l, c) PROVE TypeOK'
  BY <1>4 DEF Query, Pages, Matching, Stored
<1>5. ASSUME NEW l \in Listing, MarkDelivered(l) PROVE TypeOK'
  BY <1>5 DEF MarkDelivered
<1>6. ASSUME NEW l \in Listing, Reply(l) PROVE TypeOK'
  BY <1>6 DEF Reply
<1>7. ASSUME NEW l \in Listing, Lose(l) PROVE TypeOK'
  BY <1>7 DEF Lose
<1>8. CASE UNCHANGED vars
  BY <1>8 DEF vars
<1>. QED
  BY <1>1, <1>2, <1>3, <1>4, <1>5, <1>6, <1>7, <1>8 DEF Next

\* Spec keeps every variable of Inbox within its type.
THEOREM InboxTypeCorrect == Spec => []TypeOK
<1>1. Init => TypeOK
  BY DEF Init, TypeOK
<1>2. TypeOK /\ [Next]_vars => TypeOK'
  BY TypeStep
<1>. QED
  BY <1>1, <1>2, PTL DEF Spec

-----------------------------------------------------------------------------
\* A message that is stored keeps its created_at; the device's row is there
\* from then on or never.
LEMMA StoredStays ==
  ASSUME TypeOK, [Next]_vars, \A l \in Listing : \A m \in page[l] : status[m] # "none",
         NEW m \in Msg, place[m] = "stored"
  PROVE  /\ place'[m] = "stored" /\ created'[m] = created[m]
         /\ status[m] = "none" <=> status'[m] = "none"
<1>. USE DEF TypeOK, sends, lists
<1>1. ASSUME NEW n \in Msg, InsertMessage(n) \/ CommitMessage(n)
      PROVE  /\ place'[m] = "stored" /\ created'[m] = created[m]
             /\ status[m] = "none" <=> status'[m] = "none"
  BY <1>1 DEF InsertMessage, CommitMessage
<1>2. ASSUME NEW l \in Listing, MarkDelivered(l)
      PROVE  /\ place'[m] = "stored" /\ created'[m] = created[m]
             /\ status[m] = "none" <=> status'[m] = "none"
  BY <1>2 DEF MarkDelivered
<1>3. ASSUME NEW l \in Listing, Refuse(l) \/ Reply(l) \/ Lose(l)
      PROVE  UNCHANGED <<sends, status>>
  BY <1>3 DEF Refuse, Reply, Lose
<1>4. ASSUME NEW l \in Listing, NEW c \in Msg \cup {None}, Query(l, c)
      PROVE  UNCHANGED <<sends, status>>
  BY <1>4 DEF Query
<1>5. CASE UNCHANGED vars
  BY <1>5 DEF vars
<1>. QED
  BY <1>1, <1>2, <1>3, <1>4, <1>5 DEF Next

\* What a list has read is read once: a step leaves it, or is its query.
LEMMA ReadOnce ==
  ASSUME TypeOK, [Next]_vars, NEW l \in Listing
  PROVE  \/ UNCHANGED <<cursor[l], page[l], missing[l]>>
         \/ \E c \in Msg \cup {None} : Query(l, c)
<1>. USE DEF TypeOK, sends, lists
<1>1. ASSUME NEW n \in Msg, InsertMessage(n) \/ CommitMessage(n)
      PROVE  UNCHANGED <<cursor, page, missing>>
  BY <1>1 DEF InsertMessage, CommitMessage
<1>2. ASSUME NEW k \in Listing, MarkDelivered(k) \/ Refuse(k) \/ Reply(k) \/ Lose(k)
      PROVE  UNCHANGED <<cursor, page, missing>>
  BY <1>2 DEF MarkDelivered, Refuse, Reply, Lose
<1>3. ASSUME NEW k \in Listing \ {l}, NEW c \in Msg \cup {None}, Query(k, c)
      PROVE  UNCHANGED <<cursor[l], page[l], missing[l]>>
  BY <1>3 DEF Query
<1>4. CASE UNCHANGED vars
  BY <1>4 DEF vars
<1>. QED
  BY <1>1, <1>2, <1>3, <1>4 DEF Next

\* The query of l has run.
Asked(l) == page[l] # {} \/ cursor[l] # None \/ pc[l] \in {"mark", "reply"} \/ answer[l] = "items"

\* A list that has run its query has left "idle", and none has that has not.
LEMMA AskedOnce ==
  ASSUME TypeOK, [Next]_vars, NEW l \in Listing,
         pc[l] = "idle" => page[l] = {} /\ cursor[l] = None /\ answer[l] # "items"
  PROVE  /\ pc[l] # "idle" => pc'[l] # "idle"
         /\ (\E c \in Msg \cup {None} : Query(l, c)) \/ (Asked(l)' => Asked(l))
<1>. USE DEF TypeOK, Goto, Finish, sends, lists
<1>1. ASSUME NEW n \in Msg, InsertMessage(n) \/ CommitMessage(n)
      PROVE  UNCHANGED lists
  BY <1>1 DEF InsertMessage, CommitMessage
<1>2. ASSUME NEW k \in Listing, MarkDelivered(k) \/ Refuse(k) \/ Reply(k) \/ Lose(k)
      PROVE  /\ pc[l] # "idle" => pc'[l] # "idle"
             /\ Asked(l)' => Asked(l)
  BY <1>2 DEF MarkDelivered, Refuse, Reply, Lose, Asked
<1>3. ASSUME NEW k \in Listing, NEW c \in Msg \cup {None}, Query(k, c)
      PROVE  /\ pc[l] # "idle" => pc'[l] # "idle"
             /\ k = l \/ (Asked(l)' => Asked(l))
  BY <1>3 DEF Query, Asked
<1>. QED
  BY <1>1, <1>2, <1>3 DEF Next, vars, Asked

\* What its query left out of a page although it was stored: it has no row for
\* the device, is no older than the cursor, or no newer than a full page.
LeftOut(l, m) ==
  \/ status[m] = "none"
  \/ cursor[l] # None /\ created[m] >= created[cursor[l]]
  \/ Cardinality(page[l]) = Limit /\ \A n \in page[l] : created[m] <= created[n]

PageInv ==
  \A l \in Listing :
    /\ Asked(l) => pc[l] # "idle"
    /\ cursor[l] # None => place[cursor[l]] = "stored"
    /\ \A m \in page[l] : /\ place[m] = "stored" /\ status[m] # "none"
                          /\ cursor[l] # None => created[m] < created[cursor[l]]
    /\ Asked(l) => \A m \in Msg \ (missing[l] \cup page[l]) : place[m] = "stored" /\ LeftOut(l, m)

\* Every step of the server keeps PageInv.
LEMMA PageStep ==
  ASSUME TypeOK, PageInv, [Next]_vars
  PROVE  PageInv'
<1>1. \A m \in Msg : place[m] = "stored" =>
        /\ place'[m] = "stored" /\ created'[m] = created[m]
        /\ status[m] = "none" <=> status'[m] = "none"
  BY StoredStays DEF PageInv
<1>2. \A l \in Listing : /\ pc[l] # "idle" => pc'[l] # "idle"
                         /\ (\E c \in Msg \cup {None} : Query(l, c)) \/ (Asked(l)' => Asked(l))
  <2>. SUFFICES ASSUME NEW l \in Listing
                PROVE  /\ pc[l] # "idle" => pc'[l] # "idle"
                       /\ (\E c \in Msg \cup {None} : Query(l, c)) \/ (Asked(l)' => Asked(l))
    OBVIOUS
  <2>1. pc[l] = "idle" => page[l] = {} /\ cursor[l] = None /\ answer[l] # "items"
    BY DEF PageInv, Asked
  <2>. QED
    BY <2>1, AskedOnce
<1>. SUFFICES ASSUME NEW l \in Listing
              PROVE  /\ Asked(l)' => pc'[l] # "idle"
                     /\ cursor'[l] # None => place'[cursor'[l]] = "stored"
                     /\ \A m \in page'[l] : /\ place'[m] = "stored" /\ status'[m] # "none"
                                            /\ cursor'[l] # None => created'[m] < created'[cursor'[l]]
                     /\ Asked(l)' => \A m \in Msg \ (missing'[l] \cup page'[l]) :
                                       place'[m] = "stored" /\ LeftOut(l, m)'
  BY DEF PageInv
<1>3. CASE UNCHANGED <<cursor[l], page[l], missing[l]>> /\ (Asked(l)' => Asked(l))
  <2>1. cursor[l] \in Msg \cup {None} /\ page[l] \subseteq Msg
    BY DEF TypeOK
  <2>2. \A m \in page[l] : created'[m] = created[m]
    BY <1>1, <2>1 DEF PageInv
  <2>3. cursor[l] # None => created'[cursor[l]] = created[cursor[l]]
    BY <1>1, <2>1 DEF PageInv
  <2>4. ASSUME Asked(l), NEW m \in Msg \ (missing[l] \cup page[l])
        PROVE  place'[m] = "stored" /\ LeftOut(l, m)'
    <3>1. place[m] = "stored" /\ LeftOut(l, m)
      BY <2>4 DEF PageInv
    <3>. QED
      BY <1>1, <1>3, <2>2, <2>3, <3>1 DEF LeftOut
  <2>5. /\ Asked(l)' => pc'[l] # "idle"
        /\ cursor'[l] # None => place'[cursor'[l]] = "stored"
    BY <1>1, <1>2, <1>3, <2>1 DEF PageInv
  <2>6. \A m \in page'[l] : /\ place'[m] = "stored" /\ status'[m] # "none"
                            /\ cursor'[l] # None => created'[m] < created'[cursor'[l]]
    BY <1>1, <1>3, <2>1, <2>2, <2>3 DEF PageInv
  <2>. QED
    BY <1>3, <2>4, <2>5, <2>6
<1>4. ASSUME NEW c \in Msg \cup {None}, Query(l, c)
      PROVE  /\ pc'[l] # "idle"
             /\ cursor'[l] # None => place'[cursor'[l]] = "stored"
             /\ \A m \in page'[l] : /\ place'[m] = "stored" /\ status'[m] # "none"
                                    /\ cursor'[l] # None => created'[m] < created'[cursor'[l]]
             /\ \A m \in Msg \ (missing'[l] \cup page'[l]) :
                  place'[m] = "stored" /\ LeftOut(l, m)'
  <2>. USE InboxAssumption
  <2>1. UNCHANGED <<created, place, status>> /\ cursor'[l] = c /\ c \in Stored \cup {None}
    BY <1>4 DEF Query, sends, TypeOK
  <2>2. missing'[l] = Msg \ Stored
    BY <1>4 DEF Query, TypeOK
  <2>3. page'[l] \in Pages(Matching(c)) /\ pc'[l] # "idle"
    BY <1>4 DEF Query, Goto, TypeOK
  <2>4. \A m \in page'[l] : m \in Stored /\ status[m] # "none" /\ (c # None => created[m] < created[c])
    BY <2>3 DEF Pages, Matching
  <2>5. ASSUME NEW m \in Msg \ (missing'[l] \cup page'[l])
        PROVE  m \in Stored /\ LeftOut(l, m)'
    <3>1. m \in Stored
      BY <2>2, <2>5
    <3>2. CASE m \in Matching(c)
      <4>1. /\ \A n \in page'[l], k \in Matching(c) \ page'[l] : created[k] <= created[n]
            /\ page'[l] # Matching(c) => Cardinality(page'[l]) = Limit
        BY <2>3 DEF Pages
      <4>2. m \in Matching(c) \ page'[l]
        BY <2>5, <3>2
      <4>3. Cardinality(page'[l]) = Limit /\ \A n \in page'[l] : created[m] <= created[n]
        BY <4>1, <4>2
      <4>. QED
        BY <2>1, <3>1, <4>3 DEF LeftOut
    <3>3. CASE m \notin Matching(c)
      <4>1. status[m] = "none" \/ (c # None /\ ~(created[m] < created[c]))
        BY <3>1, <3>3 DEF Matching
      <4>2. created[m] \in Nat /\ (c # None => created[c] \in Nat)
        BY DEF TypeOK
      <4>3. status[m] = "none" \/ (c # None /\ created[m] >= created[c])
        BY <4>1, <4>2
      <4>. QED
        BY <2>1, <3>1, <4>3 DEF LeftOut
    <3>. QED
      BY <3>1, <3>2, <3>3
  <2>. QED
    BY <2>1, <2>3, <2>4, <2>5 DEF Stored
<1>. QED
  BY <1>2, <1>3, <1>4, ReadOnce

\* PageInv of every reachable state.
LEMMA PageInvariant == Spec => []PageInv
<1>1. Init => PageInv
  BY DEF Init, PageInv, Asked
<1>2. TypeOK /\ PageInv /\ [Next]_vars => PageInv'
  BY PageStep
<1>. QED
  BY <1>1, <1>2, InboxTypeCorrect, PTL DEF Spec

\* A set of numbers that is not empty has a least one.
LEMMA Least ==
  ASSUME NEW T, T \subseteq Nat, T # {}
  PROVE  \E x \in T : \A y \in T : x <= y
<1>1. PICK x \in T : \A y \in T : <<y, x>> \notin OpToRel(<, Nat)
  BY WFMin, NatLessThanWellFounded
<1>2. \A y \in T : x \in Nat /\ y \in Nat /\ ~(y < x)
  BY <1>1 DEF OpToRel
<1>. QED
  BY <1>2

\* A finished walk misses messages only for an equal created_at: of its pages
\* that begin above a message the last one holds it.
THEOREM WalkMisses == Spec => []WalkMissesOnlyTies
<1>1. TypeOK /\ PageInv => WalkMissesOnlyTies
  <2>. SUFFICES ASSUME TypeOK, PageInv,
                       NEW W \in SUBSET Listing, Walk(W), NEW m \in Msg, status[m] # "none",
                       \A l \in W : /\ m \notin page[l] \cup missing[l]
                                    /\ cursor[l] # None => created[m] # created[cursor[l]]
                PROVE  FALSE
    BY DEF WalkMissesOnlyTies
  <2>. DEFINE Above == {l \in W : cursor[l] # None /\ created[m] < created[cursor[l]]}
              T     == {created[cursor[l]] : l \in Above}
  <2>1. /\ \A n \in Msg : created[n] \in Nat
        /\ \A l \in Listing : cursor[l] \in Msg \cup {None} /\ page[l] \subseteq Msg
        /\ None \notin Msg
    BY InboxAssumption DEF TypeOK
  <2>2. ASSUME NEW l \in W, cursor[l] = None \/ l \in Above
        PROVE  \E n \in Above : cursor[l] # None => created[cursor[n]] < created[cursor[l]]
    <3>1. LeftOut(l, m)
      BY DEF PageInv, Asked, Walk
    <3>2. Cardinality(page[l]) = Limit /\ \A n \in page[l] : created[m] <= created[n]
      BY <2>1, <2>2, <3>1 DEF LeftOut
    <3>3. PICK n \in W : Follows(l, n)
      BY <3>2 DEF Walk
    <3>4. cursor[n] \in page[l] /\ cursor[n] \in Msg
      BY <2>1, <3>3 DEF Follows
    <3>5. created[m] <= created[cursor[n]] /\ created[m] # created[cursor[n]]
      BY <2>1, <3>2, <3>4
    <3>6. n \in Above
      BY <2>1, <3>4, <3>5
    <3>. QED
      BY <3>4, <3>6 DEF PageInv
  <2>3. Above # {}
    BY <2>2 DEF Walk
  <2>4. T \subseteq Nat /\ T # {}
    BY <2>1, <2>3
  <2>5. PICK l \in Above : \A n \in Above : created[cursor[l]] <= created[cursor[n]]
    <3>. HIDE DEF Above
    <3>1. PICK x \in T : \A y \in T : x <= y
      <4>. HIDE DEF T
      <4>. QED
        BY <2>4, Least
    <3>2. PICK l \in Above : x = created[cursor[l]]
      OBVIOUS
    <3>. QED
      BY <3>1, <3>2
  <2>6. PICK n \in Above : created[cursor[n]] < created[cursor[l]]
    BY <2>2, <2>5
  <2>. QED
    BY <2>1, <2>5, <2>6
<1>. QED
  BY <1>1, InboxTypeCorrect, PageInvariant, PTL

-----------------------------------------------------------------------------
\* The app and its lists only take steps of the server, or none.
LEMMA InboxStep ==
  ASSUME [ChatNext]_chatVars
  PROVE  [Next]_vars
<1>1. ASSUME NEW s \in Opening, OpenScreen(s) \/ ServeSync(s) \/ Receive(s) \/ SaveNext(s)
      PROVE  [Next]_vars
  BY <1>1, ChatClientAssumption DEF OpenScreen, ServeSync, Receive, SaveNext, Next
<1>2. ASSUME NEW l \in Listing, ServeOther(l) PROVE [Next]_vars
  BY <1>2 DEF ServeOther, Next
<1>3. CASE ServeSend
  BY <1>3 DEF ServeSend, Next
<1>4. CASE CloseScreen \/ UNCHANGED chatVars
  BY <1>4 DEF CloseScreen, chatVars
<1>. QED
  BY <1>1, <1>2, <1>3, <1>4 DEF ChatNext

\* ListMessages keeps its promises under the app: every run of ChatClient is
\* one of Inbox.
THEOREM ImplementsInbox == ChatSpec => Spec
<1>1. ChatInit => Init
  BY DEF ChatInit
<1>2. [ChatNext]_chatVars => [Next]_vars
  BY InboxStep
<1>. QED
  BY <1>1, <1>2, PTL DEF ChatSpec, Spec

\* The app's own variables.
AppOK ==
  /\ screen \in Opening \cup {None}
  /\ sync \in [Opening -> {"unopened", "waiting", "saving", "saved", "stopped", "closed"}]
  /\ left \in [Opening -> SUBSET Msg]
  /\ table \subseteq Msg
  /\ had \in [Opening -> SUBSET Msg]

\* Every step keeps the app's types.
LEMMA AppStep ==
  ASSUME TypeOK, AppOK, [ChatNext]_chatVars
  PROVE  AppOK'
<1>. USE ChatClientAssumption DEF AppOK, Reach, appVars
<1>1. ASSUME NEW s \in Opening, OpenScreen(s) PROVE AppOK'
  BY <1>1 DEF OpenScreen
<1>2. CASE CloseScreen
  BY <1>2 DEF CloseScreen
<1>3. ASSUME NEW s \in Opening, Receive(s) PROVE AppOK'
  <2>1. page[s] \subseteq Msg
    BY DEF TypeOK
  <2>. QED
    BY <1>3, <2>1 DEF Receive
<1>4. ASSUME NEW s \in Opening, SaveNext(s) PROVE AppOK'
  BY <1>4 DEF SaveNext
<1>5. CASE UNCHANGED appVars
  BY <1>5
<1>. QED
  BY <1>1, <1>2, <1>3, <1>4, <1>5
  DEF ChatNext, ServeSync, ServeOther, ServeSend, chatVars

\* ChatSpec keeps every variable within its type.
THEOREM ChatTypeCorrect == ChatSpec => []ChatTypeOK
<1>1. ChatInit => AppOK
  BY DEF ChatInit, AppOK
<1>2. TypeOK /\ AppOK /\ [ChatNext]_chatVars => AppOK'
  BY AppStep
<1>3. TypeOK /\ AppOK => ChatTypeOK
  BY DEF AppOK, ChatTypeOK
<1>. QED
  BY <1>1, <1>2, <1>3, ImplementsInbox, InboxTypeCorrect, PTL DEF ChatSpec

\* The walk of a program beside the app misses no more than it does alone.
THEOREM WalkMissesBesideApp == ChatSpec => []WalkMissesOnlyTies
BY ImplementsInbox, WalkMisses, PTL

-----------------------------------------------------------------------------
\* How far each opening is with its list, and what of its page is in the table.
SyncInv ==
  \A s \in Opening :
    /\ sync[s] = "unopened" => pc[s] = "idle"
    /\ pc[s] # "done" => sync[s] \in {"unopened", "waiting", "closed"}
    /\ sync[s] = "waiting" => pc[s] # "done"
    /\ sync[s] \in {"waiting", "saving"} => screen = s
    /\ sync[s] = "saving" => /\ left[s] \subseteq page[s]
                             /\ page[s] \ left[s] \subseteq table
                             /\ table \cap left[s] \subseteq had[s]
    /\ sync[s] = "saved" => page[s] \subseteq table
    /\ sync[s] = "stopped" =>
         \/ answer[s] = "lost"
         \/ \A m \in page[s] \ table : \E n \in page[s] \cap had[s] : created[n] <= created[m]

\* The server's steps leave the lists of others alone, and a list that is done.
LEMMA ListTurn ==
  ASSUME TypeOK, NEW l \in Listing,
         \/ \E c \in Msg \cup {None} : Query(l, c)
         \/ MarkDelivered(l) \/ Refuse(l) \/ Reply(l) \/ Lose(l)
  PROVE  /\ UNCHANGED created
         /\ pc[l] # "done"
         /\ \A k \in Listing \ {l} : pc'[k] = pc[k] /\ page'[k] = page[k] /\ answer'[k] = answer[k]
BY DEF TypeOK, Query, MarkDelivered, Refuse, Reply, Lose, Goto, Finish, sends, lists

\* Every step keeps SyncInv.
LEMMA SyncStep ==
  ASSUME TypeOK, PageInv, AppOK, SyncInv, [ChatNext]_chatVars
  PROVE  SyncInv'
<1>. USE ChatClientAssumption
<1>1. \A s \in Opening : \A m \in page[s] : created'[m] = created[m]
  BY InboxStep, StoredStays DEF PageInv, TypeOK
<1>2. ASSUME NEW t \in Opening, OpenScreen(t) PROVE SyncInv'
  BY <1>2 DEF OpenScreen, Reach, SyncInv, AppOK, vars, sends, lists
<1>3. CASE CloseScreen
  BY <1>3 DEF CloseScreen, Reach, SyncInv, AppOK, vars, sends, lists
<1>4. ASSUME NEW t \in Opening, ServeSync(t) PROVE SyncInv'
  <2>1. /\ \A s \in Opening \ {t} : pc'[s] = pc[s] /\ page'[s] = page[s] /\ answer'[s] = answer[s]
        /\ UNCHANGED <<created, screen, sync, left, table, had>>
    BY <1>4, ListTurn DEF ServeSync, appVars
  <2>2. pc[t] # "done" /\ pc'[t] # "done" /\ sync[t] # "unopened"
    BY <1>4 DEF ServeSync, Query, MarkDelivered, Goto, TypeOK
  <2>3. sync[t] \in {"waiting", "closed"} /\ (sync[t] = "waiting" => screen = t)
    BY <2>2 DEF SyncInv
  <2>. QED
    BY <2>1, <2>2, <2>3 DEF SyncInv
<1>5. ASSUME NEW t \in Opening, Receive(t) PROVE SyncInv'
  <2>1. /\ \A s \in Opening \ {t} : pc'[s] = pc[s] /\ page'[s] = page[s] /\ answer'[s] = answer[s]
        /\ UNCHANGED <<created, screen, table>>
        /\ pc'[t] = "done" /\ page'[t] = page[t]
        /\ answer'[t] \in {"items", "lost"}
    BY <1>5, ListTurn DEF Receive, Reply, Lose, Finish, Goto, TypeOK
  <2>2. CASE sync[t] = "closed" /\ UNCHANGED <<sync, left, had>>
    BY <2>1, <2>2 DEF SyncInv
  <2>3. CASE sync[t] = "waiting" /\ answer'[t] # "items" /\ Reach(t, "stopped")
             /\ UNCHANGED <<left, had>>
    BY <2>1, <2>3 DEF SyncInv, AppOK, Reach
  <2>4. CASE /\ sync[t] = "waiting"
             /\ Reach(t, IF page[t] = {} THEN "saved" ELSE "saving")
             /\ left' = [left EXCEPT ![t] = page[t]]
             /\ had' = [had EXCEPT ![t] = table]
    <3>1. /\ \A s \in Opening \ {t} : sync'[s] = sync[s] /\ left'[s] = left[s] /\ had'[s] = had[s]
          /\ sync'[t] = IF page[t] = {} THEN "saved" ELSE "saving"
          /\ left'[t] = page[t] /\ had'[t] = table
      BY <2>4 DEF AppOK, Reach
    <3>2. screen = t
      BY <2>4 DEF SyncInv
    <3>. QED
      BY <2>1, <3>1, <3>2 DEF SyncInv
  <2>. QED
    BY <1>5, <2>2, <2>3, <2>4 DEF Receive
<1>6. ASSUME NEW t \in Opening, SaveNext(t) PROVE SyncInv'
  <2>1. /\ sync[t] = "saving" /\ screen = t
        /\ left[t] \subseteq page[t] /\ page[t] \ left[t] \subseteq table
        /\ table \cap left[t] \subseteq had[t]
        /\ UNCHANGED <<created, pc, page, answer, screen, had>>
    BY <1>6 DEF SaveNext, SyncInv, vars, sends, lists
  <2>2. PICK m \in left[t] :
          /\ \A n \in left[t] : created[m] <= created[n]
          /\ \/ /\ m \notin table
                /\ table' = table \cup {m}
                /\ left' = [left EXCEPT ![t] = @ \ {m}]
                /\ Reach(t, IF left[t] = {m} THEN "saved" ELSE "saving")
             \/ /\ m \in table
                /\ Reach(t, "stopped")
                /\ UNCHANGED <<table, left>>
    BY <1>6 DEF SaveNext
  <2>3. \A s \in Opening \ {t} : sync'[s] = sync[s] /\ left'[s] = left[s] /\ sync[s] # "saving"
    BY <2>1, <2>2 DEF SyncInv, AppOK, Reach
  <2>4. table \subseteq table'
    BY <2>2
  <2>5. CASE m \notin table
    <3>1. /\ table' = table \cup {m} /\ left'[t] = left[t] \ {m}
          /\ sync'[t] = IF left[t] = {m} THEN "saved" ELSE "saving"
      BY <2>2, <2>5 DEF AppOK, Reach
    <3>. QED
      BY <2>1, <2>3, <2>4, <3>1 DEF SyncInv
  <2>6. CASE m \in table
    <3>1. sync'[t] = "stopped" /\ table' = table
      BY <2>2, <2>6 DEF AppOK, Reach
    <3>2. \A k \in page[t] \ table : created[m] <= created[k]
      BY <2>1, <2>2
    <3>3. m \in page[t] \cap had[t]
      BY <2>1, <2>6
    <3>. QED
      BY <2>1, <2>3, <3>1, <3>2, <3>3 DEF SyncInv
  <2>. QED
    BY <2>5, <2>6
<1>7. ASSUME NEW l \in Listing, ServeOther(l) PROVE SyncInv'
  <2>1. /\ l \notin Opening
        /\ UNCHANGED <<created, screen, sync, left, table, had>>
        /\ \A s \in Opening : pc'[s] = pc[s] /\ page'[s] = page[s] /\ answer'[s] = answer[s]
    BY <1>7, ListTurn DEF ServeOther, appVars
  <2>. QED
    BY <2>1 DEF SyncInv
<1>8. CASE ServeSend
  <2>1. UNCHANGED <<pc, page, answer, screen, sync, left, table, had>>
    BY <1>8 DEF ServeSend, InsertMessage, CommitMessage, appVars, lists
  <2>. QED
    BY <1>1, <2>1 DEF SyncInv
<1>9. CASE UNCHANGED chatVars
  BY <1>9 DEF SyncInv, chatVars, appVars, vars, sends, lists
<1>. QED
  BY <1>2, <1>3, <1>4, <1>5, <1>6, <1>7, <1>8, <1>9 DEF ChatNext

\* A message is delivered only by a list that has it on its page.
DeliveredInv == \A m \in Msg : status[m] = "delivered" => \E l \in Listing : m \in page[l]

\* Every step of the server keeps it.
LEMMA DeliveredStep ==
  ASSUME TypeOK, PageInv, DeliveredInv, [Next]_vars
  PROVE  DeliveredInv'
<1>1. \A l \in Listing : page[l] # {} => page'[l] = page[l]
  BY ReadOnce DEF PageInv, Asked, Query
<1>2. \A m \in Msg : status'[m] = "delivered" /\ status[m] # "delivered" =>
        \E l \in Listing : m \in page[l]
  <2>. USE DEF TypeOK, sends, lists
  <2>1. ASSUME NEW n \in Msg, InsertMessage(n) \/ CommitMessage(n)
        PROVE  \A m \in Msg : status'[m] = "delivered" => status[m] = "delivered"
    BY <2>1 DEF InsertMessage, CommitMessage
  <2>2. ASSUME NEW l \in Listing, MarkDelivered(l)
        PROVE  \A m \in Msg : status'[m] = "delivered" => status[m] = "delivered" \/ m \in page[l]
    BY <2>2 DEF MarkDelivered
  <2>3. ASSUME NEW l \in Listing, Refuse(l) \/ Reply(l) \/ Lose(l) PROVE UNCHANGED status
    BY <2>3 DEF Refuse, Reply, Lose
  <2>4. ASSUME NEW l \in Listing, NEW c \in Msg \cup {None}, Query(l, c) PROVE UNCHANGED status
    BY <2>4 DEF Query
  <2>5. CASE UNCHANGED vars
    BY <2>5 DEF vars
  <2>. QED
    BY <2>1, <2>2, <2>3, <2>4, <2>5 DEF Next
<1>. QED
  BY <1>1, <1>2 DEF DeliveredInv

\* What the server calls delivered and the app does not have is accounted for.
THEOREM DeliveredAccountedFor == ChatSpec => []DeliveredButUnsaved
<1>1. ChatInit => AppOK /\ SyncInv /\ DeliveredInv
  BY ChatClientAssumption DEF ChatInit, Init, AppOK, SyncInv, DeliveredInv
<1>2. TypeOK /\ PageInv /\ AppOK /\ SyncInv /\ [ChatNext]_chatVars => SyncInv'
  BY SyncStep
<1>3. TypeOK /\ PageInv /\ DeliveredInv /\ [ChatNext]_chatVars => DeliveredInv'
  BY DeliveredStep, InboxStep
<1>4. TypeOK /\ AppOK /\ [ChatNext]_chatVars => AppOK'
  BY AppStep
<1>5. PageInv /\ AppOK /\ SyncInv /\ DeliveredInv => DeliveredButUnsaved
  <2>. SUFFICES ASSUME PageInv, AppOK, SyncInv, DeliveredInv,
                       NEW m \in Msg, status[m] = "delivered", m \notin table
                PROVE  \E l \in Listing :
                         /\ m \in page[l]
                         /\ \/ l \notin Opening
                            \/ sync[l] \in {"waiting", "saving", "closed"} \/ answer[l] = "lost"
                            \/ \E n \in page[l] \cap had[l] : created[n] <= created[m]
    BY DEF DeliveredButUnsaved
  <2>1. PICK l \in Listing : m \in page[l]
    BY DEF DeliveredInv
  <2>2. pc[l] # "idle"
    BY <2>1 DEF PageInv, Asked
  <2>3. CASE l \in Opening
    BY <2>1, <2>2, <2>3 DEF SyncInv, AppOK
  <2>. QED
    BY <2>1, <2>3
<1>6. ChatSpec => [](TypeOK /\ PageInv)
  BY ImplementsInbox, InboxTypeCorrect, PageInvariant, PTL
<1>. QED
  BY <1>1, <1>2, <1>3, <1>4, <1>5, <1>6, PTL DEF ChatSpec
=============================================================================
