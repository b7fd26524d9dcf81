--------------------------- MODULE Conversations ---------------------------
(***************************************************************************)
(* POST and GET /conversations: internal/conversations Service.  A create  *)
(* looks for an existing conversation of the pair and, in a transaction of *)
(* its own, inserts one if there was none; nothing in the schema makes the *)
(* pair unique.  A conversations row is named by the request whose         *)
(* transaction inserted it.                                                *)
(***************************************************************************)
EXTENDS FiniteSets

CONSTANTS
  User,     \* accounts
  Active,   \* those with account_status = 'active'
  Request,  \* create requests; bounds them
  Listing,  \* list requests; bounds them
  None

ASSUME ConversationsAssumption ==
  /\ Active \subseteq User
  /\ None \notin User \cup Request \cup (User \X User)

VARIABLES
  pair,     \* caller and participant of a create request
  pc,       \* "find", "begin", "insert" inside the transaction, "done"
  answer,   \* what the create returned
  result,   \* the conversation it returned
  before,   \* history: creates of the pair that had ended when it began
  convs,    \* committed rows of conversations
  members,  \* committed rows of conversation_participants, per conversation
  lister, lpc, known, found, items  \* list requests: caller, next query, rows
                                    \* committed at its start, rows, answer

createVars == <<pair, pc, answer, result, before>>
listVars   == <<lister, lpc, known, found, items>>
vars == <<createVars, convs, members, listVars>>

Item == [conv : Request, other : User \cup {None}]

TypeOK ==
  /\ pair \in [Request -> (User \X User) \cup {None}]
  /\ pc \in [Request -> {"idle", "find", "begin", "insert", "done"}]
  /\ answer \in [Request -> {"none", "created", "existing", "refused", "error"}]
  /\ result \in [Request -> Request \cup {None}]
  /\ before \in [Request -> SUBSET Request]
  /\ convs \subseteq Request
  /\ members \in [Request -> SUBSET User]
  /\ lister \in [Listing -> User \cup {None}]
  /\ lpc \in [Listing -> {"idle", "rows", "others", "done"}]
  /\ known \in [Listing -> SUBSET Request]
  /\ found \in [Listing -> SUBSET Request]
  /\ items \in [Listing -> SUBSET Item]

Init ==
  /\ pair = [r \in Request |-> None]
  /\ pc = [r \in Request |-> "idle"]
  /\ answer = [r \in Request |-> "none"]
  /\ result = [r \in Request |-> None]
  /\ before = [r \in Request |-> {}]
  /\ convs = {}
  /\ members = [r \in Request |-> {}]
  /\ lister = [l \in Listing |-> None]
  /\ lpc = [l \in Listing |-> "idle"]
  /\ known = [l \in Listing |-> {}]
  /\ found = [l \in Listing |-> {}]
  /\ items = [l \in Listing |-> {}]

-----------------------------------------------------------------------------
(* CreateDirectConversation.                                               *)

InFlight(r) == pc[r] \notin {"idle", "done"}

Both(r) == {pair[r][1], pair[r][2]}

\* Fault: only conversations the same caller created are found.
ExistingOneWay(r) == {c \in convs : pair[c] = pair[r]}

\* findExistingDirectConversation: both are active participants.
Existing(r) == {c \in convs : Both(r) \subseteq members[c]}

Finish(r, a, c) ==
  /\ pc' = [pc EXCEPT ![r] = "done"]
  /\ answer' = [answer EXCEPT ![r] = a]
  /\ result' = [result EXCEPT ![r] = c]

\* Oneself and users who are not active are refused.
Start(r, caller, participant) ==
  /\ pc[r] = "idle"
  /\ before' = [before EXCEPT ![r] =
                  {s \in Request : pc[s] = "done" /\ Both(s) = {caller, participant}}]
  /\ pair' = [pair EXCEPT ![r] = <<caller, participant>>]
  /\ \/ /\ participant # caller /\ participant \in Active
        /\ pc' = [pc EXCEPT ![r] = "find"]
        /\ UNCHANGED <<answer, result>>
     \/ /\ participant = caller \/ participant \notin Active
        /\ Finish(r, "refused", None)
  /\ UNCHANGED <<convs, members, listVars>>

\* Fault: all rows found in place of the first.
FindAll(r) ==
  /\ pc[r] = "find"
  /\ \/ Existing(r) # {} /\ Finish(r, "existing", Existing(r))
     \/ /\ Existing(r) = {}
        /\ pc' = [pc EXCEPT ![r] = "begin"]
        /\ UNCHANGED <<answer, result>>
  /\ UNCHANGED <<pair, before, convs, members, listVars>>

\* LIMIT 1 without an order: any existing conversation of the pair.
FindExisting(r) ==
  /\ pc[r] = "find"
  /\ \/ \E c \in Existing(r) : Finish(r, "existing", c)
     \/ /\ Existing(r) = {}
        /\ pc' = [pc EXCEPT ![r] = "begin"]
        /\ UNCHANGED <<answer, result>>
  /\ UNCHANGED <<pair, before, convs, members, listVars>>

\* Fault: no transaction, and the caller's participant row comes along.
InsertVisibly(r) ==
  /\ pc[r] = "begin"
  /\ pc' = [pc EXCEPT ![r] = "insert"]
  /\ convs' = convs \cup {r}
  /\ members' = [members EXCEPT ![r] = {pair[r][1]}]
  /\ UNCHANGED <<pair, before, answer, result, listVars>>

\* INSERT INTO conversations, not visible to others before the commit.
InsertConversation(r) ==
  /\ pc[r] = "begin"
  /\ pc' = [pc EXCEPT ![r] = "insert"]
  /\ UNCHANGED <<pair, before, answer, result, convs, members, listVars>>

\* Fault: the other participant's row is forgotten.
CommitCaller(r) ==
  /\ pc[r] = "insert"
  /\ convs' = convs \cup {r}
  /\ members' = [members EXCEPT ![r] = {pair[r][1]}]
  /\ Finish(r, "created", r)
  /\ UNCHANGED <<pair, before, listVars>>

\* The participants are inserted and the transaction commits; the caller may
\* be told of a failure although it did.
CommitParticipants(r) ==
  /\ pc[r] = "insert"
  /\ convs' = convs \cup {r}
  /\ members' = [members EXCEPT ![r] = Both(r)]
  /\ Finish(r, "created", r) \/ Finish(r, "error", None)
  /\ UNCHANGED <<pair, before, listVars>>

\* A statement fails or the server dies: an open transaction is rolled back.
Fail(r) ==
  /\ InFlight(r)
  /\ Finish(r, "error", None)
  /\ UNCHANGED <<pair, before, convs, members, listVars>>

-----------------------------------------------------------------------------
(* ListConversations: three queries without a transaction around them.     *)

StartListing(l, u) ==
  /\ lpc[l] = "idle"
  /\ lister' = [lister EXCEPT ![l] = u]
  /\ known' = [known EXCEPT ![l] = {c \in convs : u \in members[c]}]
  /\ lpc' = [lpc EXCEPT ![l] = "rows"]
  /\ UNCHANGED <<createVars, convs, members, found, items>>

\* The conversations the caller takes part in.
ListRows(l) ==
  /\ lpc[l] = "rows"
  /\ found' = [found EXCEPT ![l] = {c \in convs : lister[l] \in members[c]}]
  /\ lpc' = [lpc EXCEPT ![l] = "others"]
  /\ UNCHANGED <<createVars, convs, members, lister, known, items>>

\* The other participants of those rows, and their profiles (users are never
\* deleted): a row whose other participant is not found is listed without.
ListOthers(l) ==
  /\ lpc[l] = "others"
  /\ items' = [items EXCEPT ![l] =
       {[conv |-> c, other |-> IF members[c] \ {lister[l]} = {} THEN None
                               ELSE CHOOSE u \in members[c] : u # lister[l]]
          : c \in found[l]}]
  /\ lpc' = [lpc EXCEPT ![l] = "done"]
  /\ UNCHANGED <<createVars, convs, members, lister, known, found>>

Next ==
  \/ \E r \in Request :
       \/ \E u, v \in User : Start(r, u, v)
       \/ FindExisting(r) \/ InsertConversation(r)
       \/ CommitParticipants(r) \/ Fail(r)
  \/ \E l \in Listing :
       \/ \E u \in User : StartListing(l, u)
       \/ ListRows(l) \/ ListOthers(l)

Spec == Init /\ [][Next]_vars

-----------------------------------------------------------------------------
(* Properties.                                                             *)

\* service.go: "returns that existing conversation instead of creating a
\* duplicate".
OneConversationPerPair ==
  \A c, d \in convs : members[c] = members[d] => c = d

\* Two users share a second conversation only when both were created by
\* requests that overlapped, in whichever direction and whatever failed.
DuplicateOnlyByOverlap ==
  \A c, d \in convs :
    c # d /\ members[c] = members[d] => c \notin before[d] /\ d \notin before[c]

\* Every conversation a create returned stands, with exactly its two users.
ReturnedIsShared ==
  \A r \in Request : answer[r] \in {"created", "existing"} =>
    /\ result[r] \in convs
    /\ members[result[r]] = Both(r)
    /\ Cardinality(Both(r)) = 2

\* A finished list names the other participant of every row, and misses none
\* of the conversations that stood when it began, though creates commit
\* between its queries.
ListingWhole ==
  \A l \in Listing : lpc[l] = "done" =>
    /\ \A i \in items[l] : i.other # None
    /\ known[l] \subseteq {i.conv : i \in items[l]}

\* A conversation once committed stays, and so do its members: sends and lists
\* may read them at any moment.
MembersAreFinal ==
  [][\A c \in convs : c \in convs' /\ members'[c] = members[c]]_<<convs, members>>
=============================================================================
