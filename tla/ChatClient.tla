----------------------------- MODULE ChatClient -----------------------------
(***************************************************************************)
(* The app's chat screen on the device that Inbox lists for: ChatScreen    *)
(* and MessageRepository.getMessages over the SQLite table of MessagesDao. *)
(* An opening of the screen syncs once, by a list without cursor, and may  *)
(* be left, or the app killed, at any moment; that closes its database.    *)
(***************************************************************************)
EXTENDS Inbox

CONSTANT Opening  \* openings of the screen: their lists are the app's

ASSUME ChatClientAssumption == Opening \subseteq Listing /\ None \notin Opening

VARIABLES
  screen,  \* the opening on screen, or None
  sync,    \* per opening: "unopened", "waiting" for the list, "saving" its
           \* rows, "saved", "stopped" by an error, "closed"
  left,    \* rows of its page still to be saved
  table,   \* messageIds in the local table
  had      \* history: the table when an opening began to save

appVars  == <<screen, sync, left, table, had>>
chatVars == <<vars, appVars>>

ChatTypeOK ==
  /\ TypeOK
  /\ screen \in Opening \cup {None}
  /\ sync \in [Opening -> {"unopened", "waiting", "saving", "saved", "stopped", "closed"}]
  /\ left \in [Opening -> SUBSET Msg]
  /\ table \subseteq Msg
  /\ had \in [Opening -> SUBSET Msg]

ChatInit ==
  /\ Init
  /\ screen = None
  /\ sync = [s \in Opening |-> "unopened"]
  /\ left = [s \in Opening |-> {}]
  /\ table = {}
  /\ had = [s \in Opening |-> {}]

-----------------------------------------------------------------------------
Reach(s, stage) == sync' = [sync EXCEPT ![s] = stage]

OpenScreen(s) ==
  /\ screen = None /\ sync[s] = "unopened"
  /\ screen' = s
  /\ Reach(s, "waiting")
  /\ UNCHANGED <<vars, left, table, had>>

\* dispose closes the database: what this opening still awaits is not saved.
CloseScreen ==
  /\ screen # None
  /\ screen' = None
  /\ IF sync[screen] \in {"waiting", "saving"} THEN Reach(screen, "closed") ELSE UNCHANGED sync
  /\ UNCHANGED <<vars, left, table, had>>

\* The server's steps for the list of an opening: the app asks for the newest
\* page, and never for the one before it.
ServeSync(s) ==
  /\ sync[s] # "unopened"
  /\ Query(s, None) \/ MarkDelivered(s)
  /\ UNCHANGED appVars

\* The page arrives; on an error the cached messages are shown in its place.
Receive(s) ==
  /\ Reply(s) \/ Lose(s)
  /\ \/ sync[s] = "closed" /\ UNCHANGED <<sync, left, had>>
     \/ /\ sync[s] = "waiting"
        /\ \/ answer'[s] # "items" /\ Reach(s, "stopped") /\ UNCHANGED <<left, had>>
           \/ /\ answer'[s] = "items"
              /\ Reach(s, IF page[s] = {} THEN "saved" ELSE "saving")
              /\ left' = [left EXCEPT ![s] = page[s]]
              /\ had' = [had EXCEPT ![s] = table]
  /\ UNCHANGED <<screen, table>>

\* upsertMessage of the oldest row left.  Its conflict target is the local id,
\* so a messageId the table holds violates UNIQUE: the error ends the loop.
SaveNext(s) ==
  /\ sync[s] = "saving"
  /\ \E m \in left[s] :
       /\ \A n \in left[s] : created[m] <= created[n]
       /\ \/ /\ m \notin table
             /\ table' = table \cup {m}
             /\ left' = [left EXCEPT ![s] = @ \ {m}]
             /\ Reach(s, IF left[s] = {m} THEN "saved" ELSE "saving")
          \/ /\ m \in table
             /\ Reach(s, "stopped")
             /\ UNCHANGED <<table, left>>
  /\ UNCHANGED <<vars, screen, had>>

\* Other programs logged in on the device walk the pages; their first page
\* would be one more list without cursor.
ServeOther(l) ==
  /\ l \notin Opening
  /\ \/ Refuse(l)
     \/ \E c \in Msg : Query(l, c)
     \/ MarkDelivered(l) \/ Reply(l) \/ Lose(l)
  /\ UNCHANGED appVars

ServeSend ==
  /\ \E m \in Msg : InsertMessage(m) \/ CommitMessage(m)
  /\ UNCHANGED appVars

ChatNext ==
  \/ \E s \in Opening : OpenScreen(s) \/ ServeSync(s) \/ Receive(s) \/ SaveNext(s)
  \/ CloseScreen
  \/ \E l \in Listing : ServeOther(l)
  \/ ServeSend

ChatSpec == ChatInit /\ [][ChatNext]_chatVars

-----------------------------------------------------------------------------
(* Properties.                                                             *)

\* What the server calls delivered is in the app's table, but for pages of
\* other programs, pages that are under way or were lost, syncs cut short by
\* leaving the screen, and rows behind one the table already held.
DeliveredButUnsaved ==
  \A m \in Msg : status[m] = "delivered" /\ m \notin table =>
    \E l \in Listing :
      /\ m \in page[l]
      /\ \/ l \notin Opening
         \/ sync[l] \in {"waiting", "saving", "closed"} \/ answer[l] = "lost"
         \/ \E n \in page[l] \cap had[l] : created[n] <= created[m]

\* messages_dao.dart: "Insert a message or update it if the primary/unique key
\* already exists", so a sync that is not cut short saves its whole page.
SyncSavesPage ==
  \A s \in Opening :
    sync[s] \in {"saved", "stopped"} /\ answer[s] = "items" => page[s] \subseteq table
=============================================================================
