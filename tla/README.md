# BluLink: a formal model of the messaging backend

BluLink is a one-to-one messenger: a Go backend (`src/backend`, gin, GORM on
Postgres, Redis) and a Flutter app (`src/mobile`). This directory models the
backend's services and the app's chat screen over them in TLA+, checks them with TLC
and proves theorems about every component with TLAPS. `PROJECT.json` lists components, runs, mutants, the map
from definitions to source lines, findings, hazards and theorems.

## 1. Inventory

Every HTTP request runs in a goroutine of its own. There are no locks, queues or
background workers in the backend: all shared state is in Postgres and Redis,
and requests meet only in the statements they send there. That is where the
difficult behaviour is, and the models are cut at exactly those statements.

| Component | Source (`src/backend/internal`) | State | Operations |
|---|---|---|---|
| message sending | `messages/` | `messages`, `message_recipients` | `SendMessage`, `ListMessages` |
| sessions | `auth/service.go`, `auth/tokens.go`, `middleware/auth.go` | `devices.status`, `refresh_tokens.revoked_at` | `Login`, `Refresh`, `Logout`, `RequireAuth` |
| accounts | `auth/service.go` | `users.account_status` | `Register`, `VerifyOTP`, `ResendOTP` |
| one-time codes | `otp/` | Redis keys `otp:code`, `otp:attempts`, `otp:cooldown` | `Generate`, `Verify` |
| key directory | `keys/` | `signal_identity_keys`, `signal_signed_prekeys`, `signal_one_time_prekeys` | `UploadKeys`, `GetUserKeyBundle` |
| conversations | `conversations/` | `conversations`, `conversation_participants` | `CreateDirectConversation`, `ListConversations` |
| users | `users/` | read only | `GetByID`, `Search` |
| app, chat | `mobile/lib/features/chat`, `core/database` | local messages and conversations (Drift) | fetch, decrypt, store, send |
| app, keys | `mobile/lib/core/crypto`, `features/keys` | Signal stores, prekeys | generate, upload, open sessions |
| app, session | `core/storage`, `core/network`, `app/router` | stored tokens | log in, log out, route |

How they interact:

- `RequireAuth` stands before every route except `/auth/*` and `/health`. It reads
  `devices.status` once; the handler runs after it on what it read.
- `Login` inserts a device, `Logout` revokes it, and `SendMessage` fans out to the
  devices that are active when it reads them: sessions and messages meet in
  `devices`.
- `Register` and `ResendOTP` call `otp.Generate`, `VerifyOTP` calls `otp.Verify` and
  then writes `users`: Redis and Postgres with nothing across the two.
- `SendMessage` and `ListMessages` trust `conversation_participants`, which only
  `CreateDirectConversation` writes and nothing ever deactivates.
- The app calls the backend over HTTP: any answer may be lost, and it gives up after ten
  seconds. Its chat screen opens the local database and closes it when it is left, under
  whatever is still awaited.

What is hard here:

- *Overlap*: two requests on one row where each decides on what it read earlier
  (`Refresh`, `UploadKeys`, `CreateDirectConversation`, `Verify`).
- *Half-done requests*: only `SendMessage` and `CreateDirectConversation` use
  transactions. Everywhere else a failure or a crash leaves the statements before it.
- *Lost answers and retries*: a commit the handler saw as an error, a client that
  repeats what was already done.
- *Reads that go stale*: recipient devices read before the commit, a list made of
  three queries, a bundle made of three reads.
- *Timers*: a counter and a code whose TTLs begin at different moments.
- *Order*: `created_at` is taken before the INSERT, so messages become visible in another
  order than the one they are listed and paged in.
- *Two stores*: a code consumed in Redis and an account activated in Postgres; a row marked
  delivered by the server and saved, or not, by the app.

What makes each component correct:

- message sending: one stored row per (device, `client_message_id`), a success answer
  backed by a row, a recipient list that is complete and final;
- sessions: rotation never leaves a token and its successor both usable, logout
  ends the session, revocation is final;
- lists: a walk of the pages meets every stored message, and what is called delivered is on
  the device;
- the app: a text is stored once, and its sender's device has what the server has;
- accounts: one account per identifier, activated by a code sent for it;
- one-time codes: a code is accepted once, its attempts are limited and its own;
- key directory: a one-time prekey is handed out once, a device that published a
  signed prekey stays reachable with one;
- conversations: a pair shares one, with both as members from the start.

## 2. Modules

| Module | What it is |
|---|---|
| `Messages` | `SendMessage` behind `RequireAuth`, one action per statement |
| `MessageLog` | the contract of `POST /messages`, without requests or statements |
| `Sessions` | `Login`, `Refresh`, `Logout` and the device check |
| `Backend` | sessions and sends as one process over `devices`; extends `Sessions`, with an instance of `Messages` |
| `Keys` | `UploadKeys`, `GetUserKeyBundle`, `claimOneTimePrekey` |
| `Conversations` | `CreateDirectConversation`, `ListConversations` |
| `Otp` | `Generate` and `Verify` for one identifier, one action per Redis command |
| `Accounts` | `Register`, `ResendOTP`, `VerifyOTP`; extends `Otp`, whose commands it runs |
| `Inbox` | `ListMessages` for a device and conversation, beside the sends that fill it |
| `Devices` | the life of a `devices` row, which `Sessions` implements and whose steps are `Messages`' device actions |
| `Delivery` | the sends of `Messages` and the lists of `Inbox` together, for one device and conversation |
| `ChatClient` | the chat screen's sync into the local table; extends `Inbox` |
| `Outbox` | the chat screen's send button; extends `Messages` |
| `*Proofs` | the theorems about `Messages`, `Sessions` (with `Backend`), `Conversations`, `Keys`, `Accounts` (with `Otp`), `ChatClient` (with `Inbox`), `Delivery` and `Outbox` |
| `MC*` | instances and symmetry for TLC, one per component |

`Accounts`, `ChatClient`, `Outbox`, `Delivery` and `Backend` are compositions: each takes over the
module it extends, action for action, and adds the caller's own variables and steps (`Delivery` adds an
instance of `Inbox`, `Backend` one of `Messages`). That a composition's behaviours are behaviours of its components is proved
(`ImplementsOtp`, `ImplementsInbox`, `ImplementsMessages`, `ImplementsLists`, `ImplementsSessions`),
so what is proved of the component holds in it. `Messages` by itself lets a device log in and out at any
moment its row allows; `Backend` puts the statements of `Sessions` there instead, and its
`ImplementsMessages` says that the sends meet nothing `Messages` did not account for.
`MembersAreFinal` of `Conversations` is what allows `Members` to be a constant of `Messages`; these
two modules are not composed.

Conventions shared by the modules:

- A request is an element of a constant set, with a `pc` that names the statement
  it is about to run. The set bounds how many requests a behaviour has; there is no
  other bound on lengths. Two runs have a state constraint (`OneMeeting`,
  `StoredOrUnderWay`, section 3).
- A row a request inserts is named by that request, since every attempt generates
  its own id. So `req[m]` holds the columns of the messages row `m`, and a token
  value *is* the request that minted it.
- `Fail` is the error path of every statement: it ends the request and keeps what
  earlier statements committed. A statement may also commit while the handler sees
  an error; for the last statement of a request this is a disjunct of its own
  (`Commit`, `FinishLast`, `MarkUsed`, `CommitParticipants`), and for the others it
  is the statement followed by `Fail`. A crash is `Crash`, or `Fail` of every request
  under way where nothing tells the two apart.
- `before` is a history variable: the requests that were over when a request began.
  Two requests *overlap* when neither is in the other's `before`. It lets a property
  say exactly when a guarantee is lost.
- Definitions marked `Fault:` are broken variants of the definition that follows
  them. No action uses them; they are what the properties were tested against, and
  each property is violated when its variant takes the definition's place.

### Messages

`Admit` is `RequireAuth` (the device is active *now*), `CheckParticipant` the query
at `service.go:74`. `InsertMessage` is the insert into `messages` under the unique
index: it waits while another open transaction holds the key (`InTransaction`), then
goes on or meets the committed row and rolls back. `BuildRecipientRows` reads the
active devices of the other members under READ COMMITTED, so a login or logout may
fall between it and `Commit`, which makes the message and its recipients visible
together. `LoadExisting` is the lookup after the rollback, with the comparison of the
conversation. `DeviceLogin` and `DeviceLogout` are the effect of the auth service on
`devices`. `Members` is a constant because no code deactivates a participant and a
conversation's two rows are committed with it (`Conversations` shows that). `atStart`
is a history variable for `FanOut`: the recipients are devices of the other members that were
not revoked when the request was admitted, among them all that were active then and at the commit.

`MessageLog` states the contract: `log` maps each key to a conversation and a recipient
list or to nothing, `Post` writes it once, `Repeat` answers from it, and `replies` is
every success a client may have acted on. `ImplementsMessageLog` is
`Log!Spec` under the mapping `LogBar`, `RepliesBar`: the log is read off the two
tables, the replies off the answered requests. `Commit` is `Post`, `LoadExisting` is
`Repeat`, every other step stutters.

### Sessions

`Login` covers the credential and status checks (it may refuse), `CreateDevice`
and `CreateToken` its two inserts. `Present` begins a refresh or logout of a token
some client was given. `LookupRefresh`, `RevokeOld`, `CreateToken` and `LookupLogout`,
`RevokeToken`, `RevokeDevice` are the statements in order; the updates are
unconditional, as `Update("revoked_at")` by primary key is. `Expire` is the end of
`refreshTokenTTL`: it takes the token out of use and leaves the device active, as the code does.
`halfway` is a history variable: the requests that stopped, by a failure or a crash, between their
two statements (`Between`), which is where a session is left in pieces. JWT and hashing are abstracted to the row they name; the 15 minutes of
an access token are not modelled, since what matters here is that `RequireAuth` asks
the device (`Authorized`). A logout of a token that has no row answers success and
touches nothing, and is left out.

### Backend

A `devices` row is the login that inserted it, so `Messages` is instantiated with the requests of
`Sessions` for its devices, and `Owner` says whose account a login is for. `SessionStep` is any step of a
session request; `AdmitSend` the `Admit` of a send whose access token was handed to a client (`Issued`);
`SendStep` any further step of a send; `Die` the end of the process, which takes the requests of both
kinds with it. `earlier` is a history variable: the session requests that were over when a send was
admitted.

`LoggedOutIsCutOff` says what a logout that answered success means to every later send: it neither
comes from the device nor goes to it. Three things excuse. Two are those of `Logout` alone: a successor
of the token, which keeps the session alive, and another request with the token that stopped
half-way. The third is a race of the two: a repeated logout meets the token that the first has
revoked and answers success while the first has yet to revoke the device, so a send may still be let in.

### Keys

Uploads run `UpsertIdentity`, `DeactivateSigned`, `InsertSigned`, `InsertOneTime`, skipping
the prekey part when there is none. Fetches read the active devices once and go
through them one by one (`ReadIdentity`, `ReadSigned`, `LockOneTime`, `MarkUsed`), skipping
those without keys. The claim is one SQL statement; it is two actions because its lock
and its update are distinct to others (`FOR UPDATE SKIP LOCKED`). Key material is
abstracted to which upload made it (`maker`) and under which identity. `over` is a history
variable: the uploads that were over when a fetch began. The order of
`ORDER BY created_at` between batches is left open. Validation of formats is not modelled.

### Conversations

`Start` is the parsing and the check that the participant is active, `FindExisting` the
lookup, `InsertConversation` and `CommitParticipants` the transaction (its first
statement is invisible to others). A list takes its queries one by one; the profile
query is merged with the query of the other participants because users are never
deleted.

### Otp

The three Redis keys, their TTLs as `CooldownEnds`, `CodeExpires` and `AttemptsExpire`, and
the commands of `Generate` and `Verify`. Code and counter live equally long, so only the
order in which their TTLs began matters: `timer` is "early" when the counter's began
before the present code was stored, and a counter begun "late" outlives the code. Codes
are named by the request that generated them; two random codes are taken to
differ, and a wrong submission is a code that was never sent or another one. A failure
is `Fail`, which answers an error (a crash, or a command whose error is returned), or the
second disjunct of `ResetAttempts`, `ExpireAttempts` and `ConsumeCode`, whose errors the code
drops; `faulted` records whom it met, and at most `MaxFaults` requests meet one.

### Accounts

The row of `users` for the identifier whose codes `Otp` keeps, named by the registration that
inserted it. `CountExisting` is the friendly pre-check, `CreateUser` the INSERT under the unique
constraint and the call of `Generate` (`StartGenerate` of `Otp`), `FindUnverified` the SELECT of a
resend, `Submit` a submission, and `Activate` what follows an accepted one. `RunOtp` is any step of
`Otp`, `EndTTL` any of its timers, both with the account untouched. A resend refuses only an
account that is active, as the code does; that a status of the schema beside "pending_verification" and
"active" would be let through is without effect, since no code sets one. A registration answers
success even if `Generate` failed or found the cooldown taken; `Registered` says so.
`RegisterSendsCode` states when its code was sent all the same. `struck` records the requests
that met a failure in Postgres; `MaxFaults` bounds failures of both stores together.

### Inbox

A send is `InsertMessage`, which takes `created_at` from a clock that does not go back, and
`CommitMessage`, in any order; whether the device gets a row is decided by the fan-out (`Messages`)
and left open here. A list is `Refuse`, or `Query` (the participant check, the lookup of the cursor
and the page, merged because the first two read rows that never change), then `MarkDelivered`
if a row of the page is still "sent", then `Reply`; `Lose` is any failure, or an answer that does not
arrive, with the marks made or not. `Pages` is every result `ORDER BY created_at DESC LIMIT` may
have: rows with one `created_at` come in any order. `missing` remembers what was not stored when
the list ran. A *walk* (`Walk`) is a set of answered lists that has one without cursor and, for every
full page, one whose cursor is its last row: what a client has fetched that went on until a page was
not full, at whatever moments it asked and whatever else it asked for.

### Delivery

`TakeTime` is the assignment of `created_at`, which GORM makes before it sends the INSERT: a send then
waits for its index entry or its connection with a time it already has. `ServeSend` are the statements of
`Messages` no list can see, `CommitSend` the commit, which gives the device its row exactly if the
fan-out read it as active, `ServeList` a list that `RequireAuth` let in. `PlaceBar` reads off a send's
statements what `Inbox` calls the place of a message; a send to another conversation is one that
never commits. What `Inbox` leaves open, which message has a row for the device, is here decided by
the fan-out of `Messages`.

### ChatClient

The listing device runs the app: each opening of the chat screen is a list of `Inbox`
without cursor. `OpenScreen` is `initState`, `Receive` the end of the request, `SaveNext` one turn of the loop that
saves the page from its oldest row on, `CloseScreen` `dispose`, which closes the database (the
end of the process does the same). The upsert's conflict target is the autoincrement id, so a
row whose `messageId` is stored raises, and the loop ends (`"stopped"`). Other programs logged in
on the device walk the pages with a cursor (`ServeOther`).

### Outbox

The app is logged in on `Phone`. `TapSend` takes a request and the text in the field,
`Arrive` is its `Admit`, with a `client_message_id` no request has used. `SaveSent` stores the
answer under the server's id and `ShowSent` clears the field. `ReportFailed` is any other end on a
screen that is still `Mounted`: an error, a lost answer, the timeout, a failed save; the snackbar says so.
On a screen that was left, whatever came of the send returns at `if (!mounted)`: `EndSilently`, which tells
nobody, and the next screen starts empty. That a stored message is then missing on its sender's device
without a word is what the code does, and `SentOnceOrTold` does not exclude it; it says that an open
screen loses nothing in silence, and that a text is stored twice only where it was reported failed. A text is a number that grows whenever the field is emptied: two requests
have the same text exactly when the user sent again what the field still held. A
retry by the user is thus a new message to the server. Encryption is left out because it always falls
back: the app needs a Kyber prekey and no bundle of this backend has one.

## 3. Runs

All runs finish in three minutes with two workers. Deadlock is not checked:
when every request has been used nothing is left to do.

| Run | Instance | Shows |
|---|---|---|
| `messages_retry` | 3 requests, 2 devices, 2 conversations, 1 key | one row per key, honest replies, `ImplementsMessageLog`, and that every request ends |
| `outbox_any` | 2 requests, 3 devices (2 of the sender), 2 keys, 2 openings | `FanOut`, and `SentOnceOrTold` for the app over the service |
| `chat_any` | 3 messages, 2 openings, 1 other list, pages of 2, 2 clock values | `WalkMissesOnlyTies`, `DeliveredButUnsaved` |
| `delivery_any` | 2 sends, 2 conversations, 2 keys, 2 devices, 2 lists, pages of 1, 2 clock values | `ReadsWhatWasSent` |
| `backend_any` | 4 session requests, among them a login of each account, and 1 send | what rotation and logout guarantee, when they guarantee less, and what a logout means to a send |
| `keys_any` | 1 device, 2 key ids, 2 identities, 2 uploads, 2 fetches | claims, rotation, and when a bundle is torn |
| `conversations_any` | 3 users (one not active), 3 creates, 1 list | creation and lists |
| `accounts_any` | 4 requests, 1 attempt, a failure | accounts, codes, budgets and timers |

Why the bounds are enough. Three attempts of one key give a holder, a waiter that meets
a committed row and a waiter that meets a rolled back one. One `client_message_id` is
enough because keys do not interact, two conversations because a key is reused in one
other; the action constraints of `messages_retry` only take requests in order and keep the
sender logged in. The fan-out needs a second device of the sender (never a recipient), a device of
the other account and both orders of login and logout against the read. Two sends of the app and
two openings cover a send repeated on its screen, one left behind by its screen, and one of the
other device beside each. Three messages with two clock values make a tie at the end of a page of
two, and a row behind it to be skipped; two openings make a sync that meets rows of an earlier
one. Four session requests reach a login
and a chain of three rotations, two refreshes racing a logout, a logout repeated while the first is
half-way, and, with two logins of the two accounts, a refresh and a logout, or two logouts, of either the
sender's or the recipient's session beside the send; a login by `q1` is the sender's, so the others are
interchangeable. A send that ended without a row leaves nothing behind, and `StoredOrUnderWay` does not
follow it further. Two uploads and two
fetches of one device cover every pair that meets in a row; devices do not share
rows. Two identities matter to one bundle and two fetches to the claims, and no statement looks at
both, so `OneMeeting` cuts the states that have two uploads with different identities and two
fetches that have begun. Two lists with pages of one make a walk of two pages with a send, a tie or a
login between them; `delivery_any` keeps the sender logged in, since what its device does is seen in
`outbox_any`. Four requests of accounts cover two registrations with a resend and a submission, and two
generations with two submissions; a limit of one puts the boundary of `maxAttempts` in reach. Every
safety property of the passing runs is also proved for any bounds (section 4).

Fairness is assumed in one run only, `messages_retry`: weak fairness of the statements of
a request that was admitted (`Fairness`). The Go scheduler and Postgres keep running
what has begun, and a released index entry is granted. Nothing is assumed of clients,
devices or failures. What `EveryRequestEnds` shows is that no transactions of the same
key wait for each other for ever.

### What the code does not keep

Four runs violate a property that quotes the code's own words. Where the loss is confined
to overlapping requests or to errors, a passing run shows that it is. To confine is not to exclude:
what a property excuses does happen.

| Run | Quoted promise | What happens | Confined by |
|---|---|---|---|
| `sessions_reuse` | the old token "can never be used again" | overlapping refreshes both succeed | `SpentOnceAnswered`, `SplitOnlyByOverlap` |
| `sessions_logout` | logout "revokes the underlying device immediately" | a repeated logout skips the device | `LogoutEndsSession`, `LoggedOutIsCutOff` |
| `chat_sync` | "Insert a message or update it if the primary/unique key already exists" | a sync that meets a stored message ends there | `DeliveredButUnsaved`: only rows behind a stored one are missed |
| `conversations_race` | "instead of creating a duplicate" | overlapping creates both insert | `DuplicateOnlyByOverlap` |

The same holds of these outcomes, which no text of the repository rules out and which the named
property of a passing run confines to their causes:

| Outcome | Confined by | to |
|---|---|---|
| an active device nobody can use, fanned out to for ever | `OrphanOnlyByStopOrExpiry` | a login, or a request with the session's last token, that is between its two writes or stopped there; or that token's expiry, which revokes no device |
| two active signed prekeys | `TwoActiveOnlyByOverlap` | uploads that overlapped |
| no active signed prekey | `PrekeyLostOnlyByError` | an upload of the device under way, or one that answered an error |
| a code accepted twice | `AcceptedTwiceOnlyByOverlap` | submissions that overlapped, or a failed `DEL` |
| a fresh code deleted by an older submission | `CodeGoesForCause` | a submission that is accepted, and ran when the code was stored |
| a used code and a pending account | `SpentCodeActivates` | a failure in Postgres in between |
| a send stored and lost to its sender without a word | `SentOnceOrTold` | a screen that was left |
| a logged-out device in the recipients of a send | `FanOut`, `LoggedOutIsCutOff` | a send that was under way already, or the three causes of section 2 |

`chat_sync` matters in practice: a page begins with the newest messages and is saved from the
oldest on, so after the first sync of a conversation every later one meets a stored row
first, unless a whole page of newer ones has come, and saves nothing. The server has marked
those messages delivered, and no list without cursor will bring them back once
they are no longer on the newest page. A bundle that is "enough for a
client to establish an encrypted session" (`keys/service.go:117`) can pair an identity key with a prekey signed
under another one, because neither side uses a transaction; `TornOnlyByUpload` says when: beside an
upload, or after uploads that overlapped, failed or brought no prekey, and then for good. It says, too, that
a device that uploads one at a time, each to its end, is safe. `PrekeyLostOnlyByError` has a practical side, too: the app
uploads signed prekey id 1 and one-time ids 1 to 100 every time (`key_repository.dart`,
`profile_screen.dart`), and uploading them again from the same device deactivates the prekey and then
fails, which leaves the device without one. A retried send is answered with the retry's own body
(`service.go:137`) although the DTO speaks of echoing the original; that is one
assignment, so it is noted here and not a run.

What failures do to the one-time codes is part of their properties. A counter whose `EXPIRE`
failed has no TTL (`CounterExpires`), a code whose resend failed to `DEL` the counter starts
with the old count (`FreshBudget`), and a code whose `DEL` failed is accepted again
(`AcceptedTwiceOnlyByOverlap`): in each case the code drops the error. `GuessBudget` leaves out two
cases. A `Generate` that is still before its `DEL` when another, more than a cooldown later, has sent a
code resets that code's counter once more; and a `Generate` whose own `DEL` failed leaves a counter
whose old TTL may end while the code lives, which grants a second budget. The second one takes five
requests and two attempts to show; it was found by the proof.

## 4. Proofs

`MessagesProofs` proves for every value of the constants that satisfies
`MessagesAssumption` (owners and members are functions, `None` is distinct):

| Theorem | States |
|---|---|
| `TypeCorrect` | `Spec => []TypeOK` |
| `NoDuplicate` | `Spec => []NoDuplicateMessage` |
| `StoredIsFinal` | `Spec => StoredForever` |
| `AckedStaysStored` | `Spec => []AckedIsStored` |
| `LookupNeverMisses` | `Spec => []LookupFinds` |
| `FanOutExact` | `Spec => []FanOut` |
| `Refinement` | `Spec => ImplementsMessageLog` |

The argument is layered. `KeyInv` adds to `NoDuplicateMessage` what makes it inductive: a
request that is inside its transaction is not in `messages`, no committed row has its key,
and no other open transaction has it (the index entry is exclusive). From it, an insert
goes on only when its key is free, and stays free until the commit. `ReplyInv` adds what each
answer stands for, so a reply never lies, and rests on rows never being removed (`StoredStep`).
`LookupFinds` is inductive on the same ground: a request goes to its lookup only from a committed row
with its key, and the row stays. So the error that `SendMessage` returns when the lookup finds nothing
cannot happen, and no `Serve` of a request at `lookup` or inside its transaction is ever blocked. `FanOutInv` relates `rows`, read in the
transaction, to `atStart` and `device`: a device active at both ends of the interval was
active at the read, since a status moves only from absent through active to revoked.
The refinement has one lemma per interesting step (`CommitPosts`, `LookupRepeats`) and one for
the rest (`OtherStepsStutter`); it needs `KeyInv` so that the row a key names is unique.

`SessionsProofs` assumes of `Sessions` only that `None` is not a request, and of `Backend`
`BackendAssumption` (owners and members are functions, `None` is distinct). It proves all the properties
of `backend_any`, and some that are not run, for any number of requests and sends:

| Theorem | States |
|---|---|
| `TypeCorrect` | `Spec => []TypeOK` |
| `RotationFailsClosed` | `Spec => []NeverBothLive` |
| `LogoutRevokes` | `Spec => []LogoutKillsToken` |
| `RevokedStays` | `Spec => RevocationIsFinal` |
| `SpentOnce` | `Spec => []SpentOnceAnswered` |
| `LogoutEnds` | `Spec => []LogoutEndsSession` |
| `SplitNeedsOverlap` | `Spec => []SplitOnlyByOverlap` |
| `OrphanNeedsStop` | `Spec => []OrphanOnlyByStopOrExpiry` |
| `SessionsKeepDevices` | `Spec => ImplementsDevices` |
| `ImplementsSessions` | `BackendSpec => Spec` |
| `ImplementsMessages` | `BackendSpec => Posts!Spec` |
| `PromisesCarryOver` | `BackendSpec => []` of `NoDuplicateMessage`, `AckedIsStored`, `FanOut` |
| `BackendTypeCorrect` | `BackendSpec => []BackendTypeOK` |
| `LoggedOutCutOff` | `BackendSpec => []LoggedOutIsCutOff` |

Types are not inductive alone, because a refresh takes its device from the row of its token:
`KindInv` says which stage belongs to which kind of request. `RowInv` says what a request has
done to its rows by each stage, and `KeptStep` that no step takes anything back; the two
give rotation and logout. `SpentInv` then follows a refresh that began after another was
answered: it can only be refused; and a logout that was answered: its token is revoked.
`LeftOpenInv` is why that token was revoked: its device is too, or it was replaced, or the request that
revoked it is between its statements or stopped there. For `SplitOnlyByOverlap` the invariant is `HeadInv`. The head of
a session is its live token or the token a refresh has looked up and not yet
replaced, since a logout may revoke a token in the middle of a rotation that goes
on regardless. A session has one head unless two refreshes of one token overlapped; only
`CreateToken` makes a new one (`MintedHead`), and the old one stays a head only if a second
refresh of it is in flight (`MintStep`). For `OrphanNeedsStop`, `LeafInv` says that an active
device has a token nobody replaced (or its login is unfinished): a rotation puts the new token in the
place of the old one (`MintedLeaf`). Such a token is live, and then it is usable or has run out, or it is
revoked, and then `LeftOpenInv` names the cause. `SessionsKeepDevices` needs `DeviceInv`: `Logout` updates a row it
never read, so that the row is there, and was active, follows from where its token came from, back
to the login.

Every step of `Backend` is for `Sessions` a step or a stutter, at once; for `Messages` it is one because
`DeviceInv` makes the UPDATE of `Logout` the logout of an active device (`SendsMove`). `LoggedOutCutOff` rests
on `CutInv`: the device of an answered logout is revoked and the send has it neither among its recipients
nor in the rows of its open transaction, or one of the three excuses holds. A send begins so
(`AdmitStep`, by `LeftOpenInv` and because `RequireAuth` lets no revoked device in), and keeps so because a
revoked device stays revoked and the fan-out takes active ones (`CutStep`).

`ConversationsProofs` assumes `ConversationsAssumption`:

| Theorem | States |
|---|---|
| `TypeCorrect` | `Spec => []TypeOK` |
| `ReturnsShared` | `Spec => []ReturnedIsShared` |
| `MembersStay` | `Spec => MembersAreFinal` |
| `DuplicateNeedsOverlap` | `Spec => []DuplicateOnlyByOverlap` |
| `ListsWhole` | `Spec => []ListingWhole` |

`ConvInv` says that a committed row has exactly the two users of its request, which is why a row
that has both users of another request is that pair's. `FoundInv` follows a create that began
after one of its pair had committed: it is still to look, or has found it. `ListInv` relates
what a list has read to what stood when it began.

`KeysProofs` assumes only that `None` is none of the other values:

| Theorem | States |
|---|---|
| `TypeCorrect` | `Spec => []TypeOK` |
| `NeverClaimedTwice` | `Spec => []ClaimedOnce` |
| `UsedAccountedFor` | `Spec => []UsedIffClaimed` |
| `TwoActiveNeedsOverlap` | `Spec => []TwoActiveOnlyByOverlap` |
| `PrekeyLossNeedsError` | `Spec => []PrekeyLostOnlyByError` |
| `TornNeedsUpload` | `Spec => []TornOnlyByUpload` |
| `NeverReissued` | `Spec => KeysNeverReissued` |

`UploadTurn`, `SignedTurn`, `FetchTurn` and `ClaimTurn` say once what a step of either side does; the
invariants are then argued from those. `UploadInv`: an upload about to insert found nothing active but
what uploads not over at its start have inserted since, and the gap in which a device has no active
prekey belongs to an upload at its insert or to one that failed there. `ClaimInv`: a key in the hand of
a fetch is unused and in no other hand (the row lock), so it is in no bundle yet.
For `TornOnlyByUpload`, `IdentityInv` names a `Writer` of the identity each device has: an upload that began
after it was over finds that identity, so a prekey that is active and not its own came from one that
overlapped it, or it has yet to replace the prekey, failed, or brought none. `BundleInv` carries
the identity a fetch has read to the moment it reads the prekey (`ReadSignedCause`): it is still the one
that stands, or an upload that was not over when the fetch began has written another. A cause is never taken
back (`CauseStays`), so it holds of the bundle for good.

`AccountsProofs` first proves of `Otp` (with `OtpAssumption`) `TypeCorrect`, `CounterHasTTL` (`CounterExpires`), `AcceptedTwice`
(`AcceptedTwiceOnlyByOverlap`), `GoneForCause` (`CodeGoesForCause`), `BudgetHolds` (`GuessBudget`) and
`NobodyTurnedAwayEarly` (`FreshBudget`), for any number of requests, attempts and failures. `CodeInv` says that a
code that is gone never comes back, since each is stored by its own request once. `BudgetInv`
counts: as long as a code stands, the submissions compared with it are bounded by the counter it
shares with them, because its sending deleted the counter of its predecessors.

Of `Accounts` it proves `ImplementsOtp`, `BudgetsCarryOver` (the theorems above for the composition),
`AccountTypeCorrect`, `RegisteredOneOwner` (`RegisteredOnce`), `ActivatedByCode` (`SpentCodeActivates`) and
`RegistrationSends` (`RegisterSendsCode`). The last one rests on the cooldown key: from the INSERT of
the row on, whoever holds it is that registration or a resend that has yet to send.

`ChatClientProofs` proves `InboxTypeCorrect` and `WalkMisses` (`WalkMissesOnlyTies`) of `Inbox`, `ImplementsInbox`, and for the
composition `ChatTypeCorrect`, `WalkMissesBesideApp` and `DeliveredAccountedFor` (`DeliveredButUnsaved`). `PageInv` keeps, for
each list, why a stored row is not on its page; it never gets less true, because a stored row keeps
its `created_at`. Were a message missed by a walk, each page that begins above it would be full of
newer ones, and so have a successor that begins above it, too, but lower; of those pages one begins lowest
(`Least`, by well-foundedness of the naturals, so that no induction over the pages is needed). `SyncInv` follows a page into the table: what is saved, what is left, and that a row
left which the table holds was there before.

`OutboxProofs` proves `ImplementsMessages`, `PromisesCarryOver` (the invariants of `Messages` under the app),
`OutboxTypeCorrect` and `SentOnce` (`SentOnceOrTold`). `FieldInv`: a send carries at
most what the field holds, and something older once it was shown as sent or its screen is gone; so a text that is sent
again was reported failed, since only one send of a screen is awaited at a time.

`DeliveryProofs` proves `ImplementsMessages`, `ImplementsLists` (every run is, for its lists, one of `Inbox` under
`PlaceBar`) and `EverythingIsRead` (`ReadsWhatWasSent`), from `MessagesAssumption` and `DeliveryAssumption`. It
proves nothing about sends or pages anew: `FanOutExact` says which messages the device has a row for,
`PageInv` and `WalkMisses` what a walk reads of those rows, and `StatusInv` joins them: the device
has a status exactly for the messages of the conversation that were fanned out to it. `TimeInv` says
that no row is inserted without its time, which makes a commit here a commit of `Inbox`.

Model-checked only: `EveryRequestEnds`, since liveness is beyond the prover. Every other property of a
passing run has a theorem. Proved and not run: `StoredForever` (the log of `MessageLog` changes by `Post` only,
which `messages_retry` checks), `LogoutKillsToken`, `LookupFinds`, `ImplementsDevices`, `MembersAreFinal`, and the type invariants of `Sessions`, `Otp`
and `Inbox` apart from the compositions. The violated properties are shown by TLC's counterexamples.

## 5. Not modelled

- The app outside the chat screen: login, registration, profile and home screens make one
  request each and store its answer; the router reads the stored token once. The Signal
  protocol is a library, and no session can be established with this backend.
- What the user types while a send is awaited (`clear()` wipes it), and how often
  sends without a session fetch a bundle and use up a one-time prekey.
- Users' queries, key format validation, health, configuration, wiring: no state, or
  pure functions with unit tests.
- Partial failure inside one SQL statement, Postgres isolation anomalies across
  statements of one transaction beyond READ COMMITTED visibility, loss of Redis data, a
  clock that goes back, access tokens' 15 minutes.

## 6. Plan

Done: every service that writes state, with its failures; the chat screen's sync and send over
them; sends and lists as one system, and sends and sessions; proofs of all their safety properties. What could follow:

1. `ClientSession`: stored tokens, router and logout in the app over `Sessions`, once the app calls
   `Refresh` (nothing does so far).
2. Liveness of the app: what a user who keeps opening the screen eventually has, once the
   upsert's conflict target is the message id.
