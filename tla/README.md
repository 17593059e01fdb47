# bu3li-comms in TLA+

A verification project kept beside the code of bu3li-comms, a small team-chat
application: a Go API (`cmd/`, `internal/`) with PostgreSQL, Redis and an
in-memory WebSocket hub, and a React/TypeScript client (`frontend/src/`).  The
modules are written from the code; a comment before every definition says what
part of it it stands for, and `PROJECT.json` gives the lines.

1. The system
2. The modules
3. What is checked
4. What is proved
5. What the modelling brought to light
6. Not modelled, and what is left

## 1. The system

### Inventory

| Component | State it keeps | Operations | Talks to | What is hard | What makes it correct |
|---|---|---|---|---|---|
| WebSocket hub `internal/realtime/hub.go` | connections by user, a write mutex each | Register (first?), Unregister (last?), SendToUser | every handler | the list of connections is copied under the lock and written to after it | exactly the connections between Register and Unregister are in the map |
| Presence `internal/presence`, `Handler.Connect` | Redis keys `presence:<user>` with a TTL, the tabs' presence stores | set on the first connection, deleted on the last, refreshed every 30 s, snapshots, announcements | hub, conversations | the clean-up of one connection against the opening of the next; crashes; events against snapshots | the key follows the connections; peers see each other |
| Call registry `internal/realtime/calls.go`, `handler.go` | participants of each call, the tabs' voice-channel stores | Join, Leave, LeaveAll, their broadcasts | hub, conversations | the registry's lock covers the change and not its announcement | an entry exactly for each inhabited call; nobody is left behind |
| CallManager `frontend/src/calls`, `callStore.ts`, and the relay `handleWebRTCSignal` | the local call, microphone, peer connections; what the call bar shows | start, accept, decline, leave, mute, offers and answers | socket, registry | every operation waits for the browser between its reads and writes | microphone, connections, bar and registry agree; everybody gets connected |
| Messages `internal/messages`, `frontend/src/api/messageCache.ts`, hooks | the `messages` table; per tab a cached list, open editors, requests waited for | Create (idempotent), Update (by version), Delete, List; optimistic send, retry, edit, delete; events | hub, conversations | three unordered paths into a cache, lost answers, retries, concurrent edits | copies agree by version, one edit wins, spinners end, tabs converge |
| Composer and recorder `MessageComposer.tsx`, `useAudioRecorder.ts`, `useSend*.ts` | draft, recording, files being prepared, mutations under way | type, record, cancel, send, pick files; change of conversation, closing | messages | `getUserMedia`, the recorder's last event and file reading are waited for while the pane goes on to another conversation | the microphone is released, recordings end, files are answered for |
| Reactions | rows per message, user, emoji; copies on cached messages | add, remove, events | messages | optimistic changes beside broadcasts, fetches and edits | tabs agree with the table |
| Read receipts and unread badges | receipts; last read per user; badge queries | mark, event, refetch | messages, conversations | a ref that outlives renderings; queries cancelled by events | nobody is shown to have read what they have not; badges are not too low |
| Typing | two timeouts, one at each end | started, stopped, expiry | hub | a renewed start against an expiry; lost `stopped` | an indicator goes away, and not too soon |
| RealtimeSocket `frontend/src/realtime/socket.ts` | one WebSocket, one timeout handle, an intention | connect, disconnect, listeners, timeout | pages, hooks | callbacks of forgotten sockets and timeouts | a mounted page ends up connected, through one socket |
| Conversations `internal/conversations` | conversations, members | create, add member, list, list peers | presence, servers, messages | membership is read before it is relied on | membership is what handlers test |
| Servers `internal/servers`, `useServerMutations.ts` | servers, members, roles, channels and their conversations; the tabs' lists and drags | member, role and channel operations | conversations, hub | read-then-write in separate statements; an optimistic order | every member has a role and is in every channel; lists converge |
| Sessions `internal/session`, `internal/auth`, auth hooks | Redis sessions with a TTL, a cookie, the `["me"]` query of each tab | register, login, logout, middleware, redirects | all handlers | the tabs share the cookie and not the query; answers overtake one another | a tab shows the account of its cookie |
| Rate limiter `internal/ratelimit` | Redis counters with a TTL | Allow | auth | INCR and EXPIRE are two calls | the block ends |
| Users, passwords, avatars `internal/users`, `internal/auth/password.go` | rows | profile, avatar, password | sessions | check and update are two statements | a password is replaced by who knows it |
| Platform, migrations, wiring | schema versions | run at start-up | | | |
| Pages, call audio | layout, playback | | | | |

### How the parts interact

A browser tab issues HTTP requests and holds one WebSocket.  Every WebSocket is
one goroutine of the server (`Handler.Connect`): it registers with the hub, runs
the presence steps, reads client events (typing, receipts, `call.*`,
`webrtc.*`) one at a time and, when its socket fails, runs a clean-up.  Every
HTTP request is another goroutine.  Both kinds change shared state (Postgres,
Redis, hub, call registry) and then broadcast: they list the recipients and
write to one connection after another.  There is no queue and no ordering
between two goroutines' broadcasts.  In the tab, JavaScript runs one callback
at a time; answers, events, timeouts, microphones and the user's actions come in
any order, and a function that awaits goes on in whatever state it then finds.

The hazards that follow, each with its line, are the `hazards` of
`PROJECT.json`; the properties below are chosen from that list.

## 2. The modules

| Module | What it is | TLC | Proofs |
|---|---|---|---|
| `Hub` | the hub and the fan-out of an event, as operators over two variables; `Presence` and `Calls` build their next-state relations from them | in the two | in the two |
| `Presence` | who is online: EXTENDS Hub | `MCPresence` | `PresenceProofs` |
| `CallBoard` | abstract: who is in which call | | |
| `Calls` | the call registry and its events: EXTENDS Hub, implements CallBoard | `MCCalls` | `CallsProofs` |
| `CallManager` | the tabs' side of calls, the relay and the mesh | `MCCallManager` | `CallManagerProofs` |
| `MessageLog` | abstract: what the table of messages promises | | |
| `Messages` | table, handlers, events and tab caches: implements MessageLog | `MCMessages` | `MessagesProofs` |
| `Composer` | the pane that sends: text, clips, files | `MCComposer` | `ComposerProofs` |
| `Signals` | reactions, receipts, badges, typing | `MCSignals` | `TabProofs` |
| `Servers` | servers, members, roles, channels, and the tabs' lists | `MCServers` | `ServersProofs` |
| `Accounts` | users, sessions, rate limiter, the tabs' accounts | `MCAccounts` | `AccountsProofs` |
| `Socket` | RealtimeSocket | `MCSocket` | `TabProofs` |

In each module, a definition marked `Faulty:` is a plausible bug of the
operation that follows it (a dropped guard, a forgotten reset).  It is not part
of the specification: put in the operation's place, it makes TLC report a
property violated, and so shows what that property watches for.

*History variables* (marked `history:` where they are declared) change nothing
else.  They record that one of the situations named in section 5 has happened,
where the code gives up on what a property says; the property then excepts
exactly that user, tab or request.  Several of these situations are hazards of
`PROJECT.json` (those of `rash`, `crossed`, `stuck`, `hasty`): the models take
them, and the properties say that nothing else goes wrong, not that they do not.

### Hub and Presence

`clients` is `Hub.clients`; `sending[g]` is the loop a goroutine is in the
middle of: the event, the users it has not come to, the connections copied for
the current one.  `Register`, `Unregister` and the copying half of `SendToUser`
are atomic because the code holds the lock; each write is a step (`WriteTo`).
The mutex of a client is not modelled: a write is one step already.  Writes are
assumed to end (see section 6).

`Presence` follows `Handler.Connect` by a program counter:

| Step | Code |
|---|---|
| `Connect` | upgrade and Register; whether it is the first connection decides the next label |
| `MarkOnline`, `AnnounceOnline` | SetOnline, ListPeerIDs and broadcastPresence for a first connection |
| `BeginSnapshot`, `ProbePeer`, `SendSnapshot` | sendPresenceSnapshot: one EXISTS for each peer, then one event |
| `EnterReadLoop`, `Drop`, `Disconnect` | the read loop and its end, Unregister |
| `MarkOffline`, `AnnounceOffline`, `Finish` | the clean-up of a last connection |
| `AddMember`, `ListOthers`, `AnnounceNewMember`, `NotifyDone` | the HTTP handler and NotifyMembershipAdded |
| `Expire`, `Crash`, `Fault`, `ListFails` | the TTL, a killed server, failed Redis calls and queries |

The refresh loop is modelled by its effect: a key may lapse only while its user
has no registered connection (90 s against a refresh every 30 s).  The same
goroutines also run `leaveAllCalls`; it shares nothing with presence but the
hub's map, so `Presence` leaves it out, and `Calls` leaves the presence steps
out: they are two projections of one handler.

### Calls

`stored` and `calls` are the map of `CallRegistry`: which conversations have an
entry, and who is in it.  `join[c]` and `left[c]` are the locals of the handlers
between the registry's lock and the broadcast.  `voice` is the voice-channel
store, `rung` the calls a tab was rung for, `at` the call the tab's CallManager
believes it is in (what `call.leave` is sent for).  A tab may join a second call
before it has left the first, because `start()` waits for the microphone before
it says that it is in a call.  `RemoveMember` is the servers' operation: it
changes the members and tells the registry nothing.  A `call.left` without
participants is dropped by the client's schema, as in the code.

`CallBoard` has sessions and a board: a user enters or quits a call through an
open session and is taken off when one of its sessions closes.  A session is
open from Register until LeaveAll.

### CallManager

One tab per user, whose connection lasts (`Calls` has the lost ones).  A click
or an event of `callManager.ts` is a step up to its next `await`, and what comes
after the await is another:

| Variable | Code |
|---|---|
| `conv`, `local`, `audible`, `mics` | `conversationId`, `localStream`, its track's `enabled`, captures not yet stopped |
| `pending` | `start()` and `accept()` waiting for `getUserMedia` |
| `status`, `shown`, `muted` | `callStore` |
| `peers`, `loops`, `answers` | the `RTCPeerConnection`s, `handleCallJoined` and `handleOffer` waiting for a description |
| `up`, `wire`, `inbox` | events sent and not handled; the writes a goroutine has still to do; events received |
| `calls` | the registry, each handler one step here |

The smaller id makes the offer (users are numbers); offers and answers go
through `handleWebRTCSignal`, which tests both memberships and nothing else.

### Messages

`rows`/`live` are the table: one row for each `client_message_id`, with a
generation, since a deleted row may be followed by another one under the same
key when a create is retried.  A request goes from `sent` to `writing` (carried
out, being broadcast) or `refused` (404, 409); `waiting` says whether its client
still expects the answer.  `inbox[t]` is the socket, in order; answers are not
ordered with it.  `cache[t]` is the query `["messages", id]`: messages with a
status; `editor[t]` holds what each open editor was opened over.

| Action | Code |
|---|---|
| `Send`, `Retry`, `SaveEdit`, `Delete` | the hooks' mutate calls with their optimistic updates |
| `HandleCreate`, `HandleUpdate`, `HandleDelete`, `Refuse` | the handlers with their SQL up to the commit, and the list of recipients, which may fail |
| `Write`, `Hear` | broadcastToMembers, useRealtime's handleEvent |
| `Receive`, `ReceiveRefusal`, `LoseAnswer` | onSuccess, onError |
| `Refetch`, `List`, `LoadPage`, `LosePage` | the query function and the replacement of the cache |
| `Drop`, `Reconnect` | the socket; nothing is fetched on return |

`InsertOrReconcile`, `ReplaceIfNewer`, `RemoveById`, `MarkFailed` and
`MarkRetrying` are the five functions of `messageCache.ts` over sets: the order
of the list is presentation.  The text typed in request `r` is `r`, so that no
two edits happen to agree.

`Clips` are the keys of voice messages, pictures and videos, whose rows have
NULL for content.  Their hooks show no placeholder before the answer and nothing
after a failure, and their bubbles have no editor.  Deleting one differs too:
the row is gone when `DELETE ... RETURNING content` fails to scan that NULL into
a string (`service.go:343-355`), so the handler answers 500 and tells nobody
(`HandleDelete`, `AnswerError`).

`MessageLog` knows posting, revising and removing, and nothing of requests.

### Composer

`MessageComposer`, its recorder and the three mutations of a
`ConversationView` or `ChannelConversationView`.  The view has no React key: one
*pane* lives on when the user goes from conversation to conversation, with its
draft, its recording, its files and its mutations, and TanStack Query gives the
latest mutation of each hook the callbacks of the last rendering.  `at` is the
conversation a pane shows; `under` the conversation a request's callbacks speak
of, and `latest` whether they still follow the rendering.  A *take* is one
`start()` of the recorder: asked for, granted, `on`, and `due` its `stop` event
with the blobs that are then wanted.  `said` are the ids that a toast has said
to have failed.

### Signals

A *job* is something the server does for a tab, with three stages: it writes,
lists the members, tells them one by one.  Three things cut it short.  A request
may fail, or its client give up on it, at any stage, which leaves the rest
untold (`Fail`); the list of members may fail, and then nobody is told though
the request is answered (`TellNobody`); and an event of a socket whose query
fails is forgotten (`GiveUp`).

`line[u]` is the tab's socket, by number, or 0 while none is open.  What a tab
sends meanwhile is discarded (`Emit`, `socket.ts:50-54`), and what is written to
it is lost (`Tell`); when a socket fails, some of the last events on their way
to the server go with it (`Drop`).  The tab notices none of this: `marked` and
`typing` change all the same.  `Reconnect` opens the next socket, whose events
may be handled beside those of the last; nothing is fetched on return.  The
history variables `unmarked`, `untold` and `dropped` name exactly the receipts,
the members and the pairs of users that lost something so.

Reactions are part of rows and of
the tabs' copies; an edited row's broadcast carries none, as in the code.
`fetching`/`page` are the messages query (a page, then its reactions, two
statements), `asking`/`answer`/`list` the badge query, both cancelled and
restarted by an invalidation.  A member who is added hears events before its tab
has fetched anything, and is `behind` until it has.  `marked` is `lastMarkedRef`, `lastRead` the
receipts store.  `typing` is `isTypingRef` with its timeout, `shown` and
`expiry` the typing store.  There is one emoji and one tab per user: emojis do
not meet anywhere in the code, and the tabs of a user are like those of others.

### Servers

One server (or one being made), its members with their roles, its channels with
the conversations behind them, and per user the tab's list of servers.  A
request (`req[q]`) has the program counter of its handler; an SQL statement or a
transaction is a step; `Announce` and `Tell` are the broadcast; `Fail` is a
statement that fails, with what the handler then undoes or leaves.  The checks
of a handler are part of `Receive`, except where what they read is relied on
later without a constraint of the schema: those are steps (`members`,
`position`, `list`).  `StartList`/`FinishList` are `ListForUser` as the tab
fetches it: a running list shows what it has read, and `due` users fetch again.
A list whose user is removed while it is read is an error; the tab keeps the
list it has and does not try again (`retry: false` in `main.tsx`).
`AddToConversation` is `conversations.Handler.AddMember` used on the
conversation behind a channel: whoever is in it may add any user, member of the
server or not, and the servers' lists are not told.
`Drag` is a drag over the channel list, from the pick-up (`held`) to the drop,
with `useReorderChannels`' optimistic order.

### Accounts

The users table, the sessions and counters in Redis, the cookie that the tabs
of a browser share, and each tab's `["me"]` query.  A job is a request: `Serve`
carries it out in its steps (count, expire, check, write, session), and the tab
takes the answer in (`Receive`) or never gets it (`Lose`).  `page` is where the
router has the tab; `Render` and `Redirect` are the route guards.  Passwords and
profiles are numbered, 0 being a wrong password.  `useRegister` logs in again
with what was typed: a second job.

### Socket

`ready` is the readyState of each WebSocket, `socket` the one the object holds,
`timers` the timeouts pending, `handle` the one it can clear.  The object
forgets sockets and timeouts without closing or clearing them, so both are
sets.  `Leave` is the clean-up of useRealtime, which only unsubscribes: the
Back button to `/login` while signed in bounces off PublicOnlyRoute and mounts
the page again, possibly with a timeout pending.

## 3. What is checked

All configurations say `CHECK_DEADLOCK FALSE`: users need not act, and the
bounds end every behaviour.

| Run | Instance | Shows |
|---|---|---|
| `presence` | ann's three connections from two tabs with three drops and one fault; or two tabs of ann and one of bob, bob being added to ann's conversation | `OneAnnouncer`, `KeyNotLeaked`; `PeersAware`: once all is quiet each sees the other, whoever came first; `LeakedKeyExpires` under fairness |
| `presence_key_lost` | two connections of ann, one of bob | `SnapshotAccurate` is violated (finding) |
| `calls` | ann and bob in a direct call and a channel, with members removed; or ann reconnecting, alone or with bob; two requests in all, one failed query | `ParticipantHasConnection`, `ImplementsBoard`; `CallsDrain` under fairness |
| `call_manager` | three users, a direct conversation of two of them and a voice channel of all; up to four clicks; or the third already in the channel | `MicHeld`, `NothingOutlivesTheCall`, `StoreAgrees`, `MutedSilent`, `RegistryAgrees`, `MeshComplete` |
| `messages_store` | two tabs of the author, one message, a text or a clip, new or already loaded, three requests, one loss | `Agreement`, `OneWinner`, `PendingHasRequest`, `PlaceholderReconciled`, `TabsConverge`, `ImplementsLog` |
| `messages_pending` | author and reader, one new message, two requests, a fetch, a drop, two losses | `PendingResolves` under fairness, `FailedSendKept` |
| `composer` | two conversations, two panes one after another, two texts, takes or files, one failed request | `MicReleased`; `RecordingEnds` and `FilesAnswered` under fairness |
| `composer_switch` | the same with one more kind of file | `SpinnerHasRequest` is violated (finding) |
| `signals` | ann and bob, and cat who may be added; sixteen scenes, some with a request or a socket that fails | `ReactionsAgree`, `ReceiptsAgree`, `BadgeNeverLow`, `TypingAgrees`; `TypingEnds` under fairness |
| `servers` | ann the owner, bob with a role of staff, cat without a place, a plain member, or a server still to be made; the tabs of bob and cat; two requests in two goroutines, one fault | `EveryMemberHasRole`, `ChannelsFollowMembership`, `NoOrphans`, `ViewsConverge` |
| `accounts` | a browser with two tabs, two users, a limit of one attempt; thirteen scenes | `MeAgrees`, `SessionsOwned`, `PasswordsChain`; `BlockEnds` under fairness |
| `socket_reconnect` | four sockets, three timeouts, three drops, three visits | `NeverStranded`, `Reconnects`; on a first visit `OneSocket` |

The type invariants (`TypeOK`; of `Socket`, `SocketTypeOK`) are theorems (section
4); adding one to its configuration costs nothing worth mentioning.

### The bounds

*Presence, calls.*  Three connections of one user are the fewest with a
clean-up, an opening and a bystander at once; a drop for each lets all of them
end.  One fault suffices to leave a key behind or to skip an announcement.  Two
requests give a join with a join, or a join with a leave, from two goroutines.
The scenes start where the connections of interest are open, to reach further.

*Call manager.*  Two users show every crossing of a start, an accept, a decline
and a leave with the events of the other; the third shows joins that arrive
while an offer is awaited.  The click budgets are those in which every action
is taken: a user with three clicks against one with one, two against one, one
against one, and one alone with four (start, mute, leave, start again).

*Messages.*  Three requests give a create, its retry and an edit between them,
or two edits of one version and a third after; one lost answer gives one retry.
In `messages_store` nothing is fetched or missed, and only the answer to a
create is lost, because after that tabs may differ until the next fetch:
`TabsConverge` states what the cache functions give on their own.  Requests and
tabs are interchangeable: all tabs are of one user and all messages by that
user, so that the constant functions are invariant under the permutations and
no definition tells one from another.  The text and the clip are two keys, which
are not interchangeable; the requests of one behaviour are all about one of
them (`OneMessage`).  `messages_pending` has a text only: a clip has no
placeholder, so neither of its properties is about one.

*Composer.*  Two takes are the fewest of which one is begun while another is
awaited or stopping; the second pane, opened where the first was closed
(`SecondPaneStays`; the other choice adds a renaming of the conversations), meets what
the first left behind.

*Signals, accounts.*  A scene says which tabs are open and how often each thing
is done.  A space of all combinations is out of reach and mostly disjoint: what
a reaction meets is other reactions, edits, deletions and fetches of its
message.  The scenes put together, for each property, all pairs of operations
that touch the same state, with a failure or a loss where one matters: a request
that fails beside a reaction, a create or the reading of one, and a socket that
fails beside a receipt, a badge, a reaction or typing.
`Limit = 1` makes the second attempt the refused one.

*Servers.*  Two requests overlap in every pair of handlers, for each of the
three servers; the fault is any statement.  The goroutines that serve them are
interchangeable.  Two sets of permissions (none; roles, channels and kick) are
what the checks tell apart.

*Socket.*  Socket objects and timeouts are used again once closed or fired: each
timeout is preceded by a close, so that sockets not yet closed never outnumber
the visits and timeouts never the drops, and the sets are large enough for
`Open` and `ScheduleReconnect` never to be stopped by them.

### Fairness

Assumed is what the code's scheduling gives, and only where a property needs it.

- Presence: Redis expires keys (`Expire`).
- Calls: the Go scheduler runs what can run, and a query answers or fails
  (`Progress`).  It includes that a write to a socket ends; the code sets no
  deadline, and a peer that stops reading is outside these modules.
- Messages: a request that is waited for is served or lost, a tab runs its
  callbacks (`Handle`, `Answer`, `TabStep`).  A request that was given up may
  never be carried out.
- Composer: the browser ends reading a file, fires the recorder's `stop`, and
  answers a request, each for itself.  Nobody has to grant a microphone.
- Signals: a timeout that stays armed expires (`Expire`), nothing else.
- Accounts: a TTL runs out (`Elapse`), and a request that has been counted goes
  on to its EXPIRE.
- Socket: the socket's events and the timeouts come (`Opened`, `Closed`, `Fire`).
- CallManager and Servers: safety only.

Nothing is fair that a user does, and no drop, loss or fault: those are bounded
instead, which says that failures stop at some time.

### Findings

Each is a run in which TLC finds a behaviour that a text of the repository
excludes.

- `presence_key_lost`: the clean-up of a connection unregisters, then deletes
  the key; a connection of the same user that registers and sets the key in
  between loses it, and Refresh (EXPIRE) does not restore a key.  The user is
  left out of snapshots while connected (against `frontend/BACKEND_GAPS.md:10`).
- `composer_switch`: a text is under way when its pane goes to another
  conversation; the mutation gets the callbacks of the new rendering, so that
  its failure is marked in the other conversation's list.  The placeholder stays
  `pending`, with no request and no retry, until that list is loaded again
  (against `frontend/README.md:68`).

## 4. What is proved

`TLAPS` checks the theorems of the `...Proofs` modules for every value of the
constants: any users, tabs, connections, conversations, requests, files, clicks
and bounds that meet the assumptions declared with the constants (functions from
connections to users and tabs, sets of conversations, natural bounds).

**PresenceProofs.**  `HubIsExact`, `AnnouncersExclusive`, `NoLeakedKey`,
`TypeCorrect`.  The inductive invariant is the typing of the variables involved
with the three properties together: that only one goroutine announces rests on
the exactness of the map (a second "first" would need an empty set, so the other
goroutine to have unregistered), and that the key is not leaked rests on both.
Most steps only move a goroutine among labels of the same side of Register and
Unregister (`QuietMove`), or are another goroutine's (`Bystander`).
`PeersLearnOfEachOther` is `PeersAware` where nothing was dropped and nothing
failed, the case the property is about, and follows from `SteadyPeersAreSeen`,
which says the same of any run without a fault, whatever was dropped: a peer
that lost none of its own sockets is shown once all is quiet.  Behind both is
`Knowing`: a tab already shows such a peer, or some goroutine still owes it the
news (`Owes`: it will set the key and announce, is announcing, is reading the
snapshot, or is adding the member).  `KeySet` says that the snapshot finds the
key, and `FarewellsOfLeavers` that nobody says goodbye for who is still there.

**CallsProofs.**  `EntriesExact`, `NoOrphanParticipant`, `CallsImplementBoard`,
`TypeCorrect`.  The invariant is typing with the two properties; it says that a
goroutine that can still put its user in a call can still take it out.  Every
step of `Next` is then one of four moves (a plain move, a join, a leave, a
leave-all), and each maps to a step or a stutter of the board.  `TypeCorrect`
adds the events under way and the tabs' views (`HubAndTabsOK`), which the
invariant does not need.

**CallManagerProofs.**  `MicrophoneHeld`, `StoreShowsTheCall`,
`CallLeavesNothing`, `MutedIsSilent`, `RegistryKnowsTheCallers`,
`EverybodyIsConnected`, `TypeCorrect`.  The first four are about one tab, and
none is inductive alone: whether a grant is the only one depends on
what was pending when it was asked for, and that on what the bar showed.  The
invariant says, for a user who did not click on while waiting (`Careful`), that
at most one `start` or `accept` is pending, none while there is a stream, and
an `accept` for the call that rings; `Meshed` and `Offers` say that offers go from smaller to
larger ids wherever they are under way, so that a connection is not at once
offering and answering.  A step of the server or of another tab leaves a tab's
part alone; a step of the tab itself is one proof step per handler.
`RegistryKnowsTheCallers` is about one user and the registry: if a join or a
leave of the user about a conversation is still on its way, the last one says
whether the manager is in it; if none is, the registry does (`Agreed`).  Joins
are only sent where they will be let in (`Asked`, `Joining`, `Rung`).
`EverybodyIsConnected` is `MeshComplete`, and about two users and all that is
under way between them.  Its invariant (`Entangled`) holds as long as nobody has
parted or clicked on (`Steady`), as the property does.  `Known` says that
whoever an event, a loop or an answer names is in the call it is of, so that
nothing is turned away.  For a pair, of whom the smaller makes the offer,
`Noticed` says that it has begun, or has the other left on its list, or will
still hear of it; and `Matched`, that the two ends fit what is under way: a
connection being made has its loop, one that was offered has the offer, the
answer being made or the answer under way, and what is answered has its
connection at the other end.  When all is quiet only "stable" is left.

**MessagesProofs.**  `TypeCorrect`, `CopiesAgree`, `EditsExclusive`,
`SpinnerHonest`, `TableImplementsLog`, `PlaceholdersReconcile`, `TabsDoConverge`,
`FailedIsKept`.  `Agreement` is not inductive: a new
version could meet a copy of that version somewhere.  The strengthening adds
`NotAhead` (no copy is newer than its row), `LiveStored` (live rows have been
posted), `EditsOver` (an accepted edit's version is below its row's), and
`AnswersAsked` (a reply is about the message its request named, and only an edit
or a delete is refused).  `CopiesStep` shows that a step adds no copy but those
of the new row.  `TableImplementsLog` needs only typing.  The last three rest on
`Settled`.  Its part `Orderly` holds while no answer to a create is lost: a
message has one generation and one create, and no tab two bubbles for a key.
Its part `Settling` says for each tab and message that the tab shows the row as
it is, or that the answer or event which will make it so is on its way to that
tab; it assumes that no socket was dropped and no list fetched, and
`TabsDoConverge` is stated with that said, which `messages_store` has as its
bounds.  Beside the live rows a tab may show the clips whose deletion nobody
was told of (`Ghosts`), and nothing else.  `FailedIsKept` is the action property `FailedSendKept`.  A retry marks
every bubble of its client id, so that one with an id of the server may be failed
too, and a `message.deleted` takes that one away; but then the placeholder is
beside it with the same status (`Anchors`), and an event, which carries an id,
takes no placeholder that failed.

**ComposerProofs.**  `MicrophoneReleased`, `TypeCorrect`.  Typing is not
inductive alone: a request is made of the conversation of its pane, so who works
for a pane has to work for one that was opened (`Working`).  `MicReleased` is
then preserved by every step, with one proof step for each operation of the
recorder; a take begun beside another one is counted out (`rash`) when it is
granted, which is where the code loses hold of it.

**ServersProofs.**  `MembersHaveRoles`, `MembershipFollowed`,
`NoConversationOrphaned`, `ListsConverge`, `TypeCorrect`.  What holds of the tables alone is not inductive: what
a request read in one statement it trusts in a later one, so the invariant says
of each request how far it has come.  `Moving`: the members that a DeleteRole has
locked still have the role at its commit, and whoever has it besides got it
meanwhile (`hasty`).  `Made`: the conversation of a channel that is being made
has the owner, and the members among the settled users; a user who is added to
the conversation without being a member is settled no longer.  `Placed` and `Alone`:
an undisturbed request about a member's place runs beside no other one about
that user and beside no making of a channel, and has dealt with every channel no
longer on its list.  `Pairs`: two deletions lock different members, two makings
have different channels, and nobody deletes a channel still to be inserted.
`BegunAssumption` says what a server is like that is there at the start.  A step
of a tab leaves all of this alone (`Same`); a step of a request has one lemma
for each handler and statement, and under it one step for each part of the
invariant.  `ListsConverge` adds the tabs (`Informed`): unless a change went
untold, a tab shows what is stored, or it is due to fetch, or is fetching and
has yet to read, or a request that has changed something is still to tell it
(`Fine`, `Reaches`).  `Unseen` says that nobody is shown a server that is not
made.

The types need more than their own statement (`Shape`): what a request carries
to a later statement (`Shaped`: the permissions of a role, the order of a drag
and the lists it may put back), and that a list names no channel but existing or
former ones (`Listing`), since a drag holds what the list names.  The place of a
new channel is a number because one of finitely many channels is the last
(`LastChannel`, by the well-foundedness of strict inclusion on finite sets),
which is the one use of the assumption that the channels are finitely many.

**AccountsProofs.**  `SessionsHaveOwners`, `PasswordsFollow`, `TabsKnowTheAccount`,
`TypeCorrect`.  The invariant says of each request what its stage has made certain (`Fits`): one that
is known has a user, only an answer to a login or a registration brings a
session, and no identifier is ahead of the last one given out.  Typing is
inductive with that.  `Owned` adds that a logout carried out has ended the
session of its cookie, or that this session is spare already (`Ended`); so the
answer that clears the cookie loses no session.  `Chained` says that a change of
password between its check and its write still has the password, and is the only
one for its user unless it is counted as `crossed`; so what it replaces is what
it was given.  `TabsKnowTheAccount` is `MeAgrees`, by `Minded`: a session belongs
to one browser and to one request that brings it (`Sound`); an answer on its way
to a tab that has not strayed has the data of that tab's session, unless the
tab is being logged out (`Current`); and such a tab shows its session's account,
is about to fetch it, or awaits the answer that sets it right (`Believing`).
What makes a tab stray is exactly what breaks one of these: a cookie replaced
under it, its account changed by another or beside a request of its own that
has read it, a session that ended.

**TabProofs.**  What a tab hears from others, and the socket it hears it through.

For `Signals`, `TypeCorrect` and the four invariants that its run checks.  Each
of these speaks of a moment when nothing is under way, and none is inductive: in
between, a tab is wrong about something that it is about to be told.  The
inductive invariants say the same of every moment, with the jobs that still
*owe* a tab an event (`Owes`: the row is written and the tab not yet told)
excusing it.  They rest on two more.  `Typed` types the variables, and says that
who is no member has done and shown nothing yet (`Strangers`).  `Fresh` says that
a message is nowhere, in no row, copy, page or tab's mind, before the job that
creates it has written it: nothing meets a row that is still to be made.

- `TypingIsShown` (`TypingAgrees`) by `Heeded`: the typing events of a writer are
  told in order, and the last of those that a reader has still to hear, or the
  indicator when there is none, says what the writer's `isTypingRef` says, for each pair that has missed none of them.  Events that
  come from two sockets of one writer may be told in any order; `Leading` and
  `Current` say that whenever that can happen the writer's pairs are excepted
  already.
- `ReadIsNoted` (`ReceiptsAgree`) by `Noted`: a message that was marked has its
  receipt, or its row is gone, or its event is still to be served, or that very
  event was lost (`unmarked`); and whatever is told of or shown has its receipt
  already.
- `BadgeCountsUnread` (`BadgeNeverLow`) by `Counted`: a badge is high enough, or
  is asked for, or answered with enough, or its member is owed the event of a
  message that was created, or was left untold of one (`untold`) and has not
  read the list since.  It rests on a lemma about cardinalities: what is
  unread grows by a create only.
- `ReactionsAreShown` (`ReactionsAgree`) by `Settled`.  `Stored`: a user who has
  not toggled twice at once has one toggle under way on a message, and once it
  is written the row has it.  `Fine`, for each tab and each stage of its query
  (the cache when nothing is fetched, the page when it is listed, and with its
  reactions when it is loaded, unless an event came in between): every copy is
  of a row there is, or the tab is owed its deletion, and every row has a copy,
  or the tab is owed its creation (`Placed`); and copies have the reactions of
  the rows, but for users whose toggle is owed, or was just made by the tab
  itself (`Shows`, `Excused`).

For `Socket`, `SocketTypeCorrect` is its type invariant, above all that the
timeout's handle is empty or names a timeout still pending.  `StrandsNobody` is
`NeverStranded`, with `mounted => ~intentionalClose`, which is what makes the
close listener schedule (`Tied`).  `HasOneSocket` is `OneSocket`: on a first
visit there is at most one socket that is not closed, or one timeout pending,
never both (`Single`).

Model-checked only:

- everything about liveness (`LeakedKeyExpires`, `CallsDrain`,
  `PendingResolves`, `RecordingEnds`, `FilesAnswered`, `TypingEnds`,
  `BlockEnds`, `Reconnects`), which the prover does not do.

Every safety property of a passing run is also a theorem.

## 5. What the modelling brought to light

Sequences of steps that the code allows, and that the properties except or the
models contain.  None is the subject of a run, because no line of the
repository promises the opposite, or because one run for the same cause is
enough.

**Presence and calls**

- A snapshot is read and then written.  A `user.offline` of a peer read as
  online may be written in between, and since snapshots only add users the tab
  keeps showing that peer.
- `leaveAllCalls` runs for every connection that closes, while the comment on
  `LeaveAll` speaks of the last one: closing a second tab ends the user's call
  in the first.
- Participant lists are taken under the registry's lock and written after it
  (`handler.go:414`, `463`); two goroutines may write them in opposite orders, and an
  idle member's tab keeps the older list.
- A member removed from a server stays in a call of its channel until its
  connection closes; only the relay asks for membership again.

**CallManager**

- A user may click on while the microphone is awaited (`rash`): start a second
  call, or decline the one being accepted.  Whichever grant comes last replaces
  the stream, unmuted (`callManager.ts:66-67`), while the store may show muted,
  and the first stream is not stopped.
- `call.ended` carries the conversation and not the call.  One written before
  the tab's own join was handled tears its new call down, while the registry
  keeps it (`crossed`): after a leave and a quick restart this is the tab's own
  `call.ended`.
- A tab that has not joined ignores `call.ended` for a call it is being rung
  for; the bar rings on until it is declined.

**Messages**

- `insertOrReconcileMessage` (`messageCache.ts:12`) compares no versions: an
  answer to a create that comes after an edit's event puts version 1 back
  (against `FRONTEND_AGENT.md:456`).  `TabsConverge` excepts messages sent and
  changed at once (`Overtaken`).
- An edit is sent with the version in the cache when it is saved
  (`ConversationView.tsx:64`), not when the draft was begun: the version check
  cannot see that the author never read what is overwritten
  (`FRONTEND_AGENT.md:345`, `354`).
- Deleting a voice message, a picture or a video removes the row and then fails:
  `Service.Delete` scans the NULL content into a string (`service.go:343-355`).
  The answer is a 500 and nobody is told, so every tab, the deleter's too, keeps
  the message until it loads the list.  `TabsConverge` excepts just these rows
  (`Ghosts`).
- A placeholder marked failed is not recognised when the event of its message
  comes, and both are shown: `PlaceholderReconciled` needs that no answer is
  lost.
- `FailedSendKept` excepts the load of a list: it replaces the cache, and the
  failed message with its text is gone.

**Composer**

- A draft typed in one conversation is sent to the one shown when Enter is
  pressed; a clip or picture likewise goes where the pane is when it is ready.
  An answer after a change of conversation inserts the message into the list of
  the other one.
- Two clicks on "send" before the recorder's last event send the take twice.
  The sound of a cancelled take may be mixed into the next when its microphone
  is granted quickly.
- A microphone granted to a pane that has been closed, or begun beside another
  one, is stopped by nothing (`rash`).
- The recorder ignores the input device chosen in the settings, which
  `frontend/README.md:47` says is used.

**Signals**

- Messages in `message.updated` events and in answers to edits carry no
  reactions, and the cache replaces the whole message: an edit wipes the
  reactions that a tab shows until its next fetch (`behind`).
- Reaction broadcasts go to all members, the toggler included
  (`useToggleReaction.ts:12-13` says "only others"); two overlapping toggles of
  one user may end either way (`raced`).
- A tab's own list of conversations is not refreshed after its own
  `message.read`, and only the latest incoming message is marked.
- A typing indicator times out while its user types on, since `typing.started`
  is not sent again (`expired`).
- The write of a request may have happened and nobody be told of it: its list of
  members fails (`broadcastToMembers`), or its client gives up on it, which
  cancels the context of what is left to do.  A message created so is missing
  from badges (`untold`) and from tabs (`behind`) until they are fetched again.
- `RealtimeSocket.send` discards what is sent while the socket is not open
  (`socket.ts:50-54`), and what is written to a user without a socket is lost.
  `useReadReceipts.ts:38-39` has set `lastMarkedRef` by then, so a message marked
  while the tab is reconnecting gets no receipt, unless it is still the latest
  when the conversation is opened anew (`unmarked`); a typing event is missed by those
  who would have heard it (`dropped`, as pairs of users).
- A member who is added is not told of the conversation either; its tab still
  hears its events, so that a `message.created` told late puts a row into its cache without the reactions it
  has by then.  The proof of `ReactionsAgree` brought this to light: it takes a
  message, a fetch, a reaction and an addition under way at once, and a scene
  with all of them is too large for the run.

**Servers**

- `DeleteRole` moves the members of a role to the default one, then deletes it;
  a role assigned in between ends as NULL (`hasty`), against the comment at
  `service.go:638`.
- `CreateChannel` reads the members first: one removed before the conversation
  is made is in the new channel (`service.go:553` says a removed member is in none).
  With `DeleteServer` it leaves a conversation without a channel.
- `AddMember` goes channel by channel without a transaction; failing half-way it
  leaves a member of some channels.  Asking again heals it, which is what
  `ChannelsFollowMembership` says (`settled`).
- `POST /conversations/{id}/members` (`conversations/handler.go:87-131`) takes the
  conversation behind a channel like any other: whoever is in the channel may add
  any user to it alone, one removed from the server too.  Such a user is in that
  channel and no other, and `ChannelsFollowMembership` holds again after the next
  undisturbed request about the user's place (`settled`).
- `ListForUser` is an error to a user removed while it reads, and no query is
  tried again (`main.tsx:12`): the tab keeps its list until the next event or
  fetch.
- `Create` tells nobody, `Update` tells nobody when its reading back fails
  because its user was removed, `DeleteServer` tells the members it listed
  before (`untold`).  A `Create` that fails after its first statement leaves a
  server without a default role.
- Two `CreateChannel` may compute the same `MAX(position) + 1`.

**Accounts**

- Registration sets a cookie and `useRegister` logs in again
  (`useAuthMutations.ts:21`, against `users/handler.go:111` and
  `BACKEND_GAPS.md:9`): the first session is left to its TTL (`spare`).
- When EXPIRE fails after INCR the counter never goes away (`stuck`), and when
  Redis fails the limiter lets everybody pass.
- Any error of the session store is a 401; `Logout` ignores a failed delete; the
  tab clears its cache after a logout that failed.
- The tabs of a browser share the cookie, but each keeps its `["me"]` until it
  is loaded again (`strayed`).  A 401 while an account is cached does not clear
  it (`setQueryData(key, undefined)` does nothing), and the tab bounces between
  the two routes.
- A change of password ends no session; of two that overlap both may pass the
  check (`crossed`).
- The login that follows a registration may be overtaken.  Its cookie being set
  already, a refetch of `["me"]` on the window's focus (`Render`) lets the tab
  in, where it changes its profile; an answer to the login that was read before
  that and comes after it puts the old profile back (`useAuthMutations.ts:26`),
  until the next load.

**Socket**

- `connect()` ignores a pending timeout, which then opens a second socket, even
  after a logout, and whose handle is overwritten by the next: `OneSocket` is
  about a first visit.

## 6. Not modelled, and what is left

- *Platform and migrations*: wiring and start-up, run once before anything
  listens.
- *Call audio*: playback, the speaking indicator, lists of devices, ICE
  candidates: browser media that decide nothing the modules keep.
- *Pages and server forms*: layout, themes, text fields over the mutations that
  the modules have.  What they hold that matters is modelled where it bites: the
  editor of a bubble (`Messages`), the conversation a pane shows (`Composer`), the
  mounted page (`Socket`), the route (`Accounts`), the drag (`Servers`).
- *Conversations* and *users* in part: names, previews of last messages, the
  attachment of profiles, the search of users, the bytes of avatars.
- *Messages* in part: attachments' bytes and metadata, message order and
  pagination are data that no property distinguishes.  The limit on sending (one
  counter per user) is a request that fails.
- *A write that blocks*: the hub's writes have no deadline, so a client that
  stops reading stops the goroutines that write to it.  The modules assume that
  a write ends; a module of the hub with blocked writes would show how much of
  the fairness above hangs on it.
- A proxy that closes sockets half-way, clock skew, and two servers at once (the
  hub and the registry are in memory: the code is for one).
