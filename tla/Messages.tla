------------------------------ MODULE Messages ------------------------------
(***************************************************************************)
(* The messages of one conversation: the rows of the messages table        *)
(* (internal/messages/service.go), the HTTP requests that change them and  *)
(* broadcast the change (internal/messages/handler.go), and the copy every *)
(* browser tab keeps, fed by three paths that nothing orders: the response *)
(* to its own requests, the WebSocket events and whole-list fetches        *)
(* (api/messageCache.ts, hooks/useSendMessage.ts, useEditMessage.ts,       *)
(* useDeleteMessage.ts, useMessages.ts, useRealtime.ts).                   *)
(*                                                                         *)
(* A request commits, writes its event to one tab after another and only   *)
(* then answers.  The client may lose the answer at any time, and then     *)
(* does not know whether the request was carried out.                      *)
(***************************************************************************)
EXTENDS Naturals, Sequences

CONSTANTS
  Users,
  Tabs, UserOf,     \* browser tabs of members, and the user of each
  Keys, AuthorOf,   \* client_message_ids, and the user who drew each
  Clips,            \* the keys of voice messages, pictures and videos: their
                    \* rows have an attachment, and NULL for content
  Requests,         \* HTTP requests: each is sent at most once
  Seeded,           \* the messages already stored and loaded by every tab
  Original,         \* the text of a seeded message
  MaxFetches,       \* bound: list fetches
  MaxDrops,         \* bound: sockets that fail
  MaxLosses         \* bound: answers lost and queries failed

ASSUME MessageConstants ==
  /\ UserOf \in [Tabs -> Users]
  /\ AuthorOf \in [Keys -> Users]
  /\ Seeded \subseteq Keys /\ Clips \subseteq Keys
  /\ MaxFetches \in Nat /\ MaxDrops \in Nat /\ MaxLosses \in Nat

VARIABLES
  rows,             \* rows[k]: the last row stored under k
  live,             \* the keys whose row has not been deleted
  pc, req, reply,   \* each request: its progress, what it asks, the row answered
  todo,             \* each request: the tabs its event is still to be written to
  waiting,          \* the requests whose client still expects the answer
  up, inbox,        \* the tabs with a socket, and the events in each socket
  cache,            \* the ["messages", id] query of each tab
  editor,           \* the messages a tab is editing, as shown when it began
  fetching, page,   \* the list fetch of each tab
  fetches, drops, losses

serverVars == <<rows, live>>
requestVars == <<pc, req, reply, todo, waiting>>
socketVars == <<up, inbox>>
tabVars == <<cache, editor>>
fetchVars == <<fetching, page, fetches>>
vars == <<serverVars, requestVars, socketVars, tabVars, fetchVars, drops, losses>>

(* The text typed in request r is r: no two users ever type the same.  Under*)
(* one client_message_id a deleted row may be followed by another, with an  *)
(* id of its own: <<key, gen>>.  Placeholders have gen 0.                   *)
Message == [key: Keys, gen: Nat, version: Nat, text: Requests \cup {Original}]
Id(m) == <<m.key, m.gen>>

ChatMessage == [msg: Message, status: {"sent", "pending", "failed"}]
Sent(m) == [msg |-> m, status |-> "sent"]

Event == [type: {"create", "edit", "delete"}, msg: Message]
Request == [op: {"create", "edit", "delete"}, tab: Tabs, msg: Message]
None == [op |-> "none"]

TypeOK ==
  /\ rows \in [Keys -> Message] /\ live \in SUBSET Keys
  /\ \A k \in Keys : rows[k].key = k
  /\ pc \in [Requests -> {"free", "sent", "writing", "refused"}]
  /\ req \in [Requests -> Request \cup {None}]
  /\ reply \in [Requests -> Message \cup {None}]
  /\ \A r \in Requests : pc[r] # "free" => req[r] \in Request
  /\ \A r \in Requests : pc[r] = "writing" => reply[r] \in Message
  /\ todo \in [Requests -> SUBSET Tabs]
  /\ \A r \in Requests : todo[r] # {} => pc[r] = "writing"
  /\ waiting \in SUBSET {r \in Requests : pc[r] # "free"}
  /\ up \in SUBSET Tabs
  /\ inbox \in [Tabs -> Seq(Event)]
  /\ cache \in [Tabs -> SUBSET ChatMessage]
  /\ editor \in [Tabs -> SUBSET Message]
  /\ fetching \in [Tabs -> {"no", "asked", "answered"}]
  /\ page \in [Tabs -> SUBSET Message]
  /\ fetches \in 0..MaxFetches /\ drops \in 0..MaxDrops /\ losses \in 0..MaxLosses

Init ==
  /\ rows = [k \in Keys |-> [key |-> k, gen |-> IF k \in Seeded THEN 1 ELSE 0,
                             version |-> 1, text |-> Original]]
  /\ live = Seeded
  /\ pc = [r \in Requests |-> "free"]
  /\ req = [r \in Requests |-> None]
  /\ reply = [r \in Requests |-> None]
  /\ todo = [r \in Requests |-> {}]
  /\ waiting = {}
  /\ up = Tabs
  /\ inbox = [t \in Tabs |-> <<>>]
  /\ cache = [t \in Tabs |-> {Sent(rows[k]) : k \in Seeded}]
  /\ editor = [t \in Tabs |-> {}]
  /\ fetching = [t \in Tabs |-> "no"]
  /\ page = [t \in Tabs |-> {}]
  /\ fetches = 0 /\ drops = 0 /\ losses = 0

Lose == losses < MaxLosses /\ losses' = losses + 1

-----------------------------------------------------------------------------
(* messageCache.ts                                                          *)

(* Faulty: the placeholder is not recognised as the message it became.      *)
InsertById(messages, m) == {e \in messages : Id(e.msg) # Id(m)} \cup {Sent(m)}

InsertOrReconcile(messages, m) ==
  {e \in messages : /\ ~(e.status = "pending" /\ e.msg.key = m.key)
                    /\ Id(e.msg) # Id(m)} \cup {Sent(m)}

(* Faulty: whatever arrives last wins.                                      *)
ReplaceAlways(messages, m) ==
  {IF Id(e.msg) = Id(m) THEN Sent(m) ELSE e : e \in messages}

ReplaceIfNewer(messages, m) ==
  {IF Id(e.msg) = Id(m) /\ m.version >= e.msg.version THEN Sent(m) ELSE e : e \in messages}

RemoveById(messages, m) == {e \in messages : Id(e.msg) # Id(m)}

(* Faulty: only a message already failed is marked failed.                  *)
MarkFailedAgain(messages, k) ==
  {IF e.status = "failed" /\ e.msg.key = k THEN [e EXCEPT !.status = "failed"] ELSE e :
     e \in messages}

MarkFailed(messages, k) ==
  {IF e.status = "pending" /\ e.msg.key = k THEN [e EXCEPT !.status = "failed"] ELSE e :
     e \in messages}

(* Faulty: the failed bubble goes, for the answer to put the message back.  *)
MarkRetryingByRemoval(messages, k) == {e \in messages : e.msg.key # k}

(* Every message with that client id, a confirmed copy included.            *)
MarkRetrying(messages, k) ==
  {IF e.msg.key = k THEN [e EXCEPT !.status = "pending"] ELSE e : e \in messages}

(* What an event, or the answer to a request, does to the tab's messages.   *)
Apply(messages, type, m) ==
  IF type = "create" THEN InsertOrReconcile(messages, m)
  ELSE IF type = "edit" THEN ReplaceIfNewer(messages, m)
  ELSE RemoveById(messages, m)

(* A bubble whose message is gone from the list takes its editor with it.   *)
Show(t, messages) ==
  /\ cache' = [cache EXCEPT ![t] = messages]
  /\ editor' = [editor EXCEPT ![t] = {m \in @ : \E e \in messages : Id(e.msg) = Id(m)}]

-----------------------------------------------------------------------------
(* What the user does in a tab                                              *)

Submit(r, t, op, m) ==
  /\ pc[r] = "free"
  /\ pc' = [pc EXCEPT ![r] = "sent"]
  /\ req' = [req EXCEPT ![r] = [op |-> op, tab |-> t, msg |-> m]]
  /\ waiting' = waiting \cup {r}
  /\ UNCHANGED <<serverVars, reply, todo, socketVars, fetchVars, drops, losses>>

Own(t, e) == AuthorOf[e.msg.key] = UserOf[t]

(* useSendMessage shows a text at once; useSendVoiceMessage and             *)
(* useSendMediaMessage show nothing before the answer, nor after a failure. *)
Send(t, r) ==
  \E k \in Keys :
    LET m == [key |-> k, gen |-> 0, version |-> 1, text |-> r] IN
    /\ AuthorOf[k] = UserOf[t] /\ rows[k].gen = 0
    /\ \A q \in Requests : pc[q] # "free" => req[q].msg.key # k
    /\ Submit(r, t, "create", m)
    /\ IF k \in Clips THEN UNCHANGED tabVars
         ELSE Show(t, cache[t] \cup {[msg |-> m, status |-> "pending"]})

Retry(t, r) ==
  \E e \in cache[t] :
    /\ e.status = "failed"
    /\ Submit(r, t, "create", e.msg)
    /\ Show(t, MarkRetrying(cache[t], e.msg.key))

OpenEditor(t) ==
  /\ \E e \in cache[t] :
       /\ e.status = "sent" /\ Own(t, e) /\ e.msg.key \notin Clips
       /\ \A m \in editor[t] : Id(m) # Id(e.msg)
       /\ editor' = [editor EXCEPT ![t] = @ \cup {e.msg}]
  /\ UNCHANGED <<serverVars, requestVars, socketVars, cache, fetchVars, drops, losses>>

CancelEdit(t) ==
  /\ \E m \in editor[t] : editor' = [editor EXCEPT ![t] = @ \ {m}]
  /\ UNCHANGED <<serverVars, requestVars, socketVars, cache, fetchVars, drops, losses>>

(* The edit carries the version the cache holds when it is saved.           *)
SaveEdit(t, r) ==
  \E m \in editor[t], e \in cache[t] :
    /\ Id(e.msg) = Id(m)
    /\ Submit(r, t, "edit", [e.msg EXCEPT !.text = r])
    /\ editor' = [editor EXCEPT ![t] = @ \ {m}]
    /\ UNCHANGED cache

Delete(t, r) ==
  \E e \in cache[t] :
    /\ e.status = "sent" /\ Own(t, e)
    /\ Submit(r, t, "delete", e.msg)
    /\ UNCHANGED tabVars

-----------------------------------------------------------------------------
(* Handler.Create, Update and Delete, up to the commit                      *)

(* The row is stored; the members to tell are listed, or, when that query   *)
(* fails, nobody is told and the request still succeeds.                    *)
Commit(r, row) ==
  /\ pc' = [pc EXCEPT ![r] = "writing"]
  /\ reply' = [reply EXCEPT ![r] = row]
  /\ \/ todo' = [todo EXCEPT ![r] = Tabs] /\ UNCHANGED losses
     \/ Lose /\ UNCHANGED todo
  /\ UNCHANGED <<req, waiting, socketVars, tabVars, fetchVars, drops>>

Stored(m) == m.key \in live /\ Id(rows[m.key]) = Id(m)

(* Faulty: ON CONFLICT DO UPDATE, which puts the first version back.        *)
HandleCreateAgain(r) ==
  LET k == req[r].msg.key
      gen == IF k \in live THEN rows[k].gen ELSE rows[k].gen + 1
      row == [key |-> k, gen |-> gen, version |-> 1, text |-> req[r].msg.text]
  IN
  /\ pc[r] = "sent" /\ req[r].op = "create"
  /\ Commit(r, row)
  /\ rows' = [rows EXCEPT ![k] = row]
  /\ live' = live \cup {k}

(* ON CONFLICT (sender_id, client_message_id): the existing row is returned.*)
HandleCreate(r) ==
  LET k == req[r].msg.key
      row == [key |-> k, gen |-> rows[k].gen + 1, version |-> 1, text |-> req[r].msg.text]
  IN
  /\ pc[r] = "sent" /\ req[r].op = "create"
  /\ \/ k \in live /\ Commit(r, rows[k]) /\ UNCHANGED serverVars
     \/ /\ k \notin live
        /\ Commit(r, row)
        /\ rows' = [rows EXCEPT ![k] = row]
        /\ live' = live \cup {k}

(* Faulty: WHERE id = $2 AND sender_id = $3, whatever the version.          *)
MatchesAnyVersion(m) == Stored(m)

(* UPDATE ... WHERE id = $2 AND sender_id = $3 AND version = $4.            *)
Matches(m) == Stored(m) /\ rows[m.key].version = m.version

(* Faulty: the new text is stored under the version it was made over.       *)
HandleUpdateInPlace(r) ==
  LET m == req[r].msg IN
  /\ pc[r] = "sent" /\ req[r].op = "edit"
  /\ Matches(m)
  /\ Commit(r, m)
  /\ rows' = [rows EXCEPT ![m.key] = m]
  /\ UNCHANGED live

HandleUpdate(r) ==
  LET m == req[r].msg
      row == [rows[m.key] EXCEPT !.version = @ + 1, !.text = m.text]
  IN
  /\ pc[r] = "sent" /\ req[r].op = "edit"
  /\ Matches(m)
  /\ Commit(r, row)
  /\ rows' = [rows EXCEPT ![m.key] = row]
  /\ UNCHANGED live

(* An error is answered, and nobody is told.                                *)
AnswerError(r) ==
  /\ pc' = [pc EXCEPT ![r] = "refused"]
  /\ UNCHANGED <<req, reply, todo, waiting, socketVars, tabVars, fetchVars, drops, losses>>

(* DELETE ... RETURNING content: the NULL of a clip cannot be scanned into  *)
(* a string, which is an error once the row is gone.                        *)
HandleDelete(r) ==
  LET m == req[r].msg IN
  /\ pc[r] = "sent" /\ req[r].op = "delete"
  /\ Stored(m)
  /\ IF m.key \in Clips THEN AnswerError(r) ELSE Commit(r, rows[m.key])
  /\ live' = live \ {m.key}
  /\ UNCHANGED rows

(* No row: 409 to an edit, 404 to a delete.                                 *)
Refuse(r) ==
  /\ pc[r] = "sent"
  /\ \/ req[r].op = "edit" /\ ~Matches(req[r].msg)
     \/ req[r].op = "delete" /\ ~Stored(req[r].msg)
  /\ AnswerError(r)
  /\ UNCHANGED serverVars

(* broadcastToMembers, one socket at a time.                                *)
Write(r, t) ==
  /\ t \in todo[r]
  /\ todo' = [todo EXCEPT ![r] = @ \ {t}]
  /\ inbox' = IF t \in up
                THEN [inbox EXCEPT ![t] = Append(@, [type |-> req[r].op, msg |-> reply[r]])]
                ELSE inbox
  /\ UNCHANGED <<serverVars, pc, req, reply, waiting, up, tabVars, fetchVars, drops, losses>>

-----------------------------------------------------------------------------
(* The answers                                                              *)

Receive(r) ==
  LET t == req[r].tab IN
  /\ r \in waiting /\ pc[r] = "writing" /\ todo[r] = {}
  /\ waiting' = waiting \ {r}
  /\ Show(t, Apply(cache[t], req[r].op, reply[r]))
  /\ UNCHANGED <<serverVars, pc, req, reply, todo, socketVars, fetchVars, drops, losses>>

(* invalidateQueries starts the fetch afresh; past the bound, none is made. *)
Ask(t) ==
  IF fetches < MaxFetches
    THEN /\ fetching' = [fetching EXCEPT ![t] = "asked"]
         /\ page' = [page EXCEPT ![t] = {}]
         /\ fetches' = fetches + 1
    ELSE UNCHANGED fetchVars

ReceiveRefusal(r) ==
  /\ r \in waiting /\ pc[r] = "refused"
  /\ waiting' = waiting \ {r}
  /\ IF req[r].op = "edit" THEN Ask(req[r].tab) ELSE UNCHANGED fetchVars
  /\ UNCHANGED <<serverVars, pc, req, reply, todo, socketVars, tabVars, drops, losses>>

(* The request or its answer is lost, or the server fails it (a query, the  *)
(* rate limiter): a request that was not carried out yet may still be.      *)
LoseAnswer(r) ==
  LET t == req[r].tab IN
  /\ r \in waiting
  /\ Lose
  /\ waiting' = waiting \ {r}
  /\ IF req[r].op = "create"
       THEN Show(t, MarkFailed(cache[t], req[r].msg.key))
       ELSE UNCHANGED tabVars
  /\ UNCHANGED <<serverVars, pc, req, reply, todo, socketVars, fetchVars, drops>>

-----------------------------------------------------------------------------
(* useMessages: the whole list, on mount, on focus and after a conflict     *)

Refetch(t) ==
  /\ fetching[t] = "no"
  /\ fetches < MaxFetches
  /\ Ask(t)
  /\ UNCHANGED <<serverVars, requestVars, socketVars, tabVars, drops, losses>>

List(t) ==
  /\ fetching[t] = "asked"
  /\ fetching' = [fetching EXCEPT ![t] = "answered"]
  /\ page' = [page EXCEPT ![t] = {rows[k] : k \in live}]
  /\ UNCHANGED <<serverVars, requestVars, socketVars, tabVars, fetches, drops, losses>>

(* An empty list is encoded as null, which messageListSchema rejects.       *)
LoadPage(t) ==
  /\ fetching[t] = "answered"
  /\ fetching' = [fetching EXCEPT ![t] = "no"]
  /\ page' = [page EXCEPT ![t] = {}]
  /\ IF page[t] = {} THEN UNCHANGED tabVars ELSE Show(t, {Sent(m) : m \in page[t]})
  /\ UNCHANGED <<serverVars, requestVars, socketVars, fetches, drops, losses>>

LosePage(t) ==
  /\ fetching[t] # "no"
  /\ Lose
  /\ fetching' = [fetching EXCEPT ![t] = "no"]
  /\ page' = [page EXCEPT ![t] = {}]
  /\ UNCHANGED <<serverVars, requestVars, socketVars, tabVars, fetches, drops>>

-----------------------------------------------------------------------------
(* The socket                                                               *)

Hear(t) ==
  /\ inbox[t] # <<>>
  /\ Show(t, Apply(cache[t], Head(inbox[t]).type, Head(inbox[t]).msg))
  /\ inbox' = [inbox EXCEPT ![t] = Tail(@)]
  /\ UNCHANGED <<serverVars, requestVars, up, fetchVars, drops, losses>>

Drop(t) ==
  /\ t \in up
  /\ drops < MaxDrops
  /\ drops' = drops + 1
  /\ up' = up \ {t}
  /\ inbox' = [inbox EXCEPT ![t] = <<>>]
  /\ UNCHANGED <<serverVars, requestVars, tabVars, fetchVars, losses>>

(* The tab is told it is back online; nothing is fetched.                   *)
Reconnect(t) ==
  /\ t \notin up
  /\ up' = up \cup {t}
  /\ UNCHANGED <<serverVars, requestVars, inbox, tabVars, fetchVars, drops, losses>>

-----------------------------------------------------------------------------
UserStep(t) ==
  \/ OpenEditor(t) \/ CancelEdit(t)
  \/ \E r \in Requests : Send(t, r) \/ Retry(t, r) \/ SaveEdit(t, r) \/ Delete(t, r)

Handle(r) == HandleCreate(r) \/ HandleUpdate(r) \/ HandleDelete(r) \/ Refuse(r)
Answer(r) == (\E t \in Tabs : Write(r, t)) \/ Receive(r) \/ ReceiveRefusal(r)
TabStep(t) == List(t) \/ LoadPage(t) \/ Hear(t)

Next ==
  \/ \E t \in Tabs : UserStep(t) \/ TabStep(t) \/ Refetch(t) \/ LosePage(t)
                       \/ Drop(t) \/ Reconnect(t)
  \/ \E r \in Requests : Handle(r) \/ Answer(r) \/ LoseAnswer(r)

Spec == Init /\ [][Next]_vars

(* Every request still waited for is served or lost; browsers run their     *)
(* event loops.  The user need not do anything.                             *)
Fairness ==
  /\ \A r \in Requests : WF_vars(r \in waiting /\ Handle(r)) /\ WF_vars(Answer(r))
  /\ \A t \in Tabs : WF_vars(TabStep(t))

FairSpec == Spec /\ Fairness

-----------------------------------------------------------------------------
(* Properties                                                               *)

Accepted(op) == {r \in Requests : pc[r] = "writing" /\ req[r].op = op}

(* Every copy of a stored message, wherever it is.                          *)
StoredCopies == {rows[k] : k \in {x \in Keys : rows[x].gen > 0}}
ReplyCopies == {reply[r] : r \in {x \in Requests : pc[x] = "writing"}}
SocketCopies == UNION {{inbox[t][i].msg : i \in 1..Len(inbox[t])} : t \in Tabs}
CacheCopies == UNION {{e.msg : e \in {x \in cache[t] : x.msg.gen > 0}} : t \in Tabs}
PageCopies == UNION {page[t] : t \in Tabs}
Copies == StoredCopies \cup ReplyCopies \cup SocketCopies \cup CacheCopies \cup PageCopies

(* Two copies of a message that carry the same version carry the same text, *)
(* whichever path brought them and whatever was edited, deleted or retried  *)
(* meanwhile: the version is enough to tell copies apart.                   *)
Agreement ==
  \A m, n \in Copies : Id(m) = Id(n) /\ m.version = n.version => m.text = n.text

(* Of two edits made over the same version of a message the server accepts  *)
(* at most one (service.Update).                                            *)
OneWinner ==
  \A r, q \in Accepted("edit") :
    Id(req[r].msg) = Id(req[q].msg) /\ req[r].msg.version = req[q].msg.version => r = q

(* The table implements the message log: a retried or delayed create never  *)
(* overwrites a message, and an edit follows the version it was made over.  *)
Log == INSTANCE MessageLog WITH Texts <- Requests \cup {Original}, row <- rows
ImplementsLog == Log!LogSpec

(* A message shown as being sent is being sent: the tab still waits for the *)
(* answer, so the spinner turns into a sent or a failed message.            *)
PendingHasRequest ==
  \A t \in Tabs : \A e \in cache[t] : e.status = "pending" =>
    \E r \in waiting : req[r].op = "create" /\ req[r].tab = t /\ req[r].msg.key = e.msg.key

(* ... and does so in the end.                                              *)
Sending(t, k) == \E e \in cache[t] : e.status = "pending" /\ e.msg.key = k
PendingResolves == \A t \in Tabs, k \in Keys : Sending(t, k) ~> ~Sending(t, k)

Quiet ==
  /\ \A r \in Requests : pc[r] # "sent" /\ todo[r] = {}
  /\ waiting = {}
  /\ \A t \in Tabs : inbox[t] = <<>> /\ fetching[t] = "no"

(* The message was sent here, and edited or deleted here: its answers and   *)
(* events may overtake each other.                                          *)
Overtaken(k) ==
  \E r, s \in Requests : req[r] # None /\ req[s] # None /\ req[r].msg.key = k
                        /\ req[s].msg.key = k /\ req[r].op = "create" /\ req[s].op # "create"

(* Clips whose deletion nobody was told of: a tab keeps one, to whoever it  *)
(* is shown, until it loads the list.                                       *)
Ghosts == {k \in Clips \ live : rows[k].gen > 0}

(* When nothing is under way and no answer was lost, every tab shows the    *)
(* stored messages, as they are stored, whatever order answers and events   *)
(* came in, and no others but clips that were deleted.                      *)
TabsConverge ==
  Quiet /\ losses = 0 /\ (\A k \in Keys : ~Overtaken(k)) =>
    \A t \in Tabs :
      /\ {Sent(rows[k]) : k \in live} \subseteq cache[t]
      /\ cache[t] \subseteq {Sent(rows[k]) : k \in live \cup Ghosts}

(* As long as no answer is lost, a tab never shows a message and, beside    *)
(* it, the placeholder it was sent from, whether the answer or the event    *)
(* comes first.                                                             *)
PlaceholderReconciled ==
  losses = 0 =>
    \A t \in Tabs : \A e, f \in cache[t] : e.msg.key = f.msg.key => e = f

(* A message that failed to send keeps a bubble, with its text, until it is *)
(* sent: only the load of a whole list takes it away.                       *)
FailedSendKept ==
  [][\A t \in Tabs : ~LoadPage(t) =>
       \A e \in cache[t] :
         e.status = "failed" => \E f \in cache'[t] : f.msg.key = e.msg.key]_vars
=============================================================================
