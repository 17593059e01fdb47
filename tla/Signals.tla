------------------------------ MODULE Signals ------------------------------
(* What the tabs of a conversation's members tell each other beside the     *)
(* messages: reactions, read receipts with the unread badges they clear,    *)
(* and who is typing; one tab per user, one emoji.  Messages.tla has the    *)
(* messages' own life: placeholders, retries, texts.                        *)
(*                                                                          *)
(* A job is something the server does for a tab: an HTTP request, each in   *)
(* a goroutine of its own, or an event from the socket, handled by the      *)
(* connection's goroutine in order.  It writes, asks who the members are    *)
(* and then tells them one by one.  A socket may fail, and is opened anew:  *)
(* what either side sends meanwhile is lost.                                *)
EXTENDS Naturals, FiniteSets

CONSTANTS
  Users,
  Founders,    \* the first members
  NoMessage,
  Scenes       \* how behaviours begin: whose tabs are open, how often each
               \* thing will be done

Spent == {"talk", "send", "edit", "delete", "react", "add", "look", "drop",
          "fail"}

ASSUME SignalsAssumption ==
  /\ Founders \subseteq Users /\ Founders # {}
  /\ Scenes \subseteq [open : SUBSET Founders, left : [Spent -> Nat]]
  /\ NoMessage \notin [at : Nat, from : Users]

VARIABLES
  members, rows, receipts,  \* the tables; a row has its reactions
  jobs, count,              \* under way; jobs begun and sockets opened so far,
                            \* which numbers them
  line,      \* the number of the tab's socket, or 0 while none is open
  look,      \* whether the tab has the conversation "open", "hidden" or is "away"
  cache,     \* the tab's copies of the messages
  fetching, page,           \* the query of the messages
  list, asking, answer,     \* unread_count in the list of conversations; its query
  marked,    \* useReadReceipts' lastMarkedRef
  lastRead,  \* readReceiptsStore: the last message each has read
  typing,    \* isTypingRef: typing.started sent, and the timeout of the stop armed
  shown, expiry,  \* typingStore: who is typing, and the timeouts
  left,      \* what is left of the scene
  behind,    \* history: tabs without a fetch, or that lost reactions or missed
             \* an event since their last
  dirty,     \* history: tabs changed since the fetch under way began to read
  raced,     \* history: users who toggled a reaction twice at once
  untold,    \* history: members not told of the conversation, or of a message,
             \* whose list of conversations was not read since
  unmarked,  \* history: message.read events that were lost, as receipts
  dropped,   \* history: <<w, u>> if u has missed a typing event of w
  expired    \* history: a typing indicator has timed out

tables == <<members, rows, receipts>>
queries == <<fetching, page, list, asking, answer>>
receiptTab == <<marked, lastRead>>
typingTab == <<typing, shown, expiry>>
losses == <<unmarked, dropped>>
views == <<behind, dirty, raced, untold, expired>>
history == <<views, losses>>
vars == <<tables, jobs, count, line, look, cache, queries, receiptTab, typingTab, left, history>>

(* Messages are ordered by created_at, here by the number of their job.     *)
First == [at |-> 0, from |-> CHOOSE u \in Founders : TRUE]
Row(m) == [m |-> m, version |-> 1, reacted |-> {}]

(* Rows of others' messages for which the user has no receipt.              *)
Unread(u) ==
  Cardinality({r \in rows : r.m.from # u /\ <<r.m, u>> \notin receipts})

(* One message there is; the tabs that are open have read it.               *)
Begins(scene) ==
  LET readers == scene.open \ {First.from}
      seen(u) == IF u \in readers THEN First ELSE NoMessage
  IN /\ left = scene.left
     /\ look = [u \in Users |-> IF u \in scene.open THEN "open" ELSE "away"]
     /\ receipts = {First} \X readers
     /\ marked = [u \in Users |-> seen(u)]
     /\ lastRead = [u \in Users |-> [w \in Users |->
          IF u \in Founders \ {w} THEN seen(w) ELSE NoMessage]]

Init ==
  /\ \E scene \in Scenes : Begins(scene)
  /\ members = Founders /\ rows = {Row(First)}
  /\ jobs = {} /\ count = 1 /\ line = [u \in Users |-> 1]
  /\ cache = [u \in Users |-> IF u \in Founders THEN rows ELSE {}]
  /\ fetching = [u \in Users |-> "no"] /\ page = [u \in Users |-> {}]
  /\ list = [u \in Users |-> IF u \in Founders THEN Unread(u) ELSE 0]
  /\ asking = [u \in Users |-> "no"] /\ answer = [u \in Users |-> 0]
  /\ typing = [u \in Users |-> FALSE]
  /\ shown = [u \in Users |-> {}] /\ expiry = [u \in Users |-> {}]
  /\ behind = Users \ Founders /\ dirty = {} /\ raced = {} /\ untold = {}
  /\ unmarked = {} /\ dropped = {} /\ expired = FALSE

Spend(what) == left[what] > 0 /\ left' = [left EXCEPT ![what] = @ - 1]

-----------------------------------------------------------------------------
(* The tab: clicks, keys, timers and effects                                *)

Typing == {"start", "stop"}
OnSocket == Typing \cup {"read"}

Job(n, op, u, arg, version) ==
  [n |-> n, op |-> op, by |-> u, arg |-> arg, version |-> version, line |-> line[u],
   stage |-> "asked", todo |-> {}]

Begin(op, u, arg, version) ==
  /\ jobs' = jobs \cup {Job(count + 1, op, u, arg, version)}
  /\ count' = count + 1

(* The users who miss the typing event of w.                                *)
Mute(op, w, users) ==
  dropped' = IF op \in Typing THEN dropped \cup ({w} \X users) ELSE dropped

Forget(op, u, arg) ==
  /\ unmarked' = IF op = "read" THEN unmarked \cup {<<arg, u>>} ELSE unmarked
  /\ Mute(op, u, Users)

(* RealtimeSocket.send: nothing is sent, nor kept for later, while the      *)
(* socket is not open.                                                      *)
Emit(op, u, arg) ==
  IF line[u] # 0
    THEN Begin(op, u, arg, 0) /\ UNCHANGED losses
    ELSE Forget(op, u, arg) /\ UNCHANGED <<jobs, count>>

(* setQueryData under a fetch that has begun to read.                       *)
Touch(u) == dirty' = IF fetching[u] \in {"listed", "loaded"} THEN dirty \cup {u} ELSE dirty

(* useSendMessage, from the composer, which also calls stopTyping.          *)
Send(u) ==
  /\ Spend("send")
  /\ look[u] = "open"
  /\ typing' = [typing EXCEPT ![u] = FALSE]
  /\ LET m == [at |-> count + 1, from |-> u]
         stops == IF typing[u] /\ line[u] # 0
                    THEN {Job(count + 2, "stop", u, NoMessage, 0)} ELSE {}
     IN /\ jobs' = jobs \cup {Job(count + 1, "create", u, m, 1)} \cup stops
        /\ count' = count + 1 + Cardinality(stops)
  /\ IF typing[u] /\ line[u] = 0 THEN Forget("stop", u, NoMessage) ELSE UNCHANGED losses
  /\ UNCHANGED <<tables, line, look, cache, queries, receiptTab, shown, expiry, views>>

(* useEditMessage, with the version the tab shows.                          *)
Edit(u) ==
  /\ Spend("edit")
  /\ look[u] = "open"
  /\ \E c \in cache[u] : c.m.from = u /\ Begin("edit", u, c.m, c.version)
  /\ UNCHANGED <<tables, line, look, cache, queries, receiptTab, typingTab, history>>

Delete(u) ==
  /\ Spend("delete")
  /\ look[u] = "open"
  /\ \E c \in cache[u] : c.m.from = u /\ Begin("delete", u, c.m, 0)
  /\ UNCHANGED <<tables, line, look, cache, queries, receiptTab, typingTab, history>>

Set(copies, m, users) ==
  {IF c.m = m THEN [c EXCEPT !.reacted = users] ELSE c : c \in copies}

(* The bar under a message shows a reaction as the user's own or not, and a *)
(* click asks for the opposite.                                             *)
Reacted(u, c) == u \in c.reacted

(* useToggleReaction: the tab shows the change before it asks for it.       *)
Toggle(u) ==
  /\ Spend("react")
  /\ look[u] = "open"
  /\ \E c \in cache[u] :
       LET on == Reacted(u, c) IN
       /\ cache' = [cache EXCEPT ![u] =
            Set(@, c.m, IF on THEN c.reacted \ {u} ELSE c.reacted \cup {u})]
       /\ Begin(IF on THEN "unreact" ELSE "react", u, c.m, 0)
       /\ raced' = IF \E j \in jobs : j.by = u /\ j.op \in {"react", "unreact"} /\ j.arg = c.m
                     THEN raced \cup {u} ELSE raced
  /\ Touch(u)
  /\ UNCHANGED <<tables, line, look, queries, receiptTab, typingTab, behind, untold, losses,
                 expired>>

(* useStartConversation adds each member with a request.                    *)
Invite(u, w) ==
  /\ Spend("add")
  /\ u \in members
  /\ Begin("add", u, w, 0)
  /\ UNCHANGED <<tables, line, look, cache, queries, receiptTab, typingTab, history>>

(* notifyTyping: the first key of a while says so, each restarts the        *)
(* timeout.                                                                 *)
Type(u) ==
  /\ Spend("talk")
  /\ look[u] = "open"
  /\ typing' = [typing EXCEPT ![u] = TRUE]
  /\ IF typing[u] THEN UNCHANGED <<jobs, count, losses>> ELSE Emit("start", u, NoMessage)
  /\ UNCHANGED <<tables, line, look, cache, queries, receiptTab, shown, expiry, views>>

(* stopTyping, by its timeout or because the text was cleared.              *)
StopTyping(u) ==
  /\ typing[u]
  /\ typing' = [typing EXCEPT ![u] = FALSE]
  /\ Emit("stop", u, NoMessage)
  /\ UNCHANGED <<tables, line, look, cache, queries, receiptTab, shown, expiry, left, views>>

(* Faulty: a query at work is left to finish.                               *)
InvalidateIdle(u) == asking' = [asking EXCEPT ![u] = IF @ = "no" THEN "asked" ELSE @]

(* A query that is mounted, or whose window gets the focus, fetches unless  *)
(* it is at it; one that is invalidated starts afresh.                      *)
Fetch(u) == fetching' = [fetching EXCEPT ![u] = IF @ = "no" THEN "asked" ELSE @]
Refetch(u) == fetching' = [fetching EXCEPT ![u] = IF look[u] = "away" THEN @ ELSE "asked"]
InvalidateList(u) == asking' = [asking EXCEPT ![u] = "asked"]

(* The conversation is opened.                                              *)
Open(u) ==
  /\ Spend("look")
  /\ u \in members /\ look[u] = "away"
  /\ look' = [look EXCEPT ![u] = "open"]
  /\ marked' = [marked EXCEPT ![u] = NoMessage]
  /\ Fetch(u)
  /\ UNCHANGED <<tables, jobs, count, line, cache, page, list, asking, answer, lastRead,
                 typingTab, history>>

(* Faulty: no clean-up of the composer.                                     *)
CloseTyping(u) ==
  /\ Spend("look")
  /\ look[u] # "away"
  /\ look' = [look EXCEPT ![u] = "away"]
  /\ typing' = [typing EXCEPT ![u] = FALSE]
  /\ UNCHANGED <<tables, jobs, count, line, cache, queries, receiptTab, shown, expiry, history>>

(* Another conversation or page: the composer's clean-up stops typing.      *)
Close(u) ==
  /\ Spend("look")
  /\ look[u] # "away"
  /\ look' = [look EXCEPT ![u] = "away"]
  /\ typing' = [typing EXCEPT ![u] = FALSE]
  /\ IF typing[u] THEN Emit("stop", u, NoMessage) ELSE UNCHANGED <<jobs, count, losses>>
  /\ UNCHANGED <<tables, line, cache, queries, receiptTab, shown, expiry, views>>

(* Another browser tab, and back.                                           *)
Hide(u) ==
  /\ Spend("look")
  /\ look[u] = "open"
  /\ look' = [look EXCEPT ![u] = "hidden"]
  /\ UNCHANGED <<tables, jobs, count, line, cache, queries, receiptTab, typingTab, history>>

Return(u) ==
  /\ look[u] = "hidden"
  /\ look' = [look EXCEPT ![u] = "open"]
  /\ Fetch(u)
  /\ asking' = [asking EXCEPT ![u] = IF @ = "no" THEN "asked" ELSE @]
  /\ UNCHANGED <<tables, jobs, count, line, cache, page, list, answer, receiptTab, typingTab,
                 left, history>>

Incoming(u) == {c.m : c \in {d \in cache[u] : d.m.from # u}}
Latest(u) == CHOOSE m \in Incoming(u) : \A k \in Incoming(u) : k.at <= m.at

(* Faulty: the first message of the page is sent, as if it were the latest. *)
MarkFirst(u) ==
  /\ look[u] = "open"
  /\ Incoming(u) # {} /\ Latest(u) # marked[u]
  /\ marked' = [marked EXCEPT ![u] = Latest(u)]
  /\ Emit("read", u, CHOOSE m \in Incoming(u) : \A k \in Incoming(u) : m.at <= k.at)
  /\ UNCHANGED <<tables, line, look, cache, queries, lastRead, typingTab, left, views>>

(* useReadReceipts' effect: after a rendering, which may show several       *)
(* messages at once, only the latest one is marked; the tab takes it for    *)
(* marked whether the event is sent or not.                                 *)
MarkLatest(u) ==
  /\ look[u] = "open"
  /\ Incoming(u) # {} /\ Latest(u) # marked[u]
  /\ marked' = [marked EXCEPT ![u] = Latest(u)]
  /\ Emit("read", u, Latest(u))
  /\ UNCHANGED <<tables, line, look, cache, queries, lastRead, typingTab, left, views>>

(* typingStore's timeout.                                                   *)
Expire(u, w) ==
  /\ w \in expiry[u]
  /\ expiry' = [expiry EXCEPT ![u] = @ \ {w}]
  /\ shown' = [shown EXCEPT ![u] = @ \ {w}]
  /\ expired' = TRUE
  /\ UNCHANGED <<tables, jobs, count, line, look, cache, queries, receiptTab, typing,
                 left, behind, dirty, raced, untold, losses>>

(* The socket fails: of the events on their way to the server the last are  *)
(* lost.  Those of the next socket are handled beside what is left of these.*)
Drop(u) ==
  /\ Spend("drop")
  /\ line[u] # 0
  /\ line' = [line EXCEPT ![u] = 0]
  /\ \E n \in 0 .. count :
       LET gone == {j \in jobs : /\ j.op \in OnSocket /\ j.by = u /\ j.line = line[u]
                                 /\ j.stage = "asked" /\ j.n > n}
       IN /\ jobs' = jobs \ gone
          /\ unmarked' = unmarked \cup {<<j.arg, u>> : j \in {g \in gone : g.op = "read"}}
  /\ dropped' = IF \E j \in jobs : j.op \in Typing /\ j.by = u
                  THEN dropped \cup ({u} \X Users) ELSE dropped
  /\ UNCHANGED <<tables, count, look, cache, queries, receiptTab, typingTab, views>>

(* connect(), or the timeout of the attempt before: nothing is fetched.     *)
Reconnect(u) ==
  /\ line[u] = 0
  /\ line' = [line EXCEPT ![u] = count + 1]
  /\ count' = count + 1
  /\ UNCHANGED <<tables, jobs, look, cache, queries, receiptTab, typingTab, left, history>>

-----------------------------------------------------------------------------
(* What a tab does with an event, or with the answer to its own request     *)

(* messageCache.ts: a message that is created or updated comes without      *)
(* reactions.                                                               *)
Applied(copies, j) ==
  CASE j.op = "create"  -> {c \in copies : c.m # j.arg} \cup {Row(j.arg)}
    [] j.op = "edit"    -> {IF c.m = j.arg /\ j.version >= c.version
                              THEN [Row(c.m) EXCEPT !.version = j.version] ELSE c : c \in copies}
    [] j.op = "delete"  -> {c \in copies : c.m # j.arg}
    [] j.op = "react"   -> {IF c.m = j.arg THEN [c EXCEPT !.reacted = @ \cup {j.by}] ELSE c : c \in copies}
    [] j.op = "unreact" -> {IF c.m = j.arg THEN [c EXCEPT !.reacted = @ \ {j.by}] ELSE c : c \in copies}
    [] OTHER            -> copies

(* Whether that loses reactions, or shows a message deleted already.        *)
Loses(copies, j) ==
  \/ /\ j.op \in {"create", "edit"}
     /\ \E c \in copies : c.m = j.arg /\ c.reacted # {} /\ c \notin Applied(copies, j)
  \/ j.op = "create" /\ \A r \in rows : r.m # j.arg
  \/ j.op \in {"react", "unreact"} /\ \A c \in copies : c.m # j.arg

TakeIn(u, j) ==
  /\ cache' = [cache EXCEPT ![u] = Applied(@, j)]
  /\ behind' = IF Loses(cache[u], j) THEN behind \cup {u} ELSE behind
  /\ Touch(u)

(* Faulty: the timeout of an indicator is not armed.                        *)
HearUnarmed(u, j) ==
  /\ TakeIn(u, j)
  /\ lastRead' = IF j.op = "read" THEN [lastRead EXCEPT ![u][j.by] = j.arg] ELSE lastRead
  /\ shown' = [shown EXCEPT ![u] = IF j.op = "start" THEN @ \cup {j.by}
                                   ELSE IF j.op = "stop" THEN @ \ {j.by} ELSE @]
  /\ IF j.op \in {"create", "delete", "read"} THEN InvalidateList(u) ELSE UNCHANGED asking
  /\ UNCHANGED expiry

(* typingStore: either event takes back the timeout of the last, and        *)
(* typing.started arms its own.                                             *)
SetTyping(u, j) ==
  LET Apply(users) == IF j.op = "start" THEN users \cup {j.by}
                      ELSE IF j.op = "stop" THEN users \ {j.by} ELSE users
  IN /\ shown' = [shown EXCEPT ![u] = Apply(@)]
     /\ expiry' = [expiry EXCEPT ![u] = Apply(@)]

(* useRealtime's handleEvent.                                               *)
Hear(u, j) ==
  /\ TakeIn(u, j)
  /\ lastRead' = IF j.op = "read" THEN [lastRead EXCEPT ![u][j.by] = j.arg] ELSE lastRead
  /\ SetTyping(u, j)
  /\ IF j.op \in {"create", "delete", "read"} THEN InvalidateList(u) ELSE UNCHANGED asking

-----------------------------------------------------------------------------
(* The server                                                               *)

RowOf(m) == {r \in rows : r.m = m}

Allowed(j) ==
  CASE j.op = "edit" -> \E r \in RowOf(j.arg) : r.version = j.version
    [] j.op \in {"delete", "react", "unreact", "read"} -> RowOf(j.arg) # {}
    [] OTHER -> TRUE

(* The statement that changes a table; a deleted message takes its          *)
(* reactions and receipts with it, a receipt there is stays as it is.       *)
Written(j) ==
  /\ rows' = (rows \ RowOf(j.arg)) \cup
       CASE j.op = "create"  -> {Row(j.arg)}
         [] j.op = "edit"    -> {[r EXCEPT !.version = @ + 1] : r \in RowOf(j.arg)}
         [] j.op = "delete"  -> {}
         [] j.op = "react"   -> {[r EXCEPT !.reacted = @ \cup {j.by}] : r \in RowOf(j.arg)}
         [] j.op = "unreact" -> {[r EXCEPT !.reacted = @ \ {j.by}] : r \in RowOf(j.arg)}
         [] OTHER            -> RowOf(j.arg)
  /\ receipts' =
       CASE j.op = "delete" -> {p \in receipts : p[1] # j.arg}
         [] j.op = "read"   -> receipts \cup {<<j.arg, j.by>>}
         [] OTHER           -> receipts
  /\ members' = IF j.op = "add" THEN members \cup {j.arg} ELSE members
  /\ untold' = IF j.op = "add" THEN untold \cup ({j.arg} \ members) ELSE untold

(* Faulty: a reaction that failed stays as it is shown.                     *)
OnErrorOfEdits(j, error) ==
  IF j.op = "edit" /\ error = "conflict" THEN Refetch(j.by) ELSE UNCHANGED fetching

(* onError: an edit that is in conflict, and a reaction that failed for     *)
(* whatever reason, fetch the messages again.                               *)
OnError(j, error) ==
  IF j.op \in {"react", "unreact"} \/ (j.op = "edit" /\ error = "conflict")
    THEN Refetch(j.by) ELSE UNCHANGED fetching

Change(j, k) == jobs' = (jobs \ {j}) \cup {k}

(* An event of a socket waits for those before it.                          *)
Turn(j) ==
  j.op \in OnSocket =>
    \A k \in jobs : k.op \in OnSocket /\ k.by = j.by /\ k.line = j.line => k.n >= j.n

(* A deletion of what is gone already is answered like one that works.      *)
Carry(j) ==
  /\ j.stage = "asked" /\ Turn(j)
  /\ IF Allowed(j)
       THEN /\ Written(j)
            /\ Change(j, [j EXCEPT !.stage = "written",
                                   !.version = IF j.op = "edit" THEN @ + 1 ELSE @])
            /\ UNCHANGED <<fetching>>
       ELSE /\ jobs' = jobs \ {j}
            /\ OnError(j, "conflict")
            /\ UNCHANGED <<tables, untold>>
  /\ UNCHANGED <<count, line, look, cache, page, list, asking, answer, receiptTab, typingTab,
                 left, behind, dirty, raced, losses, expired>>

(* ListMemberIDs; what comes from a socket is not echoed to its sender.     *)
Address(j) ==
  /\ j.stage = "written"
  /\ Change(j, [j EXCEPT !.stage = "telling",
                         !.todo = IF j.op = "add" THEN {}
                                  ELSE IF j.op \in OnSocket THEN members \ {j.by} ELSE members])
  /\ UNCHANGED <<tables, count, line, look, cache, queries, receiptTab, typingTab, left, history>>

(* Tabs that do not hear of a change, whatever they are fetching.           *)
Miss(j, users) ==
  /\ IF j.op \in {"create", "delete", "react", "unreact"}
       THEN /\ behind' = behind \cup users
            /\ dirty' = dirty \cup {u \in users : fetching[u] \in {"listed", "loaded"}}
       ELSE UNCHANGED <<behind, dirty>>
  /\ untold' = IF j.op = "create" THEN untold \cup users ELSE untold
  /\ Mute(j.op, j.by, users)

(* ... or, when the query fails, nobody is told, and the request is         *)
(* answered all the same.                                                   *)
TellNobody(j) ==
  /\ Spend("fail")
  /\ j.stage = "written" /\ j.op # "add"
  /\ Change(j, [j EXCEPT !.stage = "telling"])
  /\ Miss(j, Users)
  /\ UNCHANGED <<tables, count, line, look, cache, queries, receiptTab, typingTab, raced,
                 unmarked, expired>>

(* What is written to a user without a socket is lost.                      *)
Tell(j, u) ==
  /\ u \in j.todo
  /\ Change(j, [j EXCEPT !.todo = @ \ {u}])
  /\ IF line[u] # 0
       THEN Hear(u, j) /\ UNCHANGED <<untold, dropped>>
       ELSE Miss(j, {u}) /\ UNCHANGED <<cache, asking, lastRead, shown, expiry>>
  /\ UNCHANGED <<tables, count, line, look, fetching, page, list, answer, marked, typing, left,
                 raced, unmarked, expired>>

(* The last is told; a request is answered, and its onSuccess runs.         *)
Finish(j) ==
  /\ j.stage = "telling" /\ j.todo = {}
  /\ jobs' = jobs \ {j}
  /\ IF j.op \in {"create", "edit", "delete"}
       THEN TakeIn(j.by, j)
       ELSE UNCHANGED <<cache, behind, dirty>>
  /\ IF j.op = "add" THEN InvalidateList(j.by) ELSE UNCHANGED asking
  /\ UNCHANGED <<tables, count, line, look, fetching, page, list, answer, receiptTab, typingTab,
                 left, raced, untold, losses, expired>>

(* A request fails before it is carried out, or its client gives up on it,  *)
(* which cancels the context of what the server has still to do: the rest   *)
(* is not told; the reaction a tab shows already stays, if it has left the  *)
(* conversation and fetches nothing.  So ends the deletion of every voice   *)
(* message, picture and video: see Messages.                                *)
Fail(j) ==
  /\ Spend("fail")
  /\ j.op \notin OnSocket
  /\ jobs' = jobs \ {j}
  /\ OnError(j, "failure")
  /\ Miss(j, {u \in Users : \/ j.stage = "written" \/ u \in j.todo
                            \/ /\ j.op \in {"react", "unreact"} /\ u = j.by
                               /\ look[u] = "away"})
  /\ UNCHANGED <<tables, count, line, look, cache, page, list, asking, answer, receiptTab,
                 typingTab, raced, unmarked, expired>>

(* The query that an event of a socket needs fails, and the event goes.     *)
GiveUp(j) ==
  /\ Spend("fail")
  /\ j.op \in OnSocket /\ j.stage = "asked" /\ Turn(j)
  /\ jobs' = jobs \ {j}
  /\ Forget(j.op, j.by, j.arg)
  /\ UNCHANGED <<tables, count, line, look, cache, queries, receiptTab, typingTab, views>>

(* messages.Service.List reads the messages, attachReactions then theirs.   *)
ListMessages(u) ==
  /\ fetching[u] = "asked"
  /\ fetching' = [fetching EXCEPT ![u] = "listed"]
  /\ page' = [page EXCEPT ![u] = {[r EXCEPT !.reacted = {}] : r \in rows}]
  /\ dirty' = dirty \ {u}
  /\ UNCHANGED <<tables, jobs, count, line, look, cache, list, asking, answer, receiptTab,
                 typingTab, left, behind, raced, untold, losses, expired>>

AttachReactions(u) ==
  /\ fetching[u] = "listed"
  /\ fetching' = [fetching EXCEPT ![u] = "loaded"]
  /\ page' = [page EXCEPT ![u] =
       {[c EXCEPT !.reacted = UNION {r.reacted : r \in RowOf(c.m)}] : c \in @}]
  /\ UNCHANGED <<tables, jobs, count, line, look, cache, list, asking, answer, receiptTab,
                 typingTab, left, history>>

ShowMessages(u) ==
  /\ fetching[u] = "loaded"
  /\ fetching' = [fetching EXCEPT ![u] = "no"]
  /\ cache' = [cache EXCEPT ![u] = page[u]]
  /\ page' = [page EXCEPT ![u] = {}]
  /\ behind' = IF u \in dirty THEN behind \cup {u} ELSE behind \ {u}
  /\ dirty' = dirty \ {u}
  /\ UNCHANGED <<tables, jobs, count, line, look, list, asking, answer, receiptTab, typingTab,
                 left, raced, untold, losses, expired>>

(* conversations.Service.ListForUser, with the unread messages of each.     *)
ListConversations(u) ==
  /\ asking[u] = "asked"
  /\ asking' = [asking EXCEPT ![u] = "answered"]
  /\ answer' = [answer EXCEPT ![u] = IF u \in members THEN Unread(u) ELSE 0]
  /\ untold' = untold \ {u}
  /\ UNCHANGED <<tables, jobs, count, line, look, cache, fetching, page, list, receiptTab,
                 typingTab, left, behind, dirty, raced, losses, expired>>

ShowList(u) ==
  /\ asking[u] = "answered"
  /\ asking' = [asking EXCEPT ![u] = "no"]
  /\ list' = [list EXCEPT ![u] = answer[u]]
  /\ UNCHANGED <<tables, jobs, count, line, look, cache, fetching, page, answer, receiptTab,
                 typingTab, left, history>>

-----------------------------------------------------------------------------
UserStep(u) ==
  \/ Send(u) \/ Edit(u) \/ Delete(u) \/ Toggle(u) \/ Type(u)
  \/ \E w \in Users : Invite(u, w)
  \/ Open(u) \/ Close(u) \/ Hide(u) \/ Return(u)

TabStep(u) ==
  \/ StopTyping(u) \/ MarkLatest(u)
  \/ \E w \in Users : Expire(u, w)
  \/ Drop(u) \/ Reconnect(u)
  \/ ShowMessages(u) \/ ShowList(u)

ServerStep ==
  \/ \E j \in jobs : \/ Carry(j) \/ Address(j) \/ TellNobody(j) \/ Finish(j)
                     \/ Fail(j) \/ GiveUp(j)
                     \/ \E u \in Users : Tell(j, u)
  \/ \E u \in Users : \/ ListMessages(u) \/ AttachReactions(u)
                      \/ ListConversations(u)

Next == ServerStep \/ \E u \in Users : UserStep(u) \/ TabStep(u)

Spec == Init /\ [][Next]_vars

(* A timeout that is armed expires, if nothing disarms it.                  *)
FairSpec ==
  /\ Spec
  /\ \A u, w \in Founders : WF_vars(Expire(u, w))

-----------------------------------------------------------------------------
(* Properties                                                               *)

Message == [at : Nat, from : Users]
Copy == [m : Message, version : Nat, reacted : SUBSET Users]
Quiet == jobs = {} /\ \A u \in Users : fetching[u] = "no" /\ asking[u] = "no"

(* Every variable keeps its type; jobs and sockets are numbered by count,   *)
(* and only a job that is past its write has anybody to tell.               *)
TypeOK ==
  /\ members \subseteq Users
  /\ rows \subseteq Copy /\ receipts \subseteq Message \X Users
  /\ count \in Nat
  /\ \A j \in jobs :
       /\ j.n \in 1 .. count /\ j.by \in Users /\ j.version \in Nat /\ j.line \in 0 .. count
       /\ j.arg \in Message \cup Users \cup {NoMessage}
       /\ j.stage \in {"asked", "written", "telling"}
       /\ j.todo \subseteq Users /\ (j.todo # {} => j.stage = "telling")
  /\ line \in [Users -> 0 .. count]
  /\ look \in [Users -> {"open", "hidden", "away"}]
  /\ \A u \in Users : cache[u] \subseteq Copy /\ page[u] \subseteq Copy
  /\ fetching \in [Users -> {"no", "asked", "listed", "loaded"}]
  /\ list \in [Users -> Nat] /\ answer \in [Users -> Nat]
  /\ asking \in [Users -> {"no", "asked", "answered"}]
  /\ marked \in [Users -> Message \cup {NoMessage}]
  /\ lastRead \in [Users -> [Users -> Message \cup {NoMessage}]]
  /\ typing \in [Users -> BOOLEAN]
  /\ shown \in [Users -> SUBSET Users] /\ expiry \in [Users -> SUBSET Users]
  /\ left \in [Spent -> Nat]

(* When nothing is under way, a tab shows the reactions that are stored,    *)
(* but for a tab that an edit, an overlapping fetch, a failed request or a  *)
(* missed event left behind, or a member who was added and has yet to       *)
(* fetch, and for a user who toggled twice at once.                         *)
ReactionsAgree ==
  Quiet => \A u \in Users \ behind : \A c \in cache[u] : \E r \in rows :
             r.m = c.m /\ r.reacted \ raced = c.reacted \ raced

(* What a tab has marked as read, the server knows to be read once it has   *)
(* handled all of it, unless that very event was lost: marked while the     *)
(* socket was not open, on its way when the socket failed, or given up on   *)
(* by the server.  Badges depend on it.                                     *)
MarkedHasReceipt ==
  \A u \in Users :
    /\ RowOf(marked[u]) # {} /\ <<marked[u], u>> \notin unmarked
    /\ \A j \in jobs : j.by # u \/ j.op # "read"
    => <<marked[u], u>> \in receipts

(* Nor is anybody shown to have read a message without a receipt for it.    *)
ShownReadIsRead ==
  \A u, w \in Users :
    RowOf(lastRead[u][w]) # {} => <<lastRead[u][w], w>> \in receipts

(* The receipts hold what the tabs of readers and of writers believe.       *)
ReceiptsAgree == MarkedHasReceipt /\ ShownReadIsRead

(* When nothing is under way, the badge of a member counts no less than     *)
(* what is unread, unless the member was not told of the conversation or of *)
(* a message, and has not fetched the list of conversations since.          *)
BadgeNeverLow ==
  Quiet => \A u \in members \ untold : list[u] >= Unread(u)

(* When nothing is under way, a founder is shown typing exactly to the      *)
(* others to whom the founder is: an indicator that timed out while the     *)
(* user still typed aside, and the users who missed a typing event, lost on *)
(* its way to the server, by the server or on its way to them.              *)
TypingAgrees ==
  jobs = {} => \A u, w \in Founders : u # w /\ <<w, u>> \notin dropped =>
    /\ w \in shown[u] => typing[w]
    /\ typing[w] /\ ~expired => w \in shown[u]

(* typingStore.ts: an indicator goes "in case typing.stopped never          *)
(* arrives".                                                                *)
TypingEnds == \A u, w \in Founders : w \in shown[u] ~> w \notin shown[u]
=============================================================================
