------------------------------- MODULE Calls -------------------------------
(***************************************************************************)
(* Voice calls on the server: the CallRegistry of internal/realtime/       *)
(* calls.go, the handlers that change it (handler.go) and the "who is in   *)
(* the voice channel" store of the browser tabs (voiceChannelStore.ts).    *)
(*                                                                         *)
(* A handler checks membership, changes the registry under its lock,       *)
(* releases it, reads the recipients from the database and only then       *)
(* writes the event: the order in which two goroutines change the registry *)
(* is not the order in which a tab hears of it.                            *)
(***************************************************************************)
EXTENDS Hub, Naturals

CONSTANTS
  Convs,        \* conversation ids
  Direct,       \* the direct conversations: the ones that ring
  Tabs, TabOf,  \* browser tabs and the tab of each connection
  Opened,       \* the connections already open when the model starts
  Founders,     \* the members each conversation starts with
  MaxRequests,  \* bound: call.join and call.leave events received
  MaxFaults     \* bound: failed database queries

ASSUME CallConstants ==
  /\ Convs # {} /\ Direct \subseteq Convs
  /\ TabOf \in [Conns -> Tabs]
  /\ Opened \subseteq Conns
  /\ Founders \in [Convs -> SUBSET Users]
  /\ MaxRequests \in Nat /\ MaxFaults \in Nat
ASSUME NoNotifiers == Notifiers = {}

VARIABLES
  pc,         \* where each goroutine is
  up,         \* the connections whose client end is open
  stored,     \* CallRegistry: the conversations that have an entry
  calls,      \* CallRegistry: the participants of each entry
  members,    \* conversation_members
  join,       \* the call.join each goroutine is handling
  left,       \* the departures each goroutine has still to announce
  voice,      \* voiceChannelStore.participantsByConversation of each tab
  rung,       \* the conversations each tab was rung for (call.created)
  at,         \* callManager.conversationId of each tab: its last call, or none
  requests, faults

tabVars == <<voice, rung, at>>
callVars == <<pc, up, stored, calls, members, join, left, tabVars, requests, faults>>
vars == <<clients, sending, callVars>>

(* A goroutine is present until its LeaveAll has run.                       *)
Present == {"reading", "joining", "joined", "ringing", "announcing", "leaving", "leaveAll"}
Labels == {"new", "closing", "done"} \cup Present

Departure == [conv: Convs, who: Users, participants: SUBSET Users, ended: BOOLEAN]
Joining == [conv: Convs, participants: SUBSET Users, started: BOOLEAN, recipients: SUBSET Users]
Event == [type: {"created", "joined", "left", "ended"}, conv: Convs, participants: SUBSET Users]
NoEvent == [type |-> "ended", conv |-> CHOOSE v \in Convs : TRUE, participants |-> {}]
NoJoin == [conv |-> CHOOSE v \in Convs : TRUE, participants |-> {},
           started |-> FALSE, recipients |-> {}]

TypeOK ==
  /\ HubTypeOK(Event)
  /\ pc \in [Conns -> Labels]
  /\ up \in SUBSET Conns
  /\ stored \in SUBSET Convs
  /\ calls \in [Convs -> SUBSET Users]
  /\ members \in [Convs -> SUBSET Users]
  /\ join \in [Conns -> Joining]
  /\ left \in [Conns -> SUBSET Departure]
  /\ voice \in [Tabs -> [Convs -> SUBSET Users]]
  /\ rung \in [Tabs -> SUBSET Convs]
  /\ at \in [Tabs -> {{}} \cup {{v} : v \in Convs}]
  /\ requests \in 0..MaxRequests
  /\ faults \in 0..MaxFaults

Init ==
  /\ clients = [u \in Users |-> {c \in Opened : UserOf[c] = u}]
  /\ sending = [g \in Goroutines |-> [event |-> NoEvent, users |-> {}, conns |-> {}]]
  /\ pc = [c \in Conns |-> IF c \in Opened THEN "reading" ELSE "new"]
  /\ up = Opened
  /\ stored = {}
  /\ calls = [v \in Convs |-> {}]
  /\ members = Founders
  /\ join = [c \in Conns |-> NoJoin]
  /\ left = [c \in Conns |-> {}]
  /\ voice = [t \in Tabs |-> [v \in Convs |-> {}]]
  /\ rung = [t \in Tabs |-> {}]
  /\ at = [t \in Tabs |-> {}]
  /\ requests = 0
  /\ faults = 0

Goto(c, label) == pc' = [pc EXCEPT ![c] = label]
Request == requests < MaxRequests /\ requests' = requests + 1
Fault == faults < MaxFaults /\ faults' = faults + 1

-----------------------------------------------------------------------------
(* call.join                                                                *)

(* A tab starts or accepts a call.  The page offers that only to a tab in no*)
(* call, but start() waits for the microphone before it says so, and may be *)
(* called again meanwhile: a tab can join twice, or two calls, and knows of *)
(* the last.  The membership check drops the request of a non-member.       *)
ReceiveJoin(c) ==
  /\ pc[c] = "reading" /\ c \in up
  /\ Request
  /\ \E v \in Convs :
       /\ UserOf[c] \in members[v]
       /\ join' = [join EXCEPT ![c].conv = v]
       /\ at' = [at EXCEPT ![TabOf[c]] = {v}]
  /\ Goto(c, "joining")
  /\ UNCHANGED <<hubVars, up, stored, calls, members, left, voice, rung, faults>>

(* CallRegistry.Join.                                                       *)
Join(c) ==
  LET v == join[c].conv
      participants == calls[v] \cup {UserOf[c]}
  IN
  /\ pc[c] = "joining"
  /\ stored' = stored \cup {v}
  /\ calls' = [calls EXCEPT ![v] = participants]
  /\ join' = [join EXCEPT ![c] = [conv |-> v, participants |-> participants,
                                  started |-> v \notin stored \/ calls[v] = {},
                                  recipients |-> {}]]
  /\ Goto(c, "joined")
  /\ UNCHANGED <<hubVars, up, members, left, tabVars, requests, faults>>

JoinedEvent(c) ==
  [type |-> "joined", conv |-> join[c].conv, participants |-> join[c].participants]

(* The recipients are read; the join that started a direct call rings first.*)
Ring(c) ==
  LET v == join[c].conv IN
  /\ pc[c] = "joined"
  /\ join[c].started /\ v \in Direct
  /\ join' = [join EXCEPT ![c].recipients = members[v]]
  /\ StartBroadcast(c, [type |-> "created", conv |-> v, participants |-> {}],
                    members[v] \ {UserOf[c]})
  /\ Goto(c, "ringing")
  /\ UNCHANGED <<clients, up, stored, calls, members, left, tabVars, requests, faults>>

(* Otherwise, or when the conversation's type cannot be read, nobody rings. *)
AnnounceQuietJoin(c) ==
  LET v == join[c].conv IN
  /\ pc[c] = "joined"
  /\ \/ ~(join[c].started /\ v \in Direct) /\ UNCHANGED faults
     \/ join[c].started /\ Fault
  /\ StartBroadcast(c, JoinedEvent(c), members[v])
  /\ Goto(c, "announcing")
  /\ UNCHANGED <<clients, up, stored, calls, members, join, left, tabVars, requests>>

AnnounceRungJoin(c) ==
  /\ pc[c] = "ringing"
  /\ StartBroadcast(c, JoinedEvent(c), join[c].recipients)
  /\ Goto(c, "announcing")
  /\ UNCHANGED <<clients, up, stored, calls, members, join, left, tabVars, requests, faults>>

(* The event is out, or the recipients could not be listed at all.          *)
JoinDone(c) ==
  /\ \/ pc[c] = "announcing" /\ Idle(c) /\ UNCHANGED faults
     \/ pc[c] = "joined" /\ Fault
  /\ Goto(c, "reading")
  /\ join' = [join EXCEPT ![c] = NoJoin]
  /\ UNCHANGED <<hubVars, up, stored, calls, members, left, tabVars, requests>>

-----------------------------------------------------------------------------
(* call.leave and the clean-up of a dropped connection                      *)

DepartureOf(u, v) ==
  [conv |-> v, who |-> u, participants |-> calls[v] \ {u},
   ended |-> v \in stored /\ calls[v] \ {u} = {}]

(* A tab leaves the call it is in; it may have lost that call with an       *)
(* earlier socket.  No membership check precedes CallRegistry.Leave, which  *)
(* returns a nil list and "not ended" when v has no entry.                  *)
Leave(c) ==
  /\ pc[c] = "reading" /\ c \in up
  /\ Request
  /\ \E v \in at[TabOf[c]] :
       LET d == DepartureOf(UserOf[c], v) IN
       /\ calls' = [calls EXCEPT ![v] = @ \ {UserOf[c]}]
       /\ stored' = IF d.ended THEN stored \ {v} ELSE stored
       /\ left' = [left EXCEPT ![c] = {d}]
  /\ at' = [at EXCEPT ![TabOf[c]] = {}]
  /\ Goto(c, "leaving")
  /\ UNCHANGED <<hubVars, up, members, join, voice, rung, faults>>

(* Faulty: the deferred clean-up forgets leaveAllCalls.                     *)
DisconnectOnly(c) ==
  /\ pc[c] = "reading"
  /\ c \notin up
  /\ Unregister(c)
  /\ Goto(c, "done")
  /\ UNCHANGED <<sending, up, stored, calls, members, join, left, tabVars, requests, faults>>

Disconnect(c) ==
  /\ pc[c] = "reading"
  /\ c \notin up
  /\ Unregister(c)
  /\ Goto(c, "leaveAll")
  /\ UNCHANGED <<sending, up, stored, calls, members, join, left, tabVars, requests, faults>>

(* Faulty: a user is taken only out of the calls it was alone in.           *)
LeaveLonelyCalls(c) ==
  LET u == UserOf[c]
      leaving == {v \in stored : calls[v] = {u}}
  IN
  /\ pc[c] = "leaveAll"
  /\ calls' = [v \in Convs |-> IF v \in leaving THEN {} ELSE calls[v]]
  /\ stored' = stored \ leaving
  /\ left' = [left EXCEPT ![c] = {DepartureOf(u, v) : v \in leaving}]
  /\ Goto(c, "closing")
  /\ UNCHANGED <<hubVars, up, members, join, tabVars, requests, faults>>

(* Faulty: the calls the user was in are deleted, with whoever is in them.  *)
LeaveByDeleting(c) ==
  LET u == UserOf[c]
      leaving == {v \in stored : u \in calls[v]}
  IN
  /\ pc[c] = "leaveAll"
  /\ calls' = [v \in Convs |-> IF v \in leaving THEN {} ELSE calls[v]]
  /\ stored' = stored \ leaving
  /\ left' = [left EXCEPT ![c] = {DepartureOf(u, v) : v \in leaving}]
  /\ Goto(c, "closing")
  /\ UNCHANGED <<hubVars, up, members, join, tabVars, requests, faults>>

(* leaveAllCalls runs whichever connection of the user has gone.            *)
LeaveAll(c) ==
  LET u == UserOf[c]
      leaving == {v \in stored : u \in calls[v]}
  IN
  /\ pc[c] = "leaveAll"
  /\ calls' = [v \in Convs |-> IF v \in leaving THEN calls[v] \ {u} ELSE calls[v]]
  /\ stored' = stored \ {v \in leaving : calls[v] \ {u} = {}}
  /\ left' = [left EXCEPT ![c] = {DepartureOf(u, v) : v \in leaving}]
  /\ Goto(c, "closing")
  /\ UNCHANGED <<hubVars, up, members, join, tabVars, requests, faults>>

(* broadcastCallEnded and broadcastCallLeft, one departure at a time.  When *)
(* the members cannot be listed, call.ended is not sent at all and          *)
(* call.left goes to the participants and the leaver.                       *)
AnnounceDeparture(c) ==
  /\ pc[c] \in {"leaving", "closing"}
  /\ Idle(c)
  /\ \E d \in left[c] :
       /\ left' = [left EXCEPT ![c] = @ \ {d}]
       /\ \/ /\ StartBroadcast(c, [type |-> IF d.ended THEN "ended" ELSE "left",
                                   conv |-> d.conv, participants |-> d.participants],
                               members[d.conv])
             /\ UNCHANGED faults
          \/ /\ Fault
             /\ IF d.ended
                  THEN UNCHANGED sending
                  ELSE StartBroadcast(c, [type |-> "left", conv |-> d.conv,
                                          participants |-> d.participants],
                                      d.participants \cup {d.who})
  /\ UNCHANGED <<clients, pc, up, stored, calls, members, join, tabVars, requests>>

DepartureDone(c) ==
  /\ Idle(c)
  /\ left[c] = {}
  /\ \/ pc[c] = "leaving" /\ Goto(c, "reading")
     \/ pc[c] = "closing" /\ Goto(c, "done")
  /\ UNCHANGED <<hubVars, up, stored, calls, members, join, left, tabVars, requests, faults>>

-----------------------------------------------------------------------------
(* Sockets, delivery and membership                                         *)

Connect(c) ==
  /\ pc[c] = "new"
  /\ \A d \in up : TabOf[d] # TabOf[c]
  /\ up' = up \cup {c}
  /\ Register(c)
  /\ Goto(c, "reading")
  /\ UNCHANGED <<sending, stored, calls, members, join, left, tabVars, requests, faults>>

Drop(c) ==
  /\ c \in up
  /\ up' = up \ {c}
  /\ UNCHANGED <<hubVars, pc, stored, calls, members, join, left, tabVars, requests, faults>>

NextRecipient(c) == PickRecipient(c) /\ UNCHANGED callVars

(* What the tab does with an event: useRealtime's handleEvent.  A call.left *)
(* whose participants are null does not pass the schema of events.ts.       *)
Hear(t, e) ==
  /\ voice' = CASE e.type = "joined" -> [voice EXCEPT ![t][e.conv] = e.participants]
                [] e.type = "left" /\ e.participants # {} ->
                     [voice EXCEPT ![t][e.conv] = e.participants]
                [] e.type = "ended" -> [voice EXCEPT ![t][e.conv] = {}]
                [] OTHER -> voice
  /\ rung' = IF e.type = "created" THEN [rung EXCEPT ![t] = @ \cup {e.conv}] ELSE rung
  /\ at' = IF e.type = "ended" THEN [at EXCEPT ![t] = @ \ {e.conv}] ELSE at

Deliver(g, c) ==
  /\ WriteTo(g, c)
  /\ IF c \in up THEN Hear(TabOf[c], sending[g].event) ELSE UNCHANGED tabVars
  /\ UNCHANGED <<pc, up, stored, calls, members, join, left, requests, faults>>

(* servers.Service.RemoveMember, which tells the registry nothing.          *)
RemoveMember(u, v) ==
  /\ v \notin Direct
  /\ u \in members[v]
  /\ members' = [members EXCEPT ![v] = @ \ {u}]
  /\ UNCHANGED <<hubVars, pc, up, stored, calls, join, left, tabVars, requests, faults>>

Progress(c) ==
  \/ Join(c) \/ Ring(c) \/ AnnounceQuietJoin(c) \/ AnnounceRungJoin(c) \/ JoinDone(c)
  \/ Disconnect(c) \/ LeaveAll(c) \/ AnnounceDeparture(c) \/ DepartureDone(c)
  \/ NextRecipient(c) \/ \E d \in Conns : Deliver(c, d)

Next ==
  \/ \E c \in Conns : Connect(c) \/ Drop(c) \/ ReceiveJoin(c) \/ Leave(c) \/ Progress(c)
  \/ \E u \in Users, v \in Convs : RemoveMember(u, v)

Spec == Init /\ [][Next]_vars

(* The Go scheduler runs every goroutine that can run.                      *)
FairSpec == Spec /\ \A c \in Conns : WF_vars(Progress(c))

-----------------------------------------------------------------------------
(* Properties                                                               *)

(* The registry keeps an entry exactly for the calls somebody is in: Join's *)
(* "started" and Leave's "ended" are right only because of it.              *)
EntryIffNonEmpty == \A v \in Convs : v \in stored <=> calls[v] # {}

(* Everyone the registry holds has a connection whose LeaveAll is still to  *)
(* come, so that no participant is left behind by a dropped connection.     *)
ParticipantHasConnection ==
  \A v \in Convs : \A u \in calls[v] :
    \E c \in Conns : UserOf[c] = u /\ pc[c] \in Present

(* A user who has gone for good ends up in no call.                         *)
CallsDrain ==
  \A u \in Users :
    <>[](\A c \in Conns : UserOf[c] = u => c \notin up)
      => <>[](\A v \in Convs : u \notin calls[v])

(* The registry implements the call board: sessions are goroutines, open    *)
(* from Register until their LeaveAll.                                      *)
Board == INSTANCE CallBoard WITH
  Sessions <- Conns,
  open <- {c \in Conns : pc[c] \in Present},
  talking <- calls
ImplementsBoard == Board!BoardSpec
=============================================================================
