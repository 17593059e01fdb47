------------------------------ MODULE Presence ------------------------------
(***************************************************************************)
(* Who is online: the hub's connections, the Redis keys "presence:<user>"  *)
(* and the presence stores of the browser tabs (presenceStore.ts), kept in *)
(* step by Handler.Connect, its clean-up, and NotifyMembershipAdded of     *)
(* internal/realtime/handler.go.                                           *)
(*                                                                         *)
(* Every connection is one goroutine: it registers, the first of its user  *)
(* sets the key and announces the user, all of them read the peers' keys   *)
(* into a snapshot, then the goroutine sits in the read loop until its     *)
(* socket fails; it unregisters and the last one deletes the key and       *)
(* announces the user gone.  Nothing but the hub's own lock orders the     *)
(* steps of two goroutines.                                                *)
(***************************************************************************)
EXTENDS Hub, Naturals

CONSTANTS
  Convs,      \* conversation ids
  Tabs,       \* browser tabs: each keeps its presence store over reconnects
  TabOf,      \* the tab each connection belongs to
  Founders,   \* the members each conversation starts with
  MaxDrops,   \* bound: how many sockets fail
  MaxFaults   \* bound: how many Redis calls fail or servers crash

ASSUME TabOfAssumption == TabOf \in [Conns -> Tabs]
ASSUME FoundersAssumption == Founders \in [Convs -> SUBSET Users]
ASSUME BoundsAssumption == MaxDrops \in Nat /\ MaxFaults \in Nat

VARIABLES
  pc,         \* where each goroutine is
  up,         \* the connections whose client end is open
  key,        \* the users whose presence key exists in Redis
  members,    \* conversation_members
  probe,      \* a snapshot being collected: keys still to read, keys found
  target,     \* what a notifier was called for: the new member, the others
  view,       \* presenceStore.online of each tab
  drops, faults

presenceVars == <<pc, up, key, members, probe, target, view, drops, faults>>
vars == <<clients, sending, presenceVars>>

Opening == {"setOnline", "announce", "announcing"}
Serving == {"snapshot", "probing", "snapshotting", "reading"}
Closing == {"setOffline", "announceOff", "announcingOff"}
NotifySteps == {"list", "probing", "snapshotting", "check", "announcing"}

Registered(c) == pc[c] \in Opening \cup Serving

(* What an event does to the store of the tab that receives it: user.online *)
(* and presence.snapshot add users, user.offline removes one.               *)
Event == [add: SUBSET Users, remove: SUBSET Users]
OnlineEvent(us)  == [add |-> us, remove |-> {}]
OfflineEvent(u)  == [add |-> {}, remove |-> {u}]

TypeOK ==
  /\ HubTypeOK(Event)
  /\ pc \in [Goroutines -> {"new", "done"} \cup Opening \cup Serving
                              \cup Closing \cup NotifySteps]
  /\ up \in SUBSET Conns
  /\ key \in SUBSET Users
  /\ members \in [Convs -> SUBSET Users]
  /\ probe \in [Goroutines -> [left: SUBSET Users, found: SUBSET Users]]
  /\ target \in [Notifiers -> [user: Users, conv: Convs, others: SUBSET Users]]
  /\ view \in [Tabs -> SUBSET Users]
  /\ drops \in 0..MaxDrops
  /\ faults \in 0..MaxFaults

Init ==
  /\ HubInit(OnlineEvent({}))
  /\ pc = [g \in Goroutines |-> "new"]
  /\ up = {}
  /\ key = {}
  /\ members = Founders
  /\ probe = [g \in Goroutines |-> [left |-> {}, found |-> {}]]
  /\ target \in [Notifiers -> [user: Users, conv: Convs, others: {{}}]]
  /\ view = [t \in Tabs |-> {}]
  /\ drops = 0
  /\ faults = 0

-----------------------------------------------------------------------------
(* Helpers                                                                  *)

ListPeerIDs(u) ==
  {w \in Users \ {u} : \E v \in Convs : {u, w} \subseteq members[v]}

Goto(g, label) == pc' = [pc EXCEPT ![g] = label]

(* A Redis call may fail; the handlers log the error and carry on.          *)
Fault == faults < MaxFaults /\ faults' = faults + 1

SetOnline(u)  == (key' = key \cup {u} /\ UNCHANGED faults)
                   \/ (Fault /\ UNCHANGED key)
SetOffline(u) == (key' = key \ {u} /\ UNCHANGED faults)
                   \/ (Fault /\ UNCHANGED key)

-----------------------------------------------------------------------------
(* Handler.Connect: the opening steps                                       *)

(* A tab opens a socket only when it has none open.                         *)
Connect(c) ==
  /\ pc[c] = "new"
  /\ \A d \in up : TabOf[d] # TabOf[c]
  /\ up' = up \cup {c}
  /\ Register(c)
  /\ Goto(c, IF IsFirst(c) THEN "setOnline" ELSE "snapshot")
  /\ UNCHANGED <<sending, key, members, probe, target, view, drops, faults>>

MarkOnline(c) ==
  /\ pc[c] = "setOnline"
  /\ SetOnline(UserOf[c])
  /\ Goto(c, "announce")
  /\ UNCHANGED <<hubVars, up, members, probe, target, view, drops>>

AnnounceOnline(c) ==
  /\ pc[c] = "announce"
  /\ StartBroadcast(c, OnlineEvent({UserOf[c]}), ListPeerIDs(UserOf[c]))
  /\ Goto(c, "announcing")
  /\ UNCHANGED <<clients, up, key, members, probe, target, view, drops, faults>>

BeginSnapshot(c) ==
  /\ \/ pc[c] = "announcing" /\ Idle(c)
     \/ pc[c] = "snapshot"
  /\ probe' = [probe EXCEPT ![c] = [left |-> ListPeerIDs(UserOf[c]), found |-> {}]]
  /\ Goto(c, "probing")
  /\ UNCHANGED <<hubVars, up, key, members, target, view, drops, faults>>

-----------------------------------------------------------------------------
(* sendPresenceSnapshotFor, shared by Connect and the notifier              *)

Recipient(g) == IF g \in Conns THEN UserOf[g] ELSE target[g].user

ProbePeer(g) ==
  /\ pc[g] = "probing"
  /\ \E u \in probe[g].left :
       \/ /\ probe' = [probe EXCEPT ![g].left = @ \ {u},
                                    ![g].found = @ \cup ({u} \cap key)]
          /\ UNCHANGED faults
       \/ Fault /\ probe' = [probe EXCEPT ![g].left = @ \ {u}]
  /\ UNCHANGED <<hubVars, pc, up, key, members, target, view, drops>>

SendSnapshot(g) ==
  /\ pc[g] = "probing"
  /\ probe[g].left = {}
  /\ StartBroadcast(g, OnlineEvent(probe[g].found), {Recipient(g)})
  /\ Goto(g, "snapshotting")
  /\ UNCHANGED <<clients, up, key, members, probe, target, view, drops, faults>>

EnterReadLoop(c) ==
  /\ pc[c] = "snapshotting"
  /\ Idle(c)
  /\ Goto(c, "reading")
  /\ UNCHANGED <<hubVars, up, key, members, probe, target, view, drops, faults>>

-----------------------------------------------------------------------------
(* The read loop fails, and the deferred clean-up runs                      *)

Disconnect(c) ==
  /\ pc[c] = "reading"
  /\ c \notin up
  /\ Unregister(c)
  /\ Goto(c, IF IsLast(c) THEN "setOffline" ELSE "done")
  /\ UNCHANGED <<sending, up, key, members, probe, target, view, drops, faults>>

MarkOffline(c) ==
  /\ pc[c] = "setOffline"
  /\ SetOffline(UserOf[c])
  /\ Goto(c, "announceOff")
  /\ UNCHANGED <<hubVars, up, members, probe, target, view, drops>>

AnnounceOffline(c) ==
  /\ pc[c] = "announceOff"
  /\ StartBroadcast(c, OfflineEvent(UserOf[c]), ListPeerIDs(UserOf[c]))
  /\ Goto(c, "announcingOff")
  /\ UNCHANGED <<clients, up, key, members, probe, target, view, drops, faults>>

Finish(c) ==
  /\ pc[c] = "announcingOff"
  /\ Idle(c)
  /\ Goto(c, "done")
  /\ UNCHANGED <<hubVars, up, key, members, probe, target, view, drops, faults>>

-----------------------------------------------------------------------------
(* POST /conversations/{id}/members and NotifyMembershipAdded               *)

AddMember(n) ==
  /\ pc[n] = "new"
  /\ members[target[n].conv] # {}
  /\ members' = [members EXCEPT ![target[n].conv] = @ \cup {target[n].user}]
  /\ Goto(n, "list")
  /\ UNCHANGED <<hubVars, up, key, probe, target, view, drops, faults>>

ListOthers(n) ==
  /\ pc[n] = "list"
  /\ LET others == members[target[n].conv] \ {target[n].user}
     IN  /\ target' = [target EXCEPT ![n].others = others]
         /\ probe' = [probe EXCEPT ![n] = [left |-> others, found |-> {}]]
  /\ Goto(n, "probing")
  /\ UNCHANGED <<hubVars, up, key, members, view, drops, faults>>

(* Faulty: the newcomer gets its snapshot and the others are told nothing.  *)
AnnounceNobody(n) ==
  /\ pc[n] = "snapshotting"
  /\ Idle(n)
  /\ Goto(n, "done")
  /\ UNCHANGED <<hubVars, up, key, members, probe, target, view, drops, faults>>

AnnounceNewMember(n) ==
  /\ pc[n] = "snapshotting"
  /\ Idle(n)
  /\ \/ /\ target[n].user \in key
        /\ StartBroadcast(n, OnlineEvent({target[n].user}), target[n].others)
        /\ Goto(n, "announcing")
        /\ UNCHANGED faults
     \/ /\ \/ target[n].user \notin key /\ UNCHANGED faults
           \/ Fault
        /\ Goto(n, "done")
        /\ UNCHANGED sending
  /\ UNCHANGED <<clients, up, key, members, probe, target, view, drops>>

NotifyDone(n) ==
  /\ pc[n] = "announcing"
  /\ Idle(n)
  /\ Goto(n, "done")
  /\ UNCHANGED <<hubVars, up, key, members, probe, target, view, drops, faults>>

-----------------------------------------------------------------------------
(* A ListPeerIDs or ListMemberIDs query fails (the requester's context was  *)
(* cancelled, the pool is exhausted): what it was for is skipped.           *)
ListFails(g) ==
  /\ Idle(g)
  /\ Fault
  /\ \E skip \in {<<"announce", "snapshot">>, <<"snapshot", "reading">>,
                  <<"announceOff", "done">>, <<"list", "done">>} :
       pc[g] = skip[1] /\ Goto(g, skip[2])
  /\ UNCHANGED <<hubVars, up, key, members, probe, target, view, drops>>

-----------------------------------------------------------------------------
(* Delivery, and what happens to the servers and sockets                    *)

NextRecipient(g) == PickRecipient(g) /\ UNCHANGED presenceVars

(* A write reaches the tab's store unless the client end has gone.          *)
Deliver(g, c) ==
  /\ WriteTo(g, c)
  /\ view' = IF c \in up
               THEN [view EXCEPT ![TabOf[c]] = (@ \cup sending[g].event.add)
                                                  \ sending[g].event.remove]
               ELSE view
  /\ UNCHANGED <<pc, up, key, members, probe, target, drops, faults>>

Drop(c) ==
  /\ c \in up
  /\ drops < MaxDrops
  /\ drops' = drops + 1
  /\ up' = up \ {c}
  /\ UNCHANGED <<hubVars, pc, key, members, probe, target, view, faults>>

(* Faulty: the refresh ticker outlives the connection it was started for.   *)
ExpireUnseen(u) ==
  /\ u \in key
  /\ \A c \in Conns : UserOf[c] = u => pc[c] = "new"
  /\ key' = key \ {u}
  /\ UNCHANGED <<hubVars, pc, up, members, probe, target, view, drops, faults>>

(* The key lapses 90 s after the last Refresh; a connection in its read     *)
(* loop refreshes every 30 s, and one still opening has just set it.        *)
Expire(u) ==
  /\ u \in key
  /\ \A c \in Conns : UserOf[c] = u => ~Registered(c)
  /\ key' = key \ {u}
  /\ UNCHANGED <<hubVars, pc, up, members, probe, target, view, drops, faults>>

(* The server process dies: goroutines and the hub go, Redis stays.         *)
Crash ==
  /\ Fault
  /\ clients' = [u \in Users |-> {}]
  /\ sending' = [g \in Goroutines |->
                   [event |-> OnlineEvent({}), users |-> {}, conns |-> {}]]
  /\ pc' = [g \in Goroutines |-> IF pc[g] = "new" THEN "new" ELSE "done"]
  /\ up' = {}
  /\ UNCHANGED <<key, members, probe, target, view, drops>>

Step(c) ==
  \/ MarkOnline(c) \/ AnnounceOnline(c) \/ BeginSnapshot(c)
  \/ EnterReadLoop(c) \/ Disconnect(c) \/ MarkOffline(c)
  \/ AnnounceOffline(c) \/ Finish(c)

NotifyStep(n) == ListOthers(n) \/ AnnounceNewMember(n) \/ NotifyDone(n)

Broadcast(g) ==
  \/ ProbePeer(g) \/ SendSnapshot(g)
  \/ NextRecipient(g) \/ \E c \in Conns : Deliver(g, c)

Next ==
  \/ \E c \in Conns : Connect(c) \/ Step(c) \/ Drop(c)
  \/ \E n \in Notifiers : AddMember(n) \/ NotifyStep(n)
  \/ \E g \in Goroutines : Broadcast(g) \/ ListFails(g)
  \/ \E u \in Users : Expire(u)
  \/ Crash

(* Redis expires keys.                                                      *)
Fairness == \A u \in Users : WF_vars(Expire(u))

Spec == Init /\ [][Next]_vars
FairSpec == Spec /\ Fairness

-----------------------------------------------------------------------------
(* Properties                                                               *)

Quiet == \A g \in Goroutines : pc[g] \in {"new", "reading", "done"}

(* The hub's map holds exactly the connections between Register and         *)
(* Unregister: a second tab's clean-up never takes the first tab with it.   *)
HubExact ==
  \A c \in Conns, u \in Users :
    c \in clients[u] <=> UserOf[c] = u /\ Registered(c)

(* Only one goroutine of a user is announcing it online at a time, however  *)
(* its connections come and go: Register's "first" is handed out again only *)
(* after the announcer has unregistered.                                    *)
OneAnnouncer ==
  \A c, d \in Conns :
    /\ UserOf[c] = UserOf[d]
    /\ pc[c] \in Opening /\ pc[d] \in Opening
    => c = d

(* Without a Redis failure or a crash, the key of a user with no connection *)
(* survives only until the clean-up that is already on its way deletes it.  *)
KeyNotLeaked ==
  faults = 0 =>
    \A u \in key : Connected(u) \/ \E c \in Conns :
                     UserOf[c] = u /\ pc[c] = "setOffline"

(* Connect and AddMember may race: once both have finished, two connected   *)
(* members of a conversation each see the other online.                     *)
PeersAware ==
  Quiet => \A c, d \in up :
    UserOf[d] \in ListPeerIDs(UserOf[c]) => UserOf[d] \in view[TabOf[c]]

(* When no handler is running, the snapshot a newcomer would be sent lists  *)
(* exactly those of its peers who have a connection.                        *)
SnapshotAccurate ==
  Quiet => \A w \in Users :
    ListPeerIDs(w) \cap key = {u \in ListPeerIDs(w) : Connected(u)}

(* Whatever fails, a key left behind by a user who never returns goes away. *)
LeakedKeyExpires ==
  \A u \in Users : <>[](~Connected(u)) => <>[](u \notin key)
=============================================================================
