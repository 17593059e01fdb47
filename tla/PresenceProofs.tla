--------------------------- MODULE PresenceProofs ---------------------------
(***************************************************************************)
(* What holds of Presence for any users, connections, tabs, conversations  *)
(* and bounds.  The invariant is proved in one pass: its parts lean on one *)
(* another (that Register's "first" is right needs HubExact, and that one  *)
(* goroutine announces at a time needs both).                              *)
(***************************************************************************)
EXTENDS Presence, TLAPS

(* The part of TypeOK the other invariants need.                            *)
LifecycleTypeOK ==
  /\ clients \in [Users -> SUBSET Conns]
  /\ pc \in [Goroutines -> {"new", "done"} \cup Opening \cup Serving
                              \cup Closing \cup NotifySteps]
  /\ key \in SUBSET Users
  /\ faults \in Nat

(* The inductive invariant.                                                 *)
IInv == LifecycleTypeOK /\ HubExact /\ OneAnnouncer /\ KeyNotLeaked

-----------------------------------------------------------------------------
(* Facts about the sets of labels                                           *)

LEMMA Labels ==
  /\ Opening \cap Serving = {} /\ Opening \cap Closing = {}
  /\ Serving \cap Closing = {}
  /\ \A l \in {"new", "done"} : l \notin Opening \cup Serving \cup Closing
BY DEF Opening, Serving, Closing

(* A goroutine's jump to a label of the list keeps pc a function to labels. *)
LEMMA GotoType ==
  ASSUME LifecycleTypeOK, NEW g \in Goroutines,
         NEW l \in {"new", "done"} \cup Opening \cup Serving \cup Closing \cup NotifySteps,
         Goto(g, l)
  PROVE  /\ pc' \in [Goroutines -> {"new", "done"} \cup Opening \cup Serving
                                      \cup Closing \cup NotifySteps]
         /\ pc'[g] = l
         /\ \A h \in Goroutines \ {g} : pc'[h] = pc[h]
BY DEF LifecycleTypeOK, Goto

(* A step that leaves the hub, the keys and the fault count alone and moves *)
(* one goroutine, without registering, unregistering or opening it,         *)
(* preserves the invariant.                                                 *)
LEMMA QuietMove ==
  ASSUME IInv, NEW g \in Goroutines,
         NEW l \in {"new", "done"} \cup Opening \cup Serving \cup Closing \cup NotifySteps,
         Goto(g, l), UNCHANGED <<clients, key>>, faults' \in Nat, faults' >= faults,
         g \in Conns =>
           /\ (l \in Opening \cup Serving) <=> Registered(g)
           /\ l \in Opening => pc[g] \in Opening
           /\ pc[g] # "setOffline"
  PROVE  IInv'
<1>1. LifecycleTypeOK
  BY DEF IInv
<1>2. /\ pc' \in [Goroutines -> {"new", "done"} \cup Opening \cup Serving
                                    \cup Closing \cup NotifySteps]
      /\ pc'[g] = l
      /\ \A h \in Goroutines \ {g} : pc'[h] = pc[h]
  BY <1>1, GotoType
<1>3. LifecycleTypeOK'
  BY <1>1, <1>2 DEF LifecycleTypeOK
<1>4. \A c \in Conns : Registered(c)' <=> Registered(c)
  BY <1>2 DEF Registered, Goroutines
<1>5. HubExact'
  BY <1>4 DEF IInv, HubExact
<1>6. \A c \in Conns : pc'[c] \in Opening => pc[c] \in Opening
  BY <1>2 DEF Goroutines
<1>7. OneAnnouncer'
  BY <1>6 DEF IInv, OneAnnouncer
<1>8. faults' = 0 => faults = 0
  BY <1>1 DEF LifecycleTypeOK
<1>9. \A c \in Conns : pc[c] = "setOffline" => pc'[c] = "setOffline"
  BY <1>2 DEF Goroutines
<1>10. KeyNotLeaked'
  BY <1>8, <1>9 DEF IInv, KeyNotLeaked, Connected
<1>11. QED
  BY <1>3, <1>5, <1>7, <1>10 DEF IInv

(* A step that moves no goroutine and touches neither the hub nor the keys. *)
LEMMA Bystander ==
  ASSUME IInv, UNCHANGED <<clients, pc, key>>, faults' \in Nat, faults' >= faults
  PROVE  IInv'
<1>1. faults' = 0 => faults = 0
  BY DEF IInv, LifecycleTypeOK
<1>2. LifecycleTypeOK' /\ HubExact' /\ OneAnnouncer'
  BY DEF IInv, LifecycleTypeOK, HubExact, OneAnnouncer, Registered
<1>3. KeyNotLeaked'
  BY <1>1 DEF IInv, KeyNotLeaked, Connected
<1>4. QED
  BY <1>2, <1>3 DEF IInv

-----------------------------------------------------------------------------
(* The steps that do touch the hub or the keys, one lemma each              *)

LEMMA ConnectKeeps ==
  ASSUME IInv, NEW c \in Conns, Connect(c)
  PROVE  IInv'
<1>1. LifecycleTypeOK /\ pc[c] = "new" /\ UserOf[c] \in Users
  BY UserOfAssumption DEF IInv, Connect
<1> DEFINE l == IF IsFirst(c) THEN "setOnline" ELSE "snapshot"
<1>2. c \in Goroutines /\ l \in Opening \cup Serving /\ (l \in Opening => IsFirst(c))
  BY DEF Goroutines, Opening, Serving
<1>3. Goto(c, l)
  BY DEF Connect
<1>4. /\ pc' \in [Goroutines -> {"new", "done"} \cup Opening \cup Serving
                                    \cup Closing \cup NotifySteps]
      /\ pc'[c] = l
      /\ \A h \in Goroutines \ {c} : pc'[h] = pc[h]
  <2> HIDE DEF l
  <2> QED BY <1>1, <1>2, <1>3, GotoType
<1>5. /\ clients' = [clients EXCEPT ![UserOf[c]] = @ \cup {c}]
      /\ UNCHANGED <<key, faults>>
  BY DEF Connect, Register
<1>6. LifecycleTypeOK'
  BY <1>1, <1>4, <1>5 DEF LifecycleTypeOK
<1>7. HubExact'
  <2> HIDE DEF l
  <2>1. ~Registered(c)
    BY <1>1, Labels DEF Registered
  <2>2. \A d \in Conns : Registered(d)' <=> Registered(d) \/ d = c
    BY <1>2, <1>4 DEF Registered, Goroutines
  <2>3. \A d \in Conns, u \in Users :
          d \in clients'[u] <=> d \in clients[u] \/ (d = c /\ u = UserOf[c])
    BY <1>1, <1>5 DEF LifecycleTypeOK
  <2>4. QED
    BY <2>1, <2>2, <2>3 DEF IInv, HubExact
<1>8. OneAnnouncer'
  <2> SUFFICES ASSUME NEW d \in Conns, UserOf[d] = UserOf[c],
                      pc'[c] \in Opening, pc'[d] \in Opening
               PROVE  c = d
    <3>1. \A h \in Conns \ {c} : pc'[h] = pc[h]
      BY <1>4 DEF Goroutines
    <3>2. QED
      BY <3>1 DEF OneAnnouncer, IInv
  <2>1. clients[UserOf[c]] = {}
    BY <1>2, <1>4 DEF IsFirst
  <2>2. ~Registered(d)
    BY <1>1, <2>1 DEF IInv, HubExact
  <2>3. QED
    BY <1>4, <2>2 DEF Registered, Goroutines
<1>9. KeyNotLeaked'
  <2>1. \A u \in Users : Connected(u) => Connected(u)'
    BY <1>1, <1>5 DEF Connected, LifecycleTypeOK
  <2>2. \A d \in Conns : pc[d] = "setOffline" => pc'[d] = "setOffline"
    BY <1>1, <1>4 DEF Goroutines
  <2>3. QED
    BY <1>1, <1>5, <2>1, <2>2 DEF IInv, KeyNotLeaked, LifecycleTypeOK
<1>10. QED
  BY <1>6, <1>7, <1>8, <1>9 DEF IInv

LEMMA MarkOnlineKeeps ==
  ASSUME IInv, NEW c \in Conns, MarkOnline(c)
  PROVE  IInv'
<1>1. LifecycleTypeOK /\ pc[c] = "setOnline" /\ UserOf[c] \in Users /\ c \in Goroutines
  BY UserOfAssumption DEF IInv, MarkOnline, Goroutines
<1>2. Goto(c, "announce") /\ UNCHANGED clients /\ faults' \in Nat /\ faults' >= faults
  BY <1>1 DEF MarkOnline, hubVars, SetOnline, Fault, LifecycleTypeOK
<1>3. /\ pc' \in [Goroutines -> {"new", "done"} \cup Opening \cup Serving
                                    \cup Closing \cup NotifySteps]
      /\ pc'[c] = "announce"
      /\ \A h \in Goroutines \ {c} : pc'[h] = pc[h]
  BY <1>1, <1>2, GotoType DEF Opening
<1>4. key' \subseteq key \cup {UserOf[c]}
  BY <1>1 DEF MarkOnline, SetOnline
<1>5. LifecycleTypeOK'
  BY <1>1, <1>2, <1>3, <1>4 DEF LifecycleTypeOK
<1>6. \A d \in Conns : /\ Registered(d)' <=> Registered(d)
                       /\ pc'[d] \in Opening <=> pc[d] \in Opening
                       /\ pc'[d] = "setOffline" <=> pc[d] = "setOffline"
  BY <1>1, <1>3 DEF Registered, Goroutines, Opening
<1>7. HubExact' /\ OneAnnouncer'
  BY <1>2, <1>6 DEF IInv, HubExact, OneAnnouncer
<1>8. Connected(UserOf[c])
  <2>1. Registered(c)
    BY <1>1 DEF Registered, Opening
  <2>2. QED
    BY <1>1, <2>1 DEF IInv, HubExact, Connected
<1>9. faults' = 0 => faults = 0
  BY <1>1, <1>2 DEF LifecycleTypeOK
<1>10. KeyNotLeaked'
  BY <1>2, <1>4, <1>6, <1>8, <1>9 DEF IInv, KeyNotLeaked, Connected
<1>11. QED
  BY <1>5, <1>7, <1>10 DEF IInv

(* The last Unregister of a user leaves its goroutine about to delete the   *)
(* key; any other one leaves a connection behind.                           *)
LEMMA DisconnectKeeps ==
  ASSUME IInv, NEW c \in Conns, Disconnect(c)
  PROVE  IInv'
<1> DEFINE l == IF IsLast(c) THEN "setOffline" ELSE "done"
<1>1. LifecycleTypeOK /\ pc[c] = "reading" /\ UserOf[c] \in Users /\ c \in Goroutines
  BY UserOfAssumption DEF IInv, Disconnect, Goroutines
<1>2. /\ Goto(c, l)
      /\ clients' = [clients EXCEPT ![UserOf[c]] = @ \ {c}]
      /\ UNCHANGED <<key, faults>>
  BY DEF Disconnect, Unregister
<1>3. l \in {"done"} \cup Closing /\ l \notin Opening \cup Serving
  BY DEF Opening, Serving, Closing
<1>4. /\ pc' \in [Goroutines -> {"new", "done"} \cup Opening \cup Serving
                                    \cup Closing \cup NotifySteps]
      /\ pc'[c] = l
      /\ \A h \in Goroutines \ {c} : pc'[h] = pc[h]
  <2> HIDE DEF l
  <2> QED BY <1>1, <1>2, <1>3, GotoType
<1>5. LifecycleTypeOK'
  BY <1>1, <1>2, <1>4 DEF LifecycleTypeOK
<1>6. HubExact'
  <2> HIDE DEF l
  <2>1. \A d \in Conns : Registered(d)' <=> Registered(d) /\ d # c
    BY <1>3, <1>4 DEF Registered, Goroutines
  <2>2. \A d \in Conns, u \in Users :
          d \in clients'[u] <=> d \in clients[u] /\ ~(d = c /\ u = UserOf[c])
    BY <1>1, <1>2 DEF LifecycleTypeOK
  <2>3. QED
    BY <2>1, <2>2 DEF IInv, HubExact
<1>7. OneAnnouncer'
  <2> HIDE DEF l
  <2>1. \A d \in Conns : pc'[d] \in Opening => pc[d] \in Opening
    BY <1>3, <1>4 DEF Goroutines
  <2>2. QED
    BY <2>1 DEF IInv, OneAnnouncer
<1>8. KeyNotLeaked'
  <2>1. \A u \in Users : Connected(u) => Connected(u)' \/ (u = UserOf[c] /\ IsLast(c))
    BY <1>1, <1>2 DEF Connected, IsLast, LifecycleTypeOK
  <2>2. IsLast(c) => pc'[c] = "setOffline"
    BY <1>4
  <2>3. \A d \in Conns : pc[d] = "setOffline" => pc'[d] = "setOffline"
    BY <1>1, <1>4 DEF Goroutines
  <2>4. QED
    BY <1>1, <1>2, <2>1, <2>2, <2>3 DEF IInv, KeyNotLeaked, LifecycleTypeOK
<1>9. QED
  BY <1>5, <1>6, <1>7, <1>8 DEF IInv

LEMMA MarkOfflineKeeps ==
  ASSUME IInv, NEW c \in Conns, MarkOffline(c)
  PROVE  IInv'
<1>1. LifecycleTypeOK /\ pc[c] = "setOffline" /\ UserOf[c] \in Users /\ c \in Goroutines
  BY UserOfAssumption DEF IInv, MarkOffline, Goroutines
<1>2. Goto(c, "announceOff") /\ UNCHANGED clients /\ faults' \in Nat /\ faults' >= faults
  BY <1>1 DEF MarkOffline, hubVars, SetOffline, Fault, LifecycleTypeOK
<1>3. /\ pc' \in [Goroutines -> {"new", "done"} \cup Opening \cup Serving
                                    \cup Closing \cup NotifySteps]
      /\ pc'[c] = "announceOff"
      /\ \A h \in Goroutines \ {c} : pc'[h] = pc[h]
  BY <1>1, <1>2, GotoType DEF Closing
<1>4. key' \subseteq key /\ (faults' = 0 => faults = 0 /\ UserOf[c] \notin key')
  BY <1>1 DEF MarkOffline, SetOffline, Fault, LifecycleTypeOK
<1>5. LifecycleTypeOK'
  BY <1>1, <1>2, <1>3, <1>4 DEF LifecycleTypeOK
<1>6. \A d \in Conns : /\ Registered(d)' <=> Registered(d)
                       /\ pc'[d] \in Opening <=> pc[d] \in Opening
  BY <1>1, <1>3 DEF Registered, Goroutines, Opening, Serving
<1>7. HubExact' /\ OneAnnouncer'
  BY <1>2, <1>6 DEF IInv, HubExact, OneAnnouncer
<1>8. \A d \in Conns : pc[d] = "setOffline" /\ d # c => pc'[d] = "setOffline"
  BY <1>3 DEF Goroutines
<1>9. KeyNotLeaked'
  BY <1>2, <1>4, <1>8 DEF IInv, KeyNotLeaked, Connected
<1>10. QED
  BY <1>5, <1>7, <1>9 DEF IInv

LEMMA ExpireKeeps ==
  ASSUME IInv, NEW u \in Users, Expire(u)
  PROVE  IInv'
<1>1. UNCHANGED <<clients, pc, faults>> /\ key' \subseteq key
  BY DEF Expire, hubVars
<1>2. LifecycleTypeOK' /\ HubExact' /\ OneAnnouncer'
  BY <1>1 DEF IInv, LifecycleTypeOK, HubExact, OneAnnouncer, Registered
<1>3. KeyNotLeaked'
  BY <1>1 DEF IInv, KeyNotLeaked, Connected
<1>4. QED
  BY <1>2, <1>3 DEF IInv

LEMMA CrashKeeps ==
  ASSUME IInv, Crash
  PROVE  IInv'
<1>1. /\ LifecycleTypeOK
      /\ clients' = [u \in Users |-> {}]
      /\ pc' = [g \in Goroutines |-> IF pc[g] = "new" THEN "new" ELSE "done"]
      /\ faults' = faults + 1 /\ key' = key
  BY DEF IInv, Crash, Fault
<1>2. LifecycleTypeOK'
  BY <1>1 DEF LifecycleTypeOK
<1>3. \A c \in Conns : pc'[c] \in {"new", "done"}
  BY <1>1 DEF Goroutines
<1>4. \A c \in Conns : ~Registered(c)' /\ pc'[c] \notin Opening
  BY <1>3, Labels DEF Registered
<1>5. HubExact' /\ OneAnnouncer'
  BY <1>1, <1>4 DEF HubExact, OneAnnouncer
<1>6. KeyNotLeaked'
  BY <1>1 DEF KeyNotLeaked, LifecycleTypeOK
<1>7. QED
  BY <1>2, <1>5, <1>6 DEF IInv

-----------------------------------------------------------------------------
(* The theorems                                                             *)

LEMMA InitIInv == Init => IInv
<1> SUFFICES ASSUME Init PROVE IInv
  OBVIOUS
<1>1. LifecycleTypeOK
  BY BoundsAssumption DEF Init, HubInit, LifecycleTypeOK
<1>2. \A c \in Conns : ~Registered(c) /\ pc[c] \notin Opening
  BY Labels DEF Init, Registered, Goroutines
<1>3. HubExact /\ OneAnnouncer /\ KeyNotLeaked
  BY <1>2 DEF Init, HubInit, HubExact, OneAnnouncer, KeyNotLeaked
<1>4. QED
  BY <1>1, <1>3 DEF IInv

LEMMA StepIInv == IInv /\ [Next]_vars => IInv'
<1> SUFFICES ASSUME IInv, [Next]_vars PROVE IInv'
  OBVIOUS
<1>1. faults \in Nat /\ (Fault => faults' \in Nat /\ faults' >= faults)
  BY DEF IInv, LifecycleTypeOK, Fault
<1>2. ASSUME NEW c \in Conns, Connect(c) \/ Step(c) \/ Drop(c) PROVE IInv'
  <2>1. CASE Connect(c)
    BY <2>1, ConnectKeeps
  <2>2. CASE MarkOnline(c)
    BY <2>2, MarkOnlineKeeps
  <2>3. CASE Disconnect(c)
    BY <2>3, DisconnectKeeps
  <2>4. CASE MarkOffline(c)
    BY <2>4, MarkOfflineKeeps
  <2>5. CASE AnnounceOnline(c)
    <3>1. /\ Goto(c, "announcing") /\ UNCHANGED <<clients, key, faults>>
          /\ pc[c] = "announce"
      BY <2>5 DEF AnnounceOnline
    <3>2. QED
      BY <1>1, <3>1, QuietMove DEF Goroutines, Opening, Registered
  <2>6. CASE BeginSnapshot(c)
    <3>1. /\ Goto(c, "probing") /\ UNCHANGED <<clients, key, faults>>
          /\ pc[c] \in {"announcing", "snapshot"}
      BY <2>6 DEF BeginSnapshot, hubVars
    <3>2. QED
      BY <1>1, <3>1, QuietMove DEF Goroutines, Opening, Serving, Registered
  <2>7. CASE EnterReadLoop(c)
    <3>1. /\ Goto(c, "reading") /\ UNCHANGED <<clients, key, faults>>
          /\ pc[c] = "snapshotting"
      BY <2>7 DEF EnterReadLoop, hubVars
    <3>2. QED
      BY <1>1, <3>1, QuietMove DEF Goroutines, Opening, Serving, Registered
  <2>8. CASE AnnounceOffline(c)
    <3>1. /\ Goto(c, "announcingOff") /\ UNCHANGED <<clients, key, faults>>
          /\ pc[c] = "announceOff"
      BY <2>8 DEF AnnounceOffline
    <3>2. QED
      BY <1>1, <3>1, QuietMove DEF Goroutines, Opening, Serving, Closing, Registered
  <2>9. CASE Finish(c)
    <3>1. /\ Goto(c, "done") /\ UNCHANGED <<clients, key, faults>>
          /\ pc[c] = "announcingOff"
      BY <2>9 DEF Finish, hubVars
    <3>2. QED
      BY <1>1, <3>1, QuietMove DEF Goroutines, Opening, Serving, Closing, Registered
  <2>10. CASE Drop(c)
    BY <1>1, <2>10, Bystander DEF Drop, hubVars
  <2>11. QED
    BY <1>2, <2>1, <2>2, <2>3, <2>4, <2>5, <2>6, <2>7, <2>8, <2>9, <2>10 DEF Step
<1>3. ASSUME NEW n \in Notifiers, AddMember(n) \/ NotifyStep(n) PROVE IInv'
  <2>1. n \in Goroutines /\ n \notin Conns
    BY NotifiersAssumption DEF Goroutines
  <2>2. \E l \in {"done"} \cup NotifySteps : Goto(n, l) /\ UNCHANGED <<clients, key>>
    BY <1>3 DEF AddMember, NotifyStep, ListOthers, AnnounceNewMember, NotifyDone,
                hubVars, NotifySteps
  <2>3. faults' \in Nat /\ faults' >= faults
    BY <1>1, <1>3 DEF AddMember, NotifyStep, ListOthers, AnnounceNewMember, NotifyDone
  <2>4. QED
    BY <2>1, <2>2, <2>3, QuietMove
<1>4. ASSUME NEW g \in Goroutines, Broadcast(g) \/ ListFails(g) PROVE IInv'
  <2>1. CASE ProbePeer(g)
    BY <1>1, <2>1, Bystander DEF ProbePeer, hubVars
  <2>2. CASE SendSnapshot(g)
    <3>1. /\ Goto(g, "snapshotting") /\ UNCHANGED <<clients, key, faults>>
          /\ pc[g] = "probing"
      BY <2>2 DEF SendSnapshot
    <3>2. QED
      BY <1>1, <3>1, QuietMove DEF Opening, Serving, Registered
  <2>3. CASE NextRecipient(g)
    BY <1>1, <2>3, Bystander DEF NextRecipient, PickRecipient, presenceVars
  <2>4. ASSUME NEW c \in Conns, Deliver(g, c) PROVE IInv'
    BY <1>1, <2>4, Bystander DEF Deliver, WriteTo
  <2>5. CASE ListFails(g)
    <3>1. Fault /\ UNCHANGED <<clients, key>>
      BY <2>5 DEF ListFails, hubVars
    <3>2. CASE pc[g] = "announce" /\ Goto(g, "snapshot")
      BY <1>1, <3>1, <3>2, QuietMove DEF Opening, Serving, Registered
    <3>3. CASE pc[g] = "snapshot" /\ Goto(g, "reading")
      BY <1>1, <3>1, <3>3, QuietMove DEF Opening, Serving, Registered
    <3>4. CASE pc[g] = "announceOff" /\ Goto(g, "done")
      BY <1>1, <3>1, <3>4, QuietMove DEF Opening, Serving, Closing, Registered
    <3>5. CASE pc[g] = "list" /\ Goto(g, "done")
      BY <1>1, <3>1, <3>5, QuietMove DEF Opening, Serving, Registered
    <3>6. QED
      BY <2>5, <3>2, <3>3, <3>4, <3>5 DEF ListFails
  <2>6. QED
    BY <1>4, <2>1, <2>2, <2>3, <2>4, <2>5 DEF Broadcast
<1>5. ASSUME NEW u \in Users, Expire(u) PROVE IInv'
  BY <1>5, ExpireKeeps
<1>6. CASE Crash
  BY <1>6, CrashKeeps
<1>7. CASE UNCHANGED vars
  BY <1>1, <1>7, Bystander DEF vars, presenceVars
<1>8. QED
  BY <1>2, <1>3, <1>4, <1>5, <1>6, <1>7 DEF Next

(* The inductive invariant holds in every reachable state.                  *)
THEOREM Inductive == Spec => []IInv
BY InitIInv, StepIInv, PTL DEF Spec

(* hub.go's map is exactly the set of connections between Register and      *)
(* Unregister, whatever the interleaving.                                   *)
THEOREM HubIsExact == Spec => []HubExact
BY Inductive, PTL DEF IInv

(* Handler.Connect's "if firstConnection" block is a critical section: two  *)
(* goroutines of one user are never in it together.                         *)
THEOREM AnnouncersExclusive == Spec => []OneAnnouncer
BY Inductive, PTL DEF IInv

(* A presence key outlives its user's connections only while the clean-up   *)
(* that deletes it is on its way, as long as no Redis call fails.           *)
THEOREM NoLeakedKey == Spec => []KeyNotLeaked
BY Inductive, PTL DEF IInv

-----------------------------------------------------------------------------
(* Type correctness, of every variable.                                     *)

LEMMA SendType ==
  ASSUME TypeOK, NEW g \in Goroutines, NEW e \in Event, NEW us \in SUBSET Users,
         StartBroadcast(g, e, us)
  PROVE  sending' \in [Goroutines -> Outbox(Event)]
<1>1. [event |-> e, users |-> us, conns |-> {}] \in Outbox(Event)
  BY DEF Outbox
<1>2. QED
  BY <1>1 DEF TypeOK, HubTypeOK, StartBroadcast

LEMMA EventType ==
  /\ \A us \in SUBSET Users : OnlineEvent(us) \in Event
  /\ \A u \in Users : OfflineEvent(u) \in Event
  /\ \A u \in Users : ListPeerIDs(u) \in SUBSET Users
BY DEF OnlineEvent, OfflineEvent, Event, ListPeerIDs

(* The steps of a connection's goroutine.                                   *)
LEMMA ConnTypeStep ==
  ASSUME TypeOK, NEW c \in Conns, Connect(c) \/ Step(c) \/ Drop(c)
  PROVE  TypeOK'
<1> USE UserOfAssumption, BoundsAssumption
<1>1. UserOf[c] \in Users /\ c \in Goroutines
  BY DEF Goroutines
<1>2. CASE Connect(c)
  BY <1>1, <1>2 DEF Connect, Register, Goto, TypeOK, HubTypeOK, Opening, Serving
<1>3. CASE MarkOnline(c)
  BY <1>1, <1>3 DEF MarkOnline, SetOnline, Fault, Goto, TypeOK, HubTypeOK, hubVars, Opening
<1>4. CASE AnnounceOnline(c)
  <2>1. sending' \in [Goroutines -> Outbox(Event)]
    BY <1>1, <1>4, SendType, EventType DEF AnnounceOnline
  <2>2. QED
    BY <1>1, <1>4, <2>1 DEF AnnounceOnline, Goto, TypeOK, HubTypeOK, Opening
<1>5. CASE BeginSnapshot(c)
  <2>1. [left |-> ListPeerIDs(UserOf[c]), found |-> {}]
          \in [left: SUBSET Users, found: SUBSET Users]
    BY <1>1, EventType
  <2>2. QED
    BY <1>1, <1>5, <2>1 DEF BeginSnapshot, Goto, TypeOK, HubTypeOK, hubVars, Serving
<1>6. CASE EnterReadLoop(c)
  BY <1>1, <1>6 DEF EnterReadLoop, Goto, TypeOK, HubTypeOK, hubVars, Serving
<1>7. CASE Disconnect(c)
  BY <1>1, <1>7 DEF Disconnect, Unregister, Goto, TypeOK, HubTypeOK, Closing
<1>8. CASE MarkOffline(c)
  BY <1>1, <1>8 DEF MarkOffline, SetOffline, Fault, Goto, TypeOK, HubTypeOK, hubVars, Closing
<1>9. CASE AnnounceOffline(c)
  <2>1. sending' \in [Goroutines -> Outbox(Event)]
    BY <1>1, <1>9, SendType, EventType DEF AnnounceOffline
  <2>2. QED
    BY <1>1, <1>9, <2>1 DEF AnnounceOffline, Goto, TypeOK, HubTypeOK, Closing
<1>10. CASE Finish(c)
  BY <1>1, <1>10 DEF Finish, Goto, TypeOK, HubTypeOK, hubVars
<1>11. CASE Drop(c)
  BY <1>11 DEF Drop, TypeOK, HubTypeOK, hubVars
<1>12. QED
  BY <1>2, <1>3, <1>4, <1>5, <1>6, <1>7, <1>8, <1>9, <1>10, <1>11 DEF Step

LEMMA NotifierTypeStep ==
  ASSUME TypeOK, NEW n \in Notifiers, AddMember(n) \/ NotifyStep(n)
  PROVE  TypeOK'
<1> USE BoundsAssumption
<1>1. n \in Goroutines /\ target[n].user \in Users /\ target[n].conv \in Convs
        /\ target[n].others \in SUBSET Users
  BY DEF Goroutines, TypeOK
<1>2. CASE AddMember(n)
  BY <1>1, <1>2 DEF AddMember, Goto, TypeOK, HubTypeOK, hubVars, NotifySteps
<1>3. CASE ListOthers(n)
  <2> DEFINE others == members[target[n].conv] \ {target[n].user}
  <2>1. others \in SUBSET Users
    BY <1>1 DEF TypeOK
  <2>2. target' = [target EXCEPT ![n].others = others]
        /\ probe' = [probe EXCEPT ![n] = [left |-> others, found |-> {}]]
    BY <1>3 DEF ListOthers
  <2>3. probe' \in [Goroutines -> [left: SUBSET Users, found: SUBSET Users]]
    BY <1>1, <2>1, <2>2 DEF TypeOK
  <2>4. target' \in [Notifiers -> [user: Users, conv: Convs, others: SUBSET Users]]
    BY <2>1, <2>2 DEF TypeOK
  <2>5. QED
    BY <1>1, <1>3, <2>3, <2>4 DEF ListOthers, Goto, TypeOK, HubTypeOK, hubVars, NotifySteps
<1>4. CASE AnnounceNewMember(n)
  <2>1. CASE /\ StartBroadcast(n, OnlineEvent({target[n].user}), target[n].others)
             /\ Goto(n, "announcing") /\ UNCHANGED faults
    <3>1. sending' \in [Goroutines -> Outbox(Event)]
      BY <1>1, <2>1, SendType, EventType
    <3>2. QED
      BY <1>1, <1>4, <2>1, <3>1
         DEF AnnounceNewMember, Goto, TypeOK, HubTypeOK, NotifySteps
  <2>2. CASE (UNCHANGED faults \/ Fault) /\ Goto(n, "done") /\ UNCHANGED sending
    BY <1>1, <1>4, <2>2 DEF AnnounceNewMember, Fault, Goto, TypeOK, HubTypeOK
  <2>3. QED
    BY <1>4, <2>1, <2>2 DEF AnnounceNewMember
<1>5. CASE NotifyDone(n)
  BY <1>1, <1>5 DEF NotifyDone, Goto, TypeOK, HubTypeOK, hubVars
<1>6. QED
  BY <1>2, <1>3, <1>4, <1>5 DEF NotifyStep

LEMMA BroadcastTypeStep ==
  ASSUME TypeOK, NEW g \in Goroutines, Broadcast(g) \/ ListFails(g)
  PROVE  TypeOK'
<1> USE UserOfAssumption, BoundsAssumption
<1>1. CASE ProbePeer(g)
  <2>1. PICK u \in probe[g].left :
          \/ /\ probe' = [probe EXCEPT ![g].left = @ \ {u},
                                       ![g].found = @ \cup ({u} \cap key)]
             /\ UNCHANGED faults
          \/ Fault /\ probe' = [probe EXCEPT ![g].left = @ \ {u}]
    BY <1>1 DEF ProbePeer
  <2>2. probe' \in [Goroutines -> [left: SUBSET Users, found: SUBSET Users]]
    BY <2>1 DEF TypeOK
  <2>3. faults' \in 0..MaxFaults
    BY <2>1 DEF TypeOK, Fault
  <2>4. QED
    BY <1>1, <2>2, <2>3 DEF ProbePeer, TypeOK, HubTypeOK, hubVars
<1>2. CASE SendSnapshot(g)
  <2>1. Recipient(g) \in Users
    BY DEF Recipient, TypeOK, Goroutines
  <2>2. probe[g].found \in SUBSET Users
    BY DEF TypeOK
  <2>3. sending' \in [Goroutines -> Outbox(Event)]
    BY <1>2, <2>1, <2>2, SendType, EventType DEF SendSnapshot
  <2>4. QED
    BY <1>2, <2>3 DEF SendSnapshot, Goto, TypeOK, HubTypeOK, Serving
<1>3. CASE NextRecipient(g)
  <2>1. PICK u \in sending[g].users :
          sending' = [sending EXCEPT ![g].users = @ \ {u}, ![g].conns = clients[u]]
    BY <1>3 DEF NextRecipient, PickRecipient
  <2>2. clients[u] \in SUBSET Conns /\ sending[g] \in Outbox(Event)
    BY DEF TypeOK, HubTypeOK, Outbox
  <2>3. sending' \in [Goroutines -> Outbox(Event)]
    BY <2>1, <2>2 DEF TypeOK, HubTypeOK, Outbox
  <2>4. QED
    BY <1>3, <2>3 DEF NextRecipient, PickRecipient, presenceVars, TypeOK, HubTypeOK
<1>4. ASSUME NEW c \in Conns, Deliver(g, c) PROVE TypeOK'
  <2>1. sending' \in [Goroutines -> Outbox(Event)]
    <3>1. sending[g] \in Outbox(Event) /\ sending \in [Goroutines -> Outbox(Event)]
      BY DEF TypeOK, HubTypeOK
    <3>2. [sending[g] EXCEPT !.conns = @ \ {c}] \in Outbox(Event)
      BY <3>1 DEF Outbox
    <3>3. sending' = [sending EXCEPT ![g] = [sending[g] EXCEPT !.conns = @ \ {c}]]
      BY <1>4 DEF Deliver, WriteTo
    <3>4. QED
      BY <3>1, <3>2, <3>3
  <2>2. TabOf[c] \in Tabs /\ view[TabOf[c]] \in SUBSET Users
    BY TabOfAssumption DEF TypeOK
  <2>3. sending[g].event.add \in SUBSET Users
    BY DEF TypeOK, HubTypeOK, Outbox, Event
  <2>4. view' \in [Tabs -> SUBSET Users]
    BY <1>4, <2>2, <2>3 DEF Deliver, TypeOK
  <2>5. QED
    BY <1>4, <2>1, <2>4 DEF Deliver, WriteTo, TypeOK, HubTypeOK
<1>5. CASE ListFails(g)
  <2>1. PICK l \in {"snapshot", "reading", "done"} : Goto(g, l)
    BY <1>5 DEF ListFails
  <2>2. pc' \in [Goroutines -> {"new", "done"} \cup Opening \cup Serving
                                 \cup Closing \cup NotifySteps]
    BY <2>1 DEF Goto, TypeOK, Serving
  <2>3. QED
    BY <1>5, <2>2 DEF ListFails, Fault, TypeOK, HubTypeOK, hubVars
<1>6. QED
  BY <1>1, <1>2, <1>3, <1>4, <1>5 DEF Broadcast

LEMMA InitType == Init => TypeOK
<1>1. [event |-> OnlineEvent({}), users |-> {}, conns |-> {}] \in Outbox(Event)
  BY DEF OnlineEvent, Outbox, Event
<1>2. QED
  BY <1>1, FoundersAssumption, BoundsAssumption DEF Init, HubInit, TypeOK, HubTypeOK

LEMMA StepType == TypeOK /\ [Next]_vars => TypeOK'
<1> SUFFICES ASSUME TypeOK, [Next]_vars PROVE TypeOK'
  OBVIOUS
<1>1. ASSUME NEW u \in Users, Expire(u) PROVE TypeOK'
  BY <1>1 DEF Expire, TypeOK, HubTypeOK, hubVars
<1>2. CASE Crash
  <2>1. [event |-> OnlineEvent({}), users |-> {}, conns |-> {}] \in Outbox(Event)
    BY DEF OnlineEvent, Outbox, Event
  <2>2. clients' \in [Users -> SUBSET Conns] /\ sending' \in [Goroutines -> Outbox(Event)]
    BY <1>2, <2>1 DEF Crash
  <2>3. pc' \in [Goroutines -> {"new", "done"} \cup Opening \cup Serving
                                 \cup Closing \cup NotifySteps]
    BY <1>2 DEF Crash
  <2>4. faults' \in 0..MaxFaults
    BY <1>2, BoundsAssumption DEF Crash, Fault, TypeOK
  <2>5. QED
    BY <1>2, <2>2, <2>3, <2>4 DEF Crash, TypeOK, HubTypeOK
<1>3. CASE UNCHANGED vars
  BY <1>3 DEF vars, presenceVars, TypeOK, HubTypeOK
<1>4. QED
  BY <1>1, <1>2, <1>3, ConnTypeStep, NotifierTypeStep, BroadcastTypeStep DEF Next

(* Every variable keeps its type, whatever fails and however the goroutines *)
(* interleave: connections are filed under users, events carry user ids and *)
(* no bound is exceeded.                                                    *)
THEOREM TypeCorrect == Spec => []TypeOK
BY InitType, StepType, PTL DEF Spec

-----------------------------------------------------------------------------
(* Who is told of whom.  Steady users have lost none of their connections.  *)
(* While nothing fails, a connection is told of every steady peer who is    *)
(* there, by the peer's own announcement, by the snapshot it asks for, by a *)
(* notifier, or by an event under way.                                      *)

Steady(u) ==
  \A d \in Conns : UserOf[d] = u => pc[d] = "new" \/ (Registered(d) /\ d \in up)

Here(u) == \E d \in Conns : UserOf[d] = u /\ Registered(d)

Announces(d, u) == UserOf[d] = u /\ pc[d] \in {"setOnline", "announce"}

Sends(g, c, u) ==
  /\ u \in sending[g].event.add
  /\ UserOf[c] \in sending[g].users \/ c \in sending[g].conns

Probes(g, u) == pc[g] = "probing" /\ u \in probe[g].left \cup probe[g].found

Asks(c, u) ==
  pc[c] \in {"setOnline", "announce", "announcing", "snapshot"} \/ Probes(c, u)

Welcomes(n, w, u) ==
  /\ target[n].user = w
  /\ Probes(n, u) \/ (pc[n] = "list" /\ u \in members[target[n].conv])

Presents(n, w, u) ==
  /\ target[n].user = u
  /\ \/ pc[n] = "list" /\ w \in members[target[n].conv]
     \/ pc[n] \in {"probing", "snapshotting"} /\ w \in target[n].others

(* What goroutine g still has to do with c's being told of u.               *)
Owes(g, c, u) ==
  \/ Sends(g, c, u)
  \/ g \in Conns /\ Announces(g, u)
  \/ g = c /\ Asks(c, u)
  \/ g \in Notifiers /\ (Welcomes(g, UserOf[c], u) \/ Presents(g, UserOf[c], u))

Told(c, u) == u \in view[TabOf[c]] \/ \E g \in Goroutines : Owes(g, c, u)

UpRegistered == \A c \in up : Registered(c)

Silent ==
  \A g \in Goroutines :
    pc[g] \in {"announcing", "snapshotting", "announcingOff"} \/ Idle(g)

FarewellsOfLeavers ==
  \A g \in Goroutines, u \in Users : u \in sending[g].event.remove =>
    \E d \in Conns : UserOf[d] = u /\ pc[d] \in Closing \cup {"done"}

KeySet ==
  \A u \in Users : Steady(u) /\ Here(u) =>
    u \in key \/ \E d \in Conns : UserOf[d] = u /\ pc[d] = "setOnline"

PeersTold ==
  \A c \in up, u \in Users :
    Steady(u) /\ Here(u) /\ u \in ListPeerIDs(UserOf[c]) => Told(c, u)

Knowing ==
  /\ TypeOK /\ IInv
  /\ UpRegistered /\ Silent
  /\ faults = 0 => FarewellsOfLeavers /\ KeySet /\ PeersTold

-----------------------------------------------------------------------------
LEMMA GoroutineKinds ==
  /\ Conns \subseteq Goroutines /\ Notifiers \subseteq Goroutines
  /\ \A n \in Notifiers : n \notin Conns
BY NotifiersAssumption DEF Goroutines

(* A goroutine's own steps leave alone what the others owe.                 *)
LEMMA OthersOwe ==
  ASSUME NEW g \in Goroutines, NEW h \in Goroutines \ {g}, NEW c \in Conns, NEW u \in Users,
         TypeOK, Owes(h, c, u), pc'[h] = pc[h], probe'[h] = probe[h], sending'[h] = sending[h],
         h \in Notifiers => target'[h] = target[h],
         \A v \in Convs : members[v] \subseteq members'[v]
  PROVE  Owes(h, c, u)'
<1>1. h \in Notifiers => target[h].conv \in Convs
  BY DEF TypeOK
<1>2. Sends(h, c, u) => Sends(h, c, u)'
  BY DEF Sends
<1>3. Announces(h, u) => Announces(h, u)'
  BY DEF Announces
<1>4. h = c /\ Asks(c, u) => Asks(c, u)'
  BY DEF Asks, Probes
<1>5. h \in Notifiers =>
        /\ Welcomes(h, UserOf[c], u) => Welcomes(h, UserOf[c], u)'
        /\ Presents(h, UserOf[c], u) => Presents(h, UserOf[c], u)'
  BY <1>1 DEF Welcomes, Presents, Probes
<1> QED BY <1>2, <1>3, <1>4, <1>5 DEF Owes

LEMMA ToldStill ==
  ASSUME NEW g \in Goroutines, NEW c \in Conns, NEW u \in Users, TypeOK, Told(c, u),
         \A h \in Goroutines \ {g} :
           /\ pc'[h] = pc[h] /\ probe'[h] = probe[h] /\ sending'[h] = sending[h]
           /\ h \in Notifiers => target'[h] = target[h],
         \A v \in Convs : members[v] \subseteq members'[v],
         u \in view[TabOf[c]] => u \in view'[TabOf[c]],
         Owes(g, c, u) => Told(c, u)'
  PROVE  Told(c, u)'
<1>1. CASE u \in view[TabOf[c]]
  BY <1>1 DEF Told
<1>2. CASE Owes(g, c, u)
  BY <1>2
<1>3. ASSUME NEW h \in Goroutines \ {g}, Owes(h, c, u) PROVE Told(c, u)'
  BY <1>3, OthersOwe DEF Told
<1> QED BY <1>1, <1>2, <1>3 DEF Told

(* A steady user was steady before.                                         *)
LEMMA SteadyBefore ==
  ASSUME Knowing, [Next]_vars, faults' = 0, NEW u \in Users, Steady(u)'
  PROVE  Steady(u)
<1> SUFFICES ASSUME NEW d \in Conns, UserOf[d] = u, pc[d] # "new"
             PROVE  Registered(d) /\ d \in up
  BY DEF Steady
<1>1. pc \in [Goroutines -> {"new", "done"} \cup Opening \cup Serving \cup Closing \cup NotifySteps]
        /\ d \in Goroutines /\ faults \in Nat
  BY GoroutineKinds DEF Knowing, IInv, LifecycleTypeOK
<1>2. pc'[d] = "new" \/ (Registered(d)' /\ d \in up')
  BY DEF Steady
<1>3. ~Fault
  BY <1>1 DEF Fault
<1>4. pc'[d] # "new" /\ (Registered(d)' => Registered(d)) /\ (d \in up' => d \in up)
  <2>1. ASSUME NEW c \in Conns, Connect(c) \/ Drop(c)
        PROVE  pc'[d] # "new" /\ (Registered(d)' => Registered(d)) /\ (d \in up' => d \in up)
    BY <1>1, <2>1, GoroutineKinds DEF Connect, Drop, Goto, Registered
  <2>2. ASSUME NEW c \in Conns, Step(c)
        PROVE  pc'[d] # "new" /\ (Registered(d)' => Registered(d)) /\ (d \in up' => d \in up)
    BY <1>1, <2>2, GoroutineKinds
       DEF Step, MarkOnline, AnnounceOnline, BeginSnapshot, EnterReadLoop, Disconnect, MarkOffline,
           AnnounceOffline, Finish, Goto, Registered, Opening, Serving, hubVars
  <2>3. ASSUME NEW n \in Notifiers, AddMember(n) \/ NotifyStep(n)
        PROVE  pc'[d] # "new" /\ (Registered(d)' => Registered(d)) /\ (d \in up' => d \in up)
    BY <1>1, <2>3, GoroutineKinds DEF AddMember, NotifyStep, ListOthers, AnnounceNewMember,
           NotifyDone, Goto, Registered
  <2>4. ASSUME NEW g \in Goroutines, Broadcast(g)
        PROVE  pc'[d] # "new" /\ (Registered(d)' => Registered(d)) /\ (d \in up' => d \in up)
    BY <1>1, <2>4 DEF Broadcast, ProbePeer, SendSnapshot, NextRecipient, Deliver, presenceVars,
           Goto, Registered, Opening, Serving
  <2>5. ASSUME NEW g \in Goroutines, ListFails(g) PROVE FALSE
    BY <1>3, <2>5 DEF ListFails
  <2>6. CASE Crash
    BY <1>3, <2>6 DEF Crash
  <2>7. ASSUME (\E w \in Users : Expire(w)) \/ UNCHANGED vars
        PROVE  pc'[d] # "new" /\ (Registered(d)' => Registered(d)) /\ (d \in up' => d \in up)
    BY <1>1, <2>7 DEF Expire, vars, presenceVars, Registered
  <2> QED BY <2>1, <2>2, <2>3, <2>4, <2>5, <2>6, <2>7 DEF Next
<1> QED BY <1>2, <1>4

-----------------------------------------------------------------------------
(* What is owed stays owed, or is paid: the acting goroutine's own part.    *)

LEMMA Faultless ==
  ASSUME Knowing, [Next]_vars, faults' = 0
  PROVE  /\ faults = 0 /\ ~Fault /\ ~Crash /\ \A g \in Goroutines : ~ListFails(g)
         /\ FarewellsOfLeavers /\ KeySet /\ PeersTold
<1>1. faults \in Nat
  BY DEF Knowing, IInv, LifecycleTypeOK
<1>2. ~Fault
  BY <1>1 DEF Fault
<1>3. ~Crash /\ \A g \in Goroutines : ~ListFails(g)
  BY <1>2 DEF Crash, ListFails
<1>4. faults' = faults
  <2>1. ASSUME NEW c \in Conns, Connect(c) \/ Step(c) \/ Drop(c) PROVE faults' = faults
    BY <1>2, <2>1 DEF Connect, Step, Drop, MarkOnline, SetOnline, AnnounceOnline, BeginSnapshot,
       EnterReadLoop, Disconnect, MarkOffline, SetOffline, AnnounceOffline, Finish
  <2>2. ASSUME NEW n \in Notifiers, AddMember(n) \/ NotifyStep(n) PROVE faults' = faults
    BY <1>2, <2>2 DEF AddMember, NotifyStep, ListOthers, AnnounceNewMember, NotifyDone
  <2>3. ASSUME NEW g \in Goroutines, Broadcast(g) PROVE faults' = faults
    BY <1>2, <2>3 DEF Broadcast, ProbePeer, SendSnapshot, NextRecipient, Deliver, presenceVars
  <2>4. ASSUME (\E w \in Users : Expire(w)) \/ UNCHANGED vars PROVE faults' = faults
    BY <2>4 DEF Expire, vars, presenceVars
  <2> QED BY <1>3, <2>1, <2>2, <2>3, <2>4 DEF Next
<1> QED BY <1>2, <1>3, <1>4 DEF Knowing

(* Of a steady user nobody is gone, and one is there while it is here.      *)
LEMMA SteadyMeans ==
  ASSUME NEW u \in Users, Steady(u), NEW d \in Conns, UserOf[d] = u
  PROVE  pc[d] \notin Closing \cup {"done"}
BY Labels DEF Steady, Registered, Opening, Serving, Closing

LEMMA StillToldConn ==
  ASSUME Knowing, [Next]_vars, faults' = 0, NEW c \in up, NEW u \in Users,
         u \in ListPeerIDs(UserOf[c]), Told(c, u), NEW x \in Conns,
         Connect(x) \/ Step(x) \/ Drop(x)
  PROVE  Told(c, u)'
<1>1. TypeOK /\ UpRegistered /\ Silent /\ x \in Goroutines /\ c \in Conns /\ UserOf[c] \in Users
        /\ UserOf[x] \in Users
  BY GoroutineKinds, UserOfAssumption DEF Knowing, TypeOK
<1>2. /\ pc \in [Goroutines -> {"new", "done"} \cup Opening \cup Serving
                              \cup Closing \cup NotifySteps]
      /\ sending \in [Goroutines -> Outbox(Event)]
      /\ probe \in [Goroutines -> [left: SUBSET Users, found: SUBSET Users]]
  BY <1>1 DEF TypeOK, HubTypeOK
<1>3. ~Fault /\ x \notin Notifiers
  BY Faultless, GoroutineKinds
<1> DEFINE Rest == /\ \A h \in Goroutines \ {x} :
                        /\ pc'[h] = pc[h] /\ probe'[h] = probe[h] /\ sending'[h] = sending[h]
                        /\ h \in Notifiers => target'[h] = target[h]
                   /\ \A v \in Convs : members[v] \subseteq members'[v]
                   /\ view' = view
<1>4. ASSUME Rest, Owes(x, c, u) => Owes(x, c, u)' PROVE Told(c, u)'
  <2>1. Owes(x, c, u) => Told(c, u)'
    BY <1>1, <1>4 DEF Told
  <2> QED BY <1>1, <1>4, <2>1, ToldStill
<1>5. ASSUME Connect(x) \/ Drop(x) PROVE Told(c, u)'
  <2>1. Rest
    BY <1>2, <1>5 DEF Connect, Drop, Goto, hubVars
  <2>2. Owes(x, c, u) => Owes(x, c, u)'
    <3>1. CASE Connect(x)
      <4>1. x # c /\ ~Announces(x, u) /\ sending' = sending
        BY <1>1, <3>1, Labels DEF Connect, UpRegistered, Registered, Announces
      <4> QED BY <1>3, <4>1 DEF Owes, Sends
    <3>2. CASE Drop(x)
      BY <1>3, <3>2 DEF Drop, hubVars, Owes, Sends, Announces, Asks, Probes
    <3> QED BY <1>5, <3>1, <3>2
  <2> QED BY <1>4, <2>1, <2>2
<1>6. CASE MarkOnline(x)
  <2>1. Rest
    BY <1>2, <1>6 DEF MarkOnline, Goto, hubVars
  <2>2. pc'[x] = "announce" /\ sending' = sending
    BY <1>1, <1>2, <1>6 DEF MarkOnline, Goto, hubVars
  <2>3. Owes(x, c, u) => Owes(x, c, u)'
    BY <1>3, <1>6, <2>2 DEF MarkOnline, Owes, Sends, Announces, Asks, Probes
  <2> QED BY <1>4, <2>1, <2>3
<1>7. CASE AnnounceOnline(x)
  <2>1. Rest
    BY <1>1, <1>2, <1>7 DEF AnnounceOnline, Goto, StartBroadcast
  <2>2. /\ pc[x] = "announce" /\ pc'[x] = "announcing" /\ Idle(x)
        /\ sending'[x].event.add = {UserOf[x]} /\ sending'[x].users = ListPeerIDs(UserOf[x])
    BY <1>1, <1>2, <1>7 DEF AnnounceOnline, Goto, StartBroadcast, OnlineEvent
  <2>3. UserOf[x] = u => UserOf[c] \in ListPeerIDs(UserOf[x])
    BY <1>1 DEF ListPeerIDs
  <2>4. Announces(x, u) => Sends(x, c, u)'
    BY <2>2, <2>3 DEF Announces, Sends
  <2>5. ~Sends(x, c, u) /\ (Asks(x, u) => Asks(x, u)')
    BY <2>2 DEF Sends, Idle, Asks
  <2>6. Owes(x, c, u) => Owes(x, c, u)'
    BY <1>3, <2>4, <2>5 DEF Owes
  <2> QED BY <1>4, <2>1, <2>6
<1>8. CASE BeginSnapshot(x)
  <2>1. Rest
    BY <1>1, <1>2, <1>8 DEF BeginSnapshot, Goto, hubVars
  <2>2. /\ pc[x] \in {"announcing", "snapshot"} /\ Idle(x)
        /\ pc'[x] = "probing" /\ probe'[x].left = ListPeerIDs(UserOf[x])
    BY <1>1, <1>2, <1>8 DEF BeginSnapshot, Goto, Silent
  <2>3. ~Sends(x, c, u) /\ ~Announces(x, u) /\ (x = c => Asks(x, u)')
    BY <2>2 DEF Sends, Idle, Announces, Asks, Probes
  <2>4. Owes(x, c, u) => Owes(x, c, u)'
    BY <1>3, <2>3 DEF Owes
  <2> QED BY <1>4, <2>1, <2>4
<1>9. ASSUME EnterReadLoop(x) \/ Disconnect(x) \/ MarkOffline(x) \/ AnnounceOffline(x) \/ Finish(x)
      PROVE  Told(c, u)'
  <2>1. Rest
    BY <1>1, <1>2, <1>9 DEF EnterReadLoop, Disconnect, MarkOffline, AnnounceOffline, Finish,
       StartBroadcast, Goto, hubVars
  <2>2. /\ pc[x] \in {"snapshotting", "reading", "setOffline", "announceOff", "announcingOff"}
        /\ Idle(x)
    BY <1>1, <1>9 DEF EnterReadLoop, Disconnect, MarkOffline, AnnounceOffline, Finish, Silent
  <2>3. ~Owes(x, c, u)
    BY <1>3, <2>2 DEF Owes, Sends, Idle, Announces, Asks, Probes
  <2> QED BY <1>4, <2>1, <2>3
<1> QED BY <1>5, <1>6, <1>7, <1>8, <1>9 DEF Step

LEMMA StillToldNotifier ==
  ASSUME Knowing, [Next]_vars, faults' = 0, NEW c \in up, NEW u \in Users,
         Steady(u), Here(u), u \in ListPeerIDs(UserOf[c]), Told(c, u), NEW n \in Notifiers,
         AddMember(n) \/ NotifyStep(n)
  PROVE  Told(c, u)'
<1>1. TypeOK /\ Silent /\ n \in Goroutines /\ c \in Conns /\ UserOf[c] \in Users
        /\ u # UserOf[c]
  BY GoroutineKinds, UserOfAssumption DEF Knowing, TypeOK, ListPeerIDs
<1>2. /\ pc \in [Goroutines -> {"new", "done"} \cup Opening \cup Serving
                              \cup Closing \cup NotifySteps]
      /\ sending \in [Goroutines -> Outbox(Event)]
      /\ probe \in [Goroutines -> [left: SUBSET Users, found: SUBSET Users]]
      /\ target \in [Notifiers -> [user: Users, conv: Convs, others: SUBSET Users]]
      /\ members \in [Convs -> SUBSET Users]
  BY <1>1 DEF TypeOK, HubTypeOK
<1>3. ~Fault /\ KeySet /\ n \notin Conns
  BY Faultless, GoroutineKinds
<1> DEFINE Rest == /\ \A h \in Goroutines \ {n} :
                        /\ pc'[h] = pc[h] /\ probe'[h] = probe[h] /\ sending'[h] = sending[h]
                        /\ h \in Notifiers => target'[h] = target[h]
                   /\ \A v \in Convs : members[v] \subseteq members'[v]
                   /\ view' = view
<1>4. ASSUME Rest, Owes(n, c, u) => Told(c, u)' PROVE Told(c, u)'
  BY <1>1, <1>4, ToldStill
<1>5. ASSUME AddMember(n) \/ NotifyDone(n) PROVE Told(c, u)'
  <2>1. Rest
    BY <1>1, <1>2, <1>5 DEF AddMember, NotifyDone, Goto, hubVars
  <2>2. pc[n] \in {"new", "announcing"} /\ Idle(n)
    BY <1>1, <1>5 DEF AddMember, NotifyDone, Silent
  <2>3. ~Owes(n, c, u)
    BY <1>3, <2>2, <1>1 DEF Owes, Sends, Idle, Welcomes, Presents, Probes
  <2> QED BY <1>4, <2>1, <2>3
<1>6. CASE ListOthers(n)
  <2>1. Rest
    BY <1>1, <1>2, <1>6 DEF ListOthers, Goto, hubVars
  <2> DEFINE others == members[target[n].conv] \ {target[n].user}
  <2>2. /\ pc[n] = "list" /\ pc'[n] = "probing" /\ Idle(n)
        /\ target'[n].user = target[n].user /\ target'[n].others = others
        /\ probe'[n].left = others
    BY <1>1, <1>2, <1>6 DEF ListOthers, Goto, Silent
  <2>3. ~Sends(n, c, u)
    BY <2>2 DEF Sends, Idle
  <2>4. Welcomes(n, UserOf[c], u) => Welcomes(n, UserOf[c], u)'
    BY <1>1, <2>2 DEF Welcomes, Probes
  <2>5. Presents(n, UserOf[c], u) => Presents(n, UserOf[c], u)'
    BY <1>1, <2>2 DEF Presents
  <2>6. Owes(n, c, u) => Told(c, u)'
    BY <1>1, <1>3, <2>3, <2>4, <2>5 DEF Owes, Told
  <2> QED BY <1>4, <2>1, <2>6
<1>7. CASE AnnounceNewMember(n)
  <2>1. Rest
    BY <1>1, <1>2, <1>7 DEF AnnounceNewMember, StartBroadcast, Goto
  <2>2. /\ pc[n] = "snapshotting" /\ Idle(n)
        /\ target[n].user \in key => /\ sending'[n].event.add = {target[n].user}
                                     /\ sending'[n].users = target[n].others
    BY <1>1, <1>2, <1>3, <1>7 DEF AnnounceNewMember, StartBroadcast, OnlineEvent
  <2>3. ~Sends(n, c, u) /\ ~Welcomes(n, UserOf[c], u)
    BY <2>2 DEF Sends, Idle, Welcomes, Probes
  <2>4. CASE u \in key
    <3>1. Presents(n, UserOf[c], u) => Sends(n, c, u)'
      BY <2>2, <2>4 DEF Presents, Sends
    <3> QED BY <1>1, <1>3, <1>4, <2>1, <2>3, <3>1 DEF Owes, Told
  <2>5. CASE u \notin key
    <3>1. PICK d \in Conns : UserOf[d] = u /\ pc[d] = "setOnline"
      BY <1>1, <1>3, <2>5 DEF KeySet
    <3>2. Announces(d, u)' /\ d \in Goroutines
      BY <1>3, <2>1, <3>1, GoroutineKinds DEF Announces
    <3> QED BY <3>2 DEF Owes, Told
  <2> QED BY <2>4, <2>5
<1> QED BY <1>5, <1>6, <1>7 DEF NotifyStep

LEMMA StillToldBroadcast ==
  ASSUME Knowing, [Next]_vars, faults' = 0, NEW c \in up, NEW u \in Users,
         Steady(u), Here(u), u \in ListPeerIDs(UserOf[c]), Told(c, u), NEW g \in Goroutines,
         Broadcast(g)
  PROVE  Told(c, u)'
<1>1. TypeOK /\ IInv /\ UpRegistered /\ Silent /\ c \in Conns /\ UserOf[c] \in Users
        /\ u # UserOf[c]
  BY UserOfAssumption DEF Knowing, TypeOK, ListPeerIDs
<1>2. /\ pc \in [Goroutines -> {"new", "done"} \cup Opening \cup Serving
                              \cup Closing \cup NotifySteps]
      /\ sending \in [Goroutines -> Outbox(Event)]
      /\ probe \in [Goroutines -> [left: SUBSET Users, found: SUBSET Users]]
      /\ view \in [Tabs -> SUBSET Users] /\ TabOf[c] \in Tabs
  BY <1>1, TabOfAssumption DEF TypeOK, HubTypeOK
<1>3. ~Fault /\ KeySet /\ FarewellsOfLeavers
  BY Faultless
<1> DEFINE Rest == /\ \A h \in Goroutines \ {g} :
                        /\ pc'[h] = pc[h] /\ probe'[h] = probe[h] /\ sending'[h] = sending[h]
                        /\ h \in Notifiers => target'[h] = target[h]
                   /\ \A v \in Convs : members[v] \subseteq members'[v]
                   /\ u \in view[TabOf[c]] => u \in view'[TabOf[c]]
<1>4. ASSUME Rest, Owes(g, c, u) => Told(c, u)' PROVE Told(c, u)'
  BY <1>1, <1>4, ToldStill
<1>5. CASE ProbePeer(g)
  <2>1. Rest
    BY <1>1, <1>2, <1>5 DEF ProbePeer, hubVars
  <2>2. pc[g] = "probing" /\ pc' = pc /\ sending' = sending /\ target' = target
    BY <1>5 DEF ProbePeer, hubVars
  <2>3. CASE u \in key
    <3>1. u \in probe[g].left \cup probe[g].found => u \in (probe'[g].left \cup probe'[g].found)
      BY <1>2, <1>3, <1>5, <2>3 DEF ProbePeer
    <3>2. Probes(g, u) => Probes(g, u)'
      BY <2>2, <3>1 DEF Probes
    <3>3. Owes(g, c, u) => Owes(g, c, u)'
      BY <2>2, <3>2 DEF Owes, Sends, Announces, Asks, Welcomes, Presents
    <3> QED BY <1>4, <2>1, <3>3 DEF Told
  <2>4. CASE u \notin key
    <3>1. PICK d \in Conns : UserOf[d] = u /\ pc[d] = "setOnline"
      BY <1>3, <2>4 DEF KeySet
    <3>2. Announces(d, u)' /\ d \in Goroutines
      BY <2>2, <3>1, GoroutineKinds DEF Announces
    <3> QED BY <3>2 DEF Owes, Told
  <2> QED BY <2>3, <2>4
<1>6. CASE SendSnapshot(g)
  <2>1. Rest
    BY <1>1, <1>2, <1>6 DEF SendSnapshot, StartBroadcast, Goto
  <2>2. /\ pc[g] = "probing" /\ pc'[g] = "snapshotting" /\ probe[g].left = {} /\ Idle(g)
        /\ target' = target
    BY <1>2, <1>6 DEF SendSnapshot, StartBroadcast, Goto
  <2>3. sending'[g].event.add = probe[g].found /\ sending'[g].users = {Recipient(g)}
    BY <1>2, <1>6 DEF SendSnapshot, StartBroadcast, OnlineEvent
  <2>4. ~Sends(g, c, u) /\ ~Announces(g, u)
    BY <2>2 DEF Sends, Idle, Announces
  <2>5. g = c /\ Asks(c, u) => Sends(g, c, u)'
    BY <1>1, <2>2, <2>3 DEF Asks, Probes, Sends, Recipient
  <2>6. g \in Notifiers /\ Welcomes(g, UserOf[c], u) => Sends(g, c, u)'
    BY <1>1, <2>2, <2>3, GoroutineKinds DEF Welcomes, Probes, Sends, Recipient
  <2>7. Presents(g, UserOf[c], u) => Presents(g, UserOf[c], u)'
    BY <2>2 DEF Presents
  <2>8. Owes(g, c, u) => Owes(g, c, u)'
    BY <2>4, <2>5, <2>6, <2>7 DEF Owes
  <2> QED BY <1>4, <2>1, <2>8 DEF Told
<1>7. CASE NextRecipient(g)
  <2>1. Rest
    BY <1>1, <1>2, <1>7 DEF NextRecipient, PickRecipient, presenceVars
  <2>2. pc' = pc /\ probe' = probe /\ target' = target /\ members' = members
    BY <1>7 DEF NextRecipient, presenceVars
  <2>3. sending[g].conns = {}
    BY <1>7 DEF NextRecipient, PickRecipient
  <2>4. PICK w \in sending[g].users :
          sending' = [sending EXCEPT ![g].users = @ \ {w}, ![g].conns = clients[w]]
    BY <1>7 DEF NextRecipient, PickRecipient
  <2>5. /\ sending'[g].event = sending[g].event /\ sending'[g].users = sending[g].users \ {w}
        /\ sending'[g].conns = clients[w]
    BY <1>2, <2>4 DEF Outbox
  <2>6. c \in clients[UserOf[c]]
    BY <1>1 DEF UpRegistered, IInv, HubExact
  <2>7. Sends(g, c, u) => Sends(g, c, u)'
    BY <2>3, <2>5, <2>6 DEF Sends
  <2>8. Owes(g, c, u) => Owes(g, c, u)'
    BY <2>2, <2>7 DEF Owes, Announces, Asks, Welcomes, Presents, Probes
  <2> QED BY <1>4, <2>1, <2>8 DEF Told
<1>8. ASSUME NEW d \in Conns, Deliver(g, d) PROVE Told(c, u)'
  <2>1. u \notin sending[g].event.remove
    BY <1>3, SteadyMeans DEF FarewellsOfLeavers
  <2>2. pc' = pc /\ probe' = probe /\ target' = target /\ members' = members
    BY <1>8 DEF Deliver
  <2>3. u \in view[TabOf[c]] => u \in view'[TabOf[c]]
    BY <1>2, <1>8, <2>1 DEF Deliver
  <2>4. /\ sending'[g].event = sending[g].event /\ sending'[g].users = sending[g].users
        /\ sending'[g].conns = sending[g].conns \ {d}
        /\ \A h \in Goroutines \ {g} : sending'[h] = sending[h]
    BY <1>2, <1>8 DEF Deliver, WriteTo, Outbox
  <2>5. Rest
    BY <2>2, <2>3, <2>4
  <2>6. ASSUME Sends(g, c, u) PROVE Told(c, u)'
    <3>1. CASE c = d /\ u \in sending[g].event.add
      <4>1. u \in view'[TabOf[c]]
        BY <1>2, <1>8, <2>1, <3>1 DEF Deliver
      <4> QED BY <4>1 DEF Told
    <3>2. CASE c # d
      BY <2>4, <2>6, <3>2 DEF Sends, Told, Owes
    <3> QED BY <2>6, <3>1, <3>2 DEF Sends
  <2>7. ASSUME Owes(g, c, u), ~Sends(g, c, u) PROVE Told(c, u)'
    BY <2>2, <2>7 DEF Owes, Told, Announces, Asks, Welcomes, Presents, Probes
  <2> QED BY <1>4, <2>5, <2>6, <2>7
<1> QED BY <1>5, <1>6, <1>7, <1>8 DEF Broadcast

(* Whoever was told, or was about to be, still is.                          *)
LEMMA StillTold ==
  ASSUME Knowing, [Next]_vars, faults' = 0, NEW c \in up, NEW u \in Users,
         Steady(u), Here(u), u \in ListPeerIDs(UserOf[c]), Told(c, u)
  PROVE  Told(c, u)'
<1>1. ASSUME (\E w \in Users : Expire(w)) \/ UNCHANGED vars PROVE Told(c, u)'
  BY <1>1 DEF Expire, vars, presenceVars, hubVars, Told, Owes, Sends, Announces, Asks, Probes,
     Welcomes, Presents
<1> QED BY <1>1, Faultless, StillToldConn, StillToldNotifier, StillToldBroadcast DEF Next

-----------------------------------------------------------------------------
(* Who comes to be told: a connection opens, or a member is added.          *)

LEMMA PeersToldStep ==
  ASSUME Knowing, [Next]_vars, faults' = 0
  PROVE  PeersTold'
<1> SUFFICES ASSUME NEW c \in up', NEW u \in Users, Steady(u)', Here(u)',
                    u \in ListPeerIDs(UserOf[c])'
             PROVE  Told(c, u)'
  BY DEF PeersTold
<1>1. TypeOK /\ IInv /\ Steady(u) /\ PeersTold /\ Silent
  BY SteadyBefore, Faultless DEF Knowing
<1>2. /\ pc \in [Goroutines -> {"new", "done"} \cup Opening \cup Serving
                              \cup Closing \cup NotifySteps]
      /\ members \in [Convs -> SUBSET Users]
      /\ target \in [Notifiers -> [user: Users, conv: Convs, others: SUBSET Users]]
      /\ up \subseteq Conns
  BY <1>1 DEF TypeOK
<1>3. CASE c \in up /\ Here(u) /\ u \in ListPeerIDs(UserOf[c])
  <2>1. Told(c, u)
    BY <1>1, <1>3 DEF PeersTold
  <2> QED BY <1>1, <1>3, <2>1, StillTold
<1>4. ASSUME NEW x \in Conns, Connect(x) PROVE Told(c, u)'
  <2>1. up' = up \cup {x} /\ members' = members /\ x \in Goroutines
    BY <1>4, GoroutineKinds DEF Connect
  <2>2. pc'[x] = (IF IsFirst(x) THEN "setOnline" ELSE "snapshot")
        /\ \A h \in Goroutines \ {x} : pc'[h] = pc[h]
    BY <1>2, <1>4, <2>1 DEF Connect, Goto
  <2>3. CASE c = x
    <3>1. Asks(c, u)'
      BY <2>2, <2>3 DEF Asks
    <3> QED BY <2>1, <2>3, <3>1 DEF Told, Owes
  <2>4. CASE c # x /\ ~Here(u)
    <3>1. UserOf[x] = u
      BY <2>2, <2>4, GoroutineKinds DEF Here, Registered
    <3>2. IsFirst(x)
      BY <1>1, <2>4, <3>1 DEF IInv, LifecycleTypeOK, HubExact, IsFirst, Here
    <3>3. Announces(x, u)'
      BY <2>2, <3>1, <3>2 DEF Announces
    <3> QED BY <2>1, <3>3 DEF Told, Owes
  <2>5. c # x => c \in up /\ u \in ListPeerIDs(UserOf[c])
    BY <2>1 DEF ListPeerIDs
  <2> QED BY <1>3, <2>3, <2>4, <2>5
<1>5. ASSUME NEW n \in Notifiers, AddMember(n) PROVE Told(c, u)'
  <2> DEFINE v == target[n].conv
             m == target[n].user
             w == UserOf[c]
  <2>1. /\ pc' = [pc EXCEPT ![n] = "list"] /\ up' = up /\ target' = target
        /\ members' = [members EXCEPT ![v] = @ \cup {m}]
    BY <1>5 DEF AddMember, Goto
  <2>2. n \in Goroutines /\ pc'[n] = "list" /\ c \in up /\ w \in Users /\ v \in Convs
    BY <1>2, <2>1, GoroutineKinds, UserOfAssumption
  <2>3. Here(u)
    BY <1>2, <2>1, GoroutineKinds DEF Here, Registered
  <2>4. CASE u \in ListPeerIDs(w)
    BY <1>3, <2>2, <2>3, <2>4
  <2>5. CASE u \notin ListPeerIDs(w)
    <3>1. u # w /\ {u, w} \subseteq members'[v] /\ m \in {u, w}
      BY <1>2, <2>1, <2>2, <2>5 DEF ListPeerIDs
    <3>2. m = w => Welcomes(n, w, u)'
      BY <2>1, <2>2, <3>1 DEF Welcomes
    <3>3. m = u => Presents(n, w, u)'
      BY <2>1, <2>2, <3>1 DEF Presents
    <3> QED BY <2>2, <3>1, <3>2, <3>3 DEF Told, Owes
  <2> QED BY <2>4, <2>5
<1>6. ASSUME \A x \in Conns : ~Connect(x), \A n \in Notifiers : ~AddMember(n)
      PROVE  up' \subseteq up /\ members' = members /\ (Here(u)' => Here(u))
  <2>1. ASSUME NEW x \in Conns, Step(x) \/ Drop(x)
        PROVE  up' \subseteq up /\ members' = members /\ (Here(u)' => Here(u))
    <3>1. up' \subseteq up /\ members' = members
      BY <2>1 DEF Step, Drop, MarkOnline, AnnounceOnline, BeginSnapshot,
         EnterReadLoop, Disconnect, MarkOffline, AnnounceOffline, Finish
    <3>2. \A d \in Conns : Registered(d)' => Registered(d)
      BY <1>2, <2>1, GoroutineKinds DEF Step, Drop, MarkOnline, AnnounceOnline, BeginSnapshot,
         EnterReadLoop, Disconnect, MarkOffline, AnnounceOffline, Finish, Goto, Registered,
         Opening, Serving
    <3> QED BY <3>1, <3>2 DEF Here
  <2>2. ASSUME NEW n \in Notifiers, NotifyStep(n)
        PROVE  up' \subseteq up /\ members' = members /\ (Here(u)' => Here(u))
    BY <1>2, <2>2, GoroutineKinds DEF NotifyStep, ListOthers, AnnounceNewMember, NotifyDone, Goto,
       Here, Registered
  <2>3. ASSUME NEW g \in Goroutines, Broadcast(g)
        PROVE  up' \subseteq up /\ members' = members /\ (Here(u)' => Here(u))
    <3>1. up' = up /\ members' = members
      BY <2>3 DEF Broadcast, ProbePeer, SendSnapshot, NextRecipient, Deliver, presenceVars
    <3>2. \A d \in Conns : Registered(d)' => Registered(d)
      BY <1>2, <2>3, GoroutineKinds DEF Broadcast, ProbePeer, SendSnapshot, NextRecipient, Deliver,
         presenceVars, Goto, Registered, Opening, Serving
    <3> QED BY <3>1, <3>2 DEF Here
  <2>4. ASSUME (\E w \in Users : Expire(w)) \/ UNCHANGED vars
        PROVE  up' \subseteq up /\ members' = members /\ (Here(u)' => Here(u))
    BY <2>4 DEF Expire, vars, presenceVars, Here, Registered
  <2> QED BY <1>6, <2>1, <2>2, <2>3, <2>4, Faultless DEF Next
<1>7. ASSUME \A x \in Conns : ~Connect(x), \A n \in Notifiers : ~AddMember(n) PROVE Told(c, u)'
  <2>1. u \in ListPeerIDs(UserOf[c])
    BY <1>6, <1>7 DEF ListPeerIDs
  <2> QED BY <1>3, <1>6, <1>7, <2>1
<1> QED BY <1>4, <1>5, <1>7

-----------------------------------------------------------------------------
(* The other parts of the invariant                                         *)

LEMMA HubStep ==
  ASSUME Knowing, [Next]_vars
  PROVE  UpRegistered' /\ Silent'
<1>1. TypeOK /\ UpRegistered /\ Silent
  BY DEF Knowing
<1>2. /\ pc \in [Goroutines -> {"new", "done"} \cup Opening \cup Serving
                              \cup Closing \cup NotifySteps]
      /\ sending \in [Goroutines -> Outbox(Event)] /\ up \subseteq Conns
  BY <1>1 DEF TypeOK, HubTypeOK
<1>3. ASSUME NEW c \in Conns, Connect(c) \/ Drop(c) PROVE UpRegistered' /\ Silent'
  <2>1. UpRegistered'
    BY <1>1, <1>2, <1>3, GoroutineKinds DEF Connect, Drop, Goto, UpRegistered, Registered,
       Opening, Serving
  <2>2. Silent'
    BY <1>1, <1>2, <1>3, GoroutineKinds DEF Connect, Drop, Goto, Silent, Idle, hubVars
  <2> QED BY <2>1, <2>2
<1>4. ASSUME NEW c \in Conns, Step(c) PROVE UpRegistered' /\ Silent'
  <2>1. UpRegistered'
    <3>1. up' = up /\ \A d \in Conns : Registered(d) => Registered(d)' \/ d \notin up
      BY <1>2, <1>4, GoroutineKinds DEF Step, MarkOnline, AnnounceOnline, BeginSnapshot,
         EnterReadLoop, Disconnect, MarkOffline, AnnounceOffline, Finish, Goto, Registered,
         Opening, Serving
    <3> QED BY <1>1, <1>2, <3>1 DEF UpRegistered
  <2>2. /\ pc'[c] \in {"announcing", "announcingOff"} \/ (sending'[c] = sending[c] /\ Idle(c))
        /\ \A g \in Goroutines \ {c} : pc'[g] = pc[g] /\ sending'[g] = sending[g]
    BY <1>1, <1>2, <1>4, GoroutineKinds DEF Step, MarkOnline, AnnounceOnline, BeginSnapshot,
       EnterReadLoop, Disconnect, MarkOffline, AnnounceOffline, Finish, Goto, StartBroadcast,
       Silent, hubVars
  <2>3. Silent'
    BY <1>1, <2>2 DEF Silent, Idle
  <2> QED BY <2>1, <2>3
<1>5. ASSUME NEW n \in Notifiers, AddMember(n) \/ NotifyStep(n) PROVE UpRegistered' /\ Silent'
  <2>1. up' = up /\ \A d \in Conns : pc'[d] = pc[d]
    BY <1>2, <1>5, GoroutineKinds DEF AddMember, NotifyStep, ListOthers, AnnounceNewMember,
       NotifyDone, Goto
  <2>2. UpRegistered'
    BY <1>1, <1>2, <2>1 DEF UpRegistered, Registered
  <2>3. /\ pc'[n] = "announcing" \/ (sending'[n] = sending[n] /\ Idle(n))
        /\ \A g \in Goroutines \ {n} : pc'[g] = pc[g] /\ sending'[g] = sending[g]
    BY <1>1, <1>2, <1>5, GoroutineKinds DEF AddMember, NotifyStep, ListOthers, AnnounceNewMember,
       NotifyDone, Goto, StartBroadcast, Silent, hubVars
  <2>4. Silent'
    BY <1>1, <2>3 DEF Silent, Idle
  <2> QED BY <2>2, <2>4
<1>6. ASSUME NEW g \in Goroutines, ListFails(g) PROVE UpRegistered' /\ Silent'
  <2>1. up' = up /\ sending' = sending /\ \A h \in Goroutines \ {g} : pc'[h] = pc[h]
    BY <1>2, <1>6 DEF ListFails, Goto, hubVars
  <2>2. Registered(g) => Registered(g)'
    BY <1>2, <1>6 DEF ListFails, Goto, Registered, Opening, Serving
  <2>3. UpRegistered'
    BY <1>1, <1>2, <2>1, <2>2, GoroutineKinds DEF UpRegistered, Registered
  <2>4. Silent'
    BY <1>1, <1>6, <2>1 DEF ListFails, Silent, Idle
  <2> QED BY <2>3, <2>4
<1>7. ASSUME NEW g \in Goroutines, Broadcast(g) PROVE UpRegistered' /\ Silent'
  <2>1. /\ up' = up /\ \A h \in Goroutines \ {g} : pc'[h] = pc[h] /\ sending'[h] = sending[h]
    BY <1>2, <1>7 DEF Broadcast, ProbePeer, SendSnapshot, NextRecipient, Deliver, PickRecipient,
       WriteTo, StartBroadcast, presenceVars, hubVars, Goto
  <2>2. pc'[g] = pc[g] \/ (pc[g] = "probing" /\ pc'[g] = "snapshotting")
    BY <1>2, <1>7 DEF Broadcast, ProbePeer, SendSnapshot, NextRecipient, Deliver, presenceVars, Goto
  <2>3. UpRegistered'
    BY <1>1, <1>2, <2>1, <2>2, GoroutineKinds DEF UpRegistered, Registered, Opening, Serving
  <2>4. pc'[g] = "snapshotting" \/ (Idle(g) => sending'[g] = sending[g])
    BY <1>2, <1>7 DEF Broadcast, ProbePeer, SendSnapshot, NextRecipient, Deliver, PickRecipient,
       WriteTo, hubVars, Goto, Idle
  <2>5. Silent'
    BY <1>1, <2>1, <2>2, <2>4 DEF Silent, Idle
  <2> QED BY <2>3, <2>5
<1>8. ASSUME (\E u \in Users : Expire(u)) \/ UNCHANGED vars PROVE UpRegistered' /\ Silent'
  BY <1>1, <1>2, <1>8 DEF Expire, vars, hubVars, presenceVars, UpRegistered, Registered, Silent,
     Idle
<1>9. CASE Crash
  BY <1>9 DEF Crash, UpRegistered, Silent, Idle
<1> QED BY <1>3, <1>4, <1>5, <1>6, <1>7, <1>8, <1>9 DEF Next

LEMMA FarewellsStep ==
  ASSUME Knowing, [Next]_vars, faults' = 0
  PROVE  FarewellsOfLeavers'
<1>1. TypeOK /\ FarewellsOfLeavers
  BY Faultless DEF Knowing
<1>2. /\ pc \in [Goroutines -> {"new", "done"} \cup Opening \cup Serving
                              \cup Closing \cup NotifySteps]
      /\ sending \in [Goroutines -> Outbox(Event)]
  BY <1>1 DEF TypeOK, HubTypeOK
<1> DEFINE Gone(d) == pc[d] \in Closing \cup {"done"}
           Same(g) == sending'[g].event.remove \subseteq sending[g].event.remove
<1>3. ASSUME \A d \in Conns : Gone(d) => Gone(d)', \A g \in Goroutines : Same(g)
      PROVE  FarewellsOfLeavers'
  BY <1>1, <1>3 DEF FarewellsOfLeavers
<1>4. ASSUME NEW c \in Conns, Connect(c) \/ Drop(c) PROVE FarewellsOfLeavers'
  <2>1. \A d \in Conns : Gone(d) => Gone(d)'
    BY <1>2, <1>4, GoroutineKinds DEF Connect, Drop, Goto, Closing
  <2>2. sending' = sending
    BY <1>4 DEF Connect, Drop, hubVars
  <2> HIDE DEF Gone
  <2> QED BY <1>3, <2>1, <2>2
<1>5. ASSUME NEW c \in Conns, Step(c) PROVE FarewellsOfLeavers'
  <2>1. \A d \in Conns : Gone(d) => Gone(d)'
    BY <1>2, <1>5, GoroutineKinds DEF Step, MarkOnline, AnnounceOnline, BeginSnapshot,
       EnterReadLoop, Disconnect, MarkOffline, AnnounceOffline, Finish, Goto, Closing, Opening,
       Serving
  <2>2. CASE AnnounceOffline(c)
    <3>1. \A g \in Goroutines \ {c} : sending'[g] = sending[g]
      BY <1>2, <2>2 DEF AnnounceOffline, StartBroadcast
    <3>2. sending'[c].event.remove = {UserOf[c]}
      BY <1>2, <2>2, GoroutineKinds DEF AnnounceOffline, StartBroadcast, OfflineEvent
    <3>3. Gone(c)
      BY <2>2 DEF AnnounceOffline, Closing
    <3> HIDE DEF Gone
    <3>4. Gone(c)'
      BY <2>1, <3>3
    <3>5. ASSUME NEW g \in Goroutines, NEW u \in Users, u \in sending'[g].event.remove
          PROVE  \E d \in Conns : UserOf[d] = u /\ Gone(d)'
      <4>1. CASE g = c
        BY <3>2, <3>4, <3>5, <4>1
      <4>2. CASE g # c
        <5>1. PICK d \in Conns : UserOf[d] = u /\ Gone(d)
          BY <1>1, <3>1, <3>5, <4>2 DEF FarewellsOfLeavers, Gone
        <5> QED BY <2>1, <5>1
      <4> QED BY <4>1, <4>2
    <3> QED BY <3>5 DEF Gone, FarewellsOfLeavers
  <2>3. CASE ~AnnounceOffline(c)
    <3>1. \A g \in Goroutines : Same(g)
      BY <1>2, <1>5, <2>3, GoroutineKinds DEF Step, MarkOnline, AnnounceOnline, BeginSnapshot,
         EnterReadLoop, Disconnect, MarkOffline, Finish, StartBroadcast, OnlineEvent, hubVars
    <3> HIDE DEF Gone, Same
    <3> QED BY <1>3, <2>1, <3>1
  <2> QED BY <2>2, <2>3
<1>6. ASSUME NEW n \in Notifiers, AddMember(n) \/ NotifyStep(n) PROVE FarewellsOfLeavers'
  <2>1. \A d \in Conns : pc'[d] = pc[d]
    BY <1>2, <1>6, GoroutineKinds DEF AddMember, NotifyStep, ListOthers, AnnounceNewMember,
       NotifyDone, Goto
  <2>2. \A g \in Goroutines : Same(g)
    BY <1>2, <1>6 DEF AddMember, NotifyStep, ListOthers, AnnounceNewMember, NotifyDone,
       StartBroadcast, OnlineEvent, hubVars
  <2> QED BY <1>3, <2>1, <2>2
<1>7. ASSUME NEW g \in Goroutines, Broadcast(g) PROVE FarewellsOfLeavers'
  <2>1. \A d \in Conns : Gone(d) => Gone(d)'
    BY <1>2, <1>7, GoroutineKinds DEF Broadcast, ProbePeer, SendSnapshot, NextRecipient, Deliver,
       presenceVars, Goto, Closing
  <2>2. \A h \in Goroutines : Same(h)
    <3>1. CASE ProbePeer(g)
      BY <3>1 DEF ProbePeer, hubVars
    <3>2. CASE SendSnapshot(g)
      BY <1>2, <3>2 DEF SendSnapshot, StartBroadcast, OnlineEvent
    <3>3. CASE NextRecipient(g)
      BY <1>2, <3>3 DEF NextRecipient, PickRecipient, Outbox
    <3>4. ASSUME NEW d \in Conns, Deliver(g, d) PROVE \A h \in Goroutines : Same(h)
      BY <1>2, <3>4 DEF Deliver, WriteTo, Outbox
    <3> QED BY <1>7, <3>1, <3>2, <3>3, <3>4 DEF Broadcast
  <2> HIDE DEF Gone, Same
  <2> QED BY <1>3, <2>1, <2>2
<1>8. ASSUME (\E u \in Users : Expire(u)) \/ UNCHANGED vars PROVE FarewellsOfLeavers'
  BY <1>1, <1>8 DEF Expire, vars, hubVars, presenceVars, FarewellsOfLeavers
<1> QED BY <1>4, <1>5, <1>6, <1>7, <1>8, Faultless DEF Next

LEMMA KeySetStep ==
  ASSUME Knowing, [Next]_vars, faults' = 0
  PROVE  KeySet'
<1> SUFFICES ASSUME NEW u \in Users, Steady(u)', Here(u)', u \notin key'
             PROVE  \E d \in Conns : UserOf[d] = u /\ pc'[d] = "setOnline"
  BY DEF KeySet
<1>1. TypeOK /\ IInv /\ Steady(u) /\ KeySet /\ ~Fault
  BY SteadyBefore, Faultless DEF Knowing
<1>2. pc \in [Goroutines -> {"new", "done"} \cup Opening \cup Serving \cup Closing \cup NotifySteps]
  BY <1>1 DEF TypeOK
<1>3. \A d \in Conns : UserOf[d] = u => pc[d] \notin Closing \cup {"done"}
  BY <1>1, SteadyMeans
<1>4. ASSUME NEW c \in Conns, Connect(c) \/ Drop(c)
      PROVE  \E d \in Conns : UserOf[d] = u /\ pc'[d] = "setOnline"
  <2>1. u \notin key
    BY <1>4 DEF Connect, Drop
  <2>2. CASE Here(u)
    <3>1. PICK d \in Conns : UserOf[d] = u /\ pc[d] = "setOnline"
      BY <1>1, <2>1, <2>2 DEF KeySet
    <3>2. pc'[d] = "setOnline"
      BY <1>2, <1>4, <3>1, GoroutineKinds DEF Connect, Drop, Goto
    <3> QED BY <3>1, <3>2
  <2>3. CASE ~Here(u)
    <3>1. Connect(c) /\ UserOf[c] = u
      BY <1>2, <1>4, <2>3, GoroutineKinds DEF Connect, Drop, Goto, Here, Registered
    <3>2. IsFirst(c)
      BY <1>1, <2>3, <3>1 DEF IInv, LifecycleTypeOK, HubExact, IsFirst, Here
    <3>3. pc'[c] = "setOnline"
      BY <1>2, <3>1, <3>2, GoroutineKinds DEF Connect, Goto
    <3> QED BY <3>1, <3>3
  <2> QED BY <2>2, <2>3
<1>5. ASSUME NEW c \in Conns, Step(c)
      PROVE  \E d \in Conns : UserOf[d] = u /\ pc'[d] = "setOnline"
  <2>1. Here(u)
    <3>1. \A d \in Conns : Registered(d)' => Registered(d)
      BY <1>2, <1>5, GoroutineKinds DEF Step, MarkOnline, AnnounceOnline, BeginSnapshot,
         EnterReadLoop, Disconnect, MarkOffline, AnnounceOffline, Finish, Goto, Registered,
         Opening, Serving
    <3> QED BY <3>1 DEF Here
  <2>2. u \notin key
    <3>1. CASE MarkOffline(c)
      <4>1. UserOf[c] # u
        BY <1>3, <3>1 DEF MarkOffline, Closing
      <4> QED BY <1>1, <3>1, <4>1 DEF MarkOffline, SetOffline
    <3>2. CASE ~MarkOffline(c)
      BY <1>1, <1>5, <3>2 DEF Step, MarkOnline, SetOnline, AnnounceOnline, BeginSnapshot,
         EnterReadLoop, Disconnect, AnnounceOffline, Finish
    <3> QED BY <3>1, <3>2
  <2>3. PICK d \in Conns : UserOf[d] = u /\ pc[d] = "setOnline"
    BY <1>1, <2>1, <2>2 DEF KeySet
  <2>4. CASE d = c
    <3>1. MarkOnline(c)
      BY <1>5, <2>3, <2>4 DEF Step, AnnounceOnline, BeginSnapshot, EnterReadLoop, Disconnect,
         MarkOffline, AnnounceOffline, Finish
    <3> QED BY <1>1, <2>3, <2>4, <3>1 DEF MarkOnline, SetOnline
  <2>5. CASE d # c
    <3>1. pc'[d] = pc[d]
      BY <1>2, <1>5, <2>5, GoroutineKinds DEF Step, MarkOnline, AnnounceOnline, BeginSnapshot,
         EnterReadLoop, Disconnect, MarkOffline, AnnounceOffline, Finish, Goto
    <3> QED BY <2>3, <3>1
  <2> QED BY <2>4, <2>5
<1>6. ASSUME Here(u), u \notin key, \A d \in Conns : pc[d] = "setOnline" => pc'[d] = pc[d]
      PROVE  \E d \in Conns : UserOf[d] = u /\ pc'[d] = "setOnline"
  BY <1>1, <1>6 DEF KeySet
<1>7. ASSUME NEW n \in Notifiers, AddMember(n) \/ NotifyStep(n)
      PROVE  \E d \in Conns : UserOf[d] = u /\ pc'[d] = "setOnline"
  <2>1. key' = key /\ \A d \in Conns : pc'[d] = pc[d]
    BY <1>2, <1>7, GoroutineKinds DEF AddMember, NotifyStep, ListOthers, AnnounceNewMember,
       NotifyDone, Goto
  <2> QED BY <1>6, <2>1 DEF Here, Registered
<1>8. ASSUME NEW g \in Goroutines, Broadcast(g)
      PROVE  \E d \in Conns : UserOf[d] = u /\ pc'[d] = "setOnline"
  <2>1. key' = key /\ \A d \in Conns :
          pc'[d] = pc[d] \/ (pc[d] = "probing" /\ pc'[d] = "snapshotting")
    BY <1>2, <1>8, GoroutineKinds DEF Broadcast, ProbePeer, SendSnapshot, NextRecipient, Deliver,
       presenceVars, Goto
  <2>2. Here(u)
    BY <2>1 DEF Here, Registered, Opening, Serving
  <2> QED BY <1>6, <2>1, <2>2
<1>9. ASSUME NEW w \in Users, Expire(w)
      PROVE  \E d \in Conns : UserOf[d] = u /\ pc'[d] = "setOnline"
  <2>1. Here(u) /\ pc' = pc
    BY <1>9 DEF Expire, Here, Registered
  <2>2. w # u
    BY <1>9, <2>1 DEF Expire, Here
  <2> QED BY <1>6, <1>9, <2>1, <2>2 DEF Expire
<1>10. ASSUME UNCHANGED vars
       PROVE  \E d \in Conns : UserOf[d] = u /\ pc'[d] = "setOnline"
  BY <1>6, <1>10 DEF vars, presenceVars, Here, Registered
<1> QED BY <1>4, <1>5, <1>7, <1>8, <1>9, <1>10, Faultless DEF Next

(* With no socket lost and no fault, every user is steady.                  *)
AllSteady == drops = 0 /\ faults = 0 => \A d \in Conns : pc[d] = "new" \/ d \in up

LEMMA AllSteadyStep ==
  ASSUME Knowing, AllSteady, [Next]_vars
  PROVE  AllSteady'
<1> SUFFICES ASSUME drops' = 0, faults' = 0, NEW d \in Conns, pc'[d] # "new"
             PROVE  d \in up'
  BY DEF AllSteady
<1>1. TypeOK /\ drops \in Nat
  BY BoundsAssumption DEF Knowing, TypeOK
<1>2. pc \in [Goroutines -> {"new", "done"} \cup Opening \cup Serving \cup Closing \cup NotifySteps]
  BY <1>1 DEF TypeOK
<1>3. faults = 0
  BY Faultless
<1>4. ASSUME drops = 0, up \subseteq up', pc[d] # "new" \/ d \in up' PROVE d \in up'
  BY <1>3, <1>4 DEF AllSteady
<1>5. ASSUME NEW c \in Conns, Connect(c) \/ Step(c) PROVE d \in up'
  <2>1. drops = 0 /\ up \subseteq up'
    BY <1>5 DEF Connect, Step, MarkOnline, AnnounceOnline, BeginSnapshot,
       EnterReadLoop, Disconnect, MarkOffline, AnnounceOffline, Finish
  <2>2. pc[d] # "new" \/ d \in up'
    BY <1>2, <1>5, GoroutineKinds DEF Connect, Step, MarkOnline, AnnounceOnline, BeginSnapshot,
       EnterReadLoop, Disconnect, MarkOffline, AnnounceOffline, Finish, Goto
  <2> QED BY <1>4, <2>1, <2>2
<1>6. ASSUME NEW c \in Conns, Drop(c) PROVE FALSE
  BY <1>1, <1>6 DEF Drop
<1>7. ASSUME NEW n \in Notifiers, AddMember(n) \/ NotifyStep(n) PROVE d \in up'
  BY <1>2, <1>4, <1>7, GoroutineKinds DEF AddMember, NotifyStep, ListOthers, AnnounceNewMember,
     NotifyDone, Goto
<1>8. ASSUME NEW g \in Goroutines, Broadcast(g) PROVE d \in up'
  BY <1>2, <1>4, <1>8, GoroutineKinds DEF Broadcast, ProbePeer, SendSnapshot, NextRecipient,
     Deliver, presenceVars, Goto
<1>9. ASSUME (\E u \in Users : Expire(u)) \/ UNCHANGED vars PROVE d \in up'
  BY <1>4, <1>9 DEF Expire, vars, presenceVars
<1> QED BY <1>5, <1>6, <1>7, <1>8, <1>9, Faultless DEF Next

LEMMA InitKnowing == Init => Knowing /\ AllSteady
<1> SUFFICES ASSUME Init PROVE Knowing /\ AllSteady
  OBVIOUS
<1>1. TypeOK /\ IInv
  BY InitIInv, InitType
<1>2. UpRegistered /\ Silent /\ FarewellsOfLeavers /\ PeersTold /\ AllSteady
  <2>1. \A g \in Goroutines : Idle(g) /\ sending[g].event.remove = {}
    BY DEF Init, HubInit, OnlineEvent, Idle
  <2>2. \A d \in Conns : pc[d] = "new"
    BY GoroutineKinds DEF Init
  <2>3. up = {}
    BY DEF Init
  <2> QED BY <2>1, <2>2, <2>3 DEF UpRegistered, Silent, FarewellsOfLeavers, PeersTold, AllSteady
<1>3. KeySet
  <2>1. \A d \in Conns : pc[d] = "new"
    BY GoroutineKinds DEF Init
  <2> QED BY <2>1, Labels DEF KeySet, Here, Registered
<1> QED BY <1>1, <1>2, <1>3 DEF Knowing

LEMMA StepKnowing == Knowing /\ [Next]_vars => Knowing'
<1> SUFFICES ASSUME Knowing, [Next]_vars PROVE Knowing'
  OBVIOUS
<1>1. TypeOK' /\ IInv'
  BY StepIInv, StepType DEF Knowing
<1> QED BY <1>1, HubStep, FarewellsStep, KeySetStep, PeersToldStep DEF Knowing

(* Whatever else drops, a tab whose socket is open shows every connected    *)
(* peer who has lost none of its own sockets, once no handler is running    *)
(* and as long as no Redis call or query failed.                            *)
SteadyPeersSeen ==
  faults = 0 /\ Quiet => \A c \in up, u \in Users :
    Steady(u) /\ Here(u) /\ u \in ListPeerIDs(UserOf[c]) => u \in view[TabOf[c]]

LEMMA KnowingSees == Knowing => SteadyPeersSeen
<1> SUFFICES ASSUME Knowing, faults = 0, Quiet, NEW c \in up, NEW u \in Users, Told(c, u)
             PROVE  u \in view[TabOf[c]]
  BY DEF Knowing, PeersTold, SteadyPeersSeen
<1> SUFFICES ASSUME NEW g \in Goroutines, Owes(g, c, u) PROVE FALSE
  BY DEF Told
<1>1. pc[g] \in {"new", "reading", "done"} /\ Idle(g)
  BY DEF Knowing, Silent, Quiet
<1> QED BY <1>1 DEF Owes, Sends, Idle, Announces, Asks, Welcomes, Presents, Probes

(* Connect, AddMember and the losses of other users' sockets may interleave *)
(* in any way: nobody misses a steady peer (handler.go announces a user     *)
(* before it reads the keys, and a notifier tells both sides).              *)
THEOREM SteadyPeersAreSeen == Spec => []SteadyPeersSeen
<1>1. Spec => []Knowing
  BY InitKnowing, StepKnowing, PTL DEF Spec
<1> QED BY <1>1, KnowingSees, PTL

(* So while no socket was lost and nothing failed, all connected members of *)
(* a conversation see one another once Connect and NotifyMembershipAdded    *)
(* have finished, however their goroutines interleaved.                     *)
THEOREM PeersLearnOfEachOther == Spec => [](drops = 0 /\ faults = 0 => PeersAware)
<1>1. Knowing /\ AllSteady => (drops = 0 /\ faults = 0 => PeersAware)
  <2> SUFFICES ASSUME Knowing, AllSteady, drops = 0, faults = 0, Quiet, NEW c \in up, NEW d \in up,
                      UserOf[d] \in ListPeerIDs(UserOf[c])
               PROVE  UserOf[d] \in view[TabOf[c]]
    BY DEF PeersAware
  <2>1. up \subseteq Conns /\ \A x \in up : Registered(x)
    BY DEF Knowing, TypeOK, UpRegistered
  <2>2. Steady(UserOf[d]) /\ Here(UserOf[d]) /\ UserOf[d] \in Users
    BY <2>1, UserOfAssumption DEF AllSteady, Steady, Here
  <2> QED BY <2>2, KnowingSees DEF SteadyPeersSeen
<1>2. Knowing /\ AllSteady /\ [Next]_vars => (Knowing /\ AllSteady)'
  BY StepKnowing, AllSteadyStep
<1> QED BY <1>1, <1>2, InitKnowing, PTL DEF Spec
=============================================================================
