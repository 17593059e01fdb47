---------------------------- MODULE CallsProofs ----------------------------
(***************************************************************************)
(* The call registry, for any users, connections, conversations and        *)
(* bounds: its entries, its participants' connections, and that it         *)
(* implements CallBoard.                                                   *)
(***************************************************************************)
EXTENDS Calls, TLAPS

(* The part of TypeOK the registry's invariants need.                       *)
RegistryTypeOK ==
  /\ pc \in [Conns -> Labels]
  /\ stored \in SUBSET Convs
  /\ calls \in [Convs -> SUBSET Users]
  /\ members \in [Convs -> SUBSET Users]
  /\ join \in [Conns -> Joining]
  /\ at \in [Tabs -> {{}} \cup {{v} : v \in Convs}]

(* The inductive invariant.                                                 *)
IInv == RegistryTypeOK /\ EntryIffNonEmpty /\ ParticipantHasConnection

LEMMA LabelFacts ==
  /\ Present \subseteq Labels
  /\ {"new", "closing", "done"} \subseteq Labels
  /\ {"new", "closing", "done"} \cap Present = {}
BY DEF Labels, Present

-----------------------------------------------------------------------------
(* What a step may do to the registry: nothing, while its goroutines move   *)
(* among the labels of one side of LeaveAll, or one change of one user.     *)

Untouched == UNCHANGED <<stored, calls>>

(* Goroutine c moves, and stays on its side of LeaveAll.                    *)
StaysPut(c, l) ==
  /\ Goto(c, l)
  /\ l \in Labels
  /\ pc[c] \in Present <=> l \in Present

(* A step that moves one goroutine on its own side of LeaveAll and leaves   *)
(* the registry alone.                                                      *)
LEMMA MoveKeeps ==
  ASSUME IInv, NEW c \in Conns, NEW l, StaysPut(c, l), Untouched,
         members' \in [Convs -> SUBSET Users], join' \in [Conns -> Joining],
         at' \in [Tabs -> {{}} \cup {{v} : v \in Convs}]
  PROVE  /\ IInv'
         /\ \A d \in Conns : pc'[d] \in Present <=> pc[d] \in Present
<1>1. /\ pc' \in [Conns -> Labels]
      /\ \A d \in Conns : pc'[d] \in Present <=> pc[d] \in Present
  BY DEF IInv, RegistryTypeOK, StaysPut, Goto
<1>2. RegistryTypeOK'
  BY <1>1 DEF IInv, RegistryTypeOK, Untouched
<1>3. EntryIffNonEmpty'
  BY DEF IInv, EntryIffNonEmpty, Untouched
<1>4. ParticipantHasConnection'
  BY <1>1 DEF IInv, ParticipantHasConnection, Untouched
<1>5. QED
  BY <1>1, <1>2, <1>3, <1>4 DEF IInv

(* A step that moves no goroutine and leaves the registry alone.            *)
LEMMA StillKeeps ==
  ASSUME IInv, UNCHANGED <<pc, stored, calls, join>>,
         members' \in [Convs -> SUBSET Users],
         at' \in [Tabs -> {{}} \cup {{v} : v \in Convs}]
  PROVE  IInv'
BY DEF IInv, RegistryTypeOK, EntryIffNonEmpty, ParticipantHasConnection

(* CallRegistry.Join.                                                       *)
LEMMA JoinKeeps ==
  ASSUME IInv, NEW c \in Conns, Join(c)
  PROVE  /\ IInv'
         /\ \E v \in Convs : calls' = [calls EXCEPT ![v] = @ \cup {UserOf[c]}]
         /\ pc[c] \in Present
         /\ \A d \in Conns : pc'[d] \in Present <=> pc[d] \in Present
<1> DEFINE v == join[c].conv
<1>1. /\ v \in Convs /\ UserOf[c] \in Users /\ RegistryTypeOK
      /\ calls[v] \cup {UserOf[c]} \in SUBSET Users
      /\ (v \notin stored \/ calls[v] = {}) \in BOOLEAN
  BY UserOfAssumption DEF IInv, RegistryTypeOK, Joining
<1>2. /\ stored' = stored \cup {v}
      /\ calls' = [calls EXCEPT ![v] = @ \cup {UserOf[c]}]
      /\ join' = [join EXCEPT ![c] = [conv |-> v, participants |-> calls[v] \cup {UserOf[c]},
                                      started |-> v \notin stored \/ calls[v] = {},
                                      recipients |-> {}]]
      /\ pc[c] = "joining" /\ pc' = [pc EXCEPT ![c] = "joined"]
      /\ UNCHANGED <<members, at>>
  BY DEF Join, Goto, tabVars
<1> HIDE DEF v
<1>3. join' \in [Conns -> Joining]
  <2>1. [conv |-> v, participants |-> calls[v] \cup {UserOf[c]},
         started |-> v \notin stored \/ calls[v] = {}, recipients |-> {}] \in Joining
    BY <1>1 DEF Joining
  <2>2. QED
    BY <1>1, <1>2, <2>1 DEF RegistryTypeOK
<1>4. /\ pc' \in [Conns -> Labels]
      /\ \A d \in Conns : pc'[d] \in Present <=> pc[d] \in Present
  BY <1>1, <1>2 DEF RegistryTypeOK, Present, Labels
<1>5. RegistryTypeOK'
  BY <1>1, <1>2, <1>3, <1>4 DEF RegistryTypeOK
<1>6. EntryIffNonEmpty'
  BY <1>1, <1>2 DEF IInv, RegistryTypeOK, EntryIffNonEmpty
<1>7. ParticipantHasConnection'
  <2>1. \A w \in Convs : \A u \in calls'[w] : u \in calls[w] \/ u = UserOf[c]
    BY <1>1, <1>2 DEF RegistryTypeOK
  <2>2. pc[c] \in Present
    BY <1>2 DEF Present
  <2>3. QED
    BY <1>4, <2>1, <2>2 DEF IInv, ParticipantHasConnection
<1>8. QED
  BY <1>1, <1>2, <1>4, <1>5, <1>6, <1>7 DEF IInv, Present

(* CallRegistry.Leave.                                                      *)
LEMMA LeaveKeeps ==
  ASSUME IInv, NEW c \in Conns, Leave(c)
  PROVE  /\ IInv'
         /\ \E v \in Convs : calls' = [calls EXCEPT ![v] = @ \ {UserOf[c]}]
         /\ pc[c] \in Present
         /\ \A d \in Conns : pc'[d] \in Present <=> pc[d] \in Present
<1>1. RegistryTypeOK /\ UserOf[c] \in Users /\ TabOf[c] \in Tabs
  BY UserOfAssumption, CallConstants DEF IInv
<1>2. PICK v \in at[TabOf[c]] :
        /\ calls' = [calls EXCEPT ![v] = @ \ {UserOf[c]}]
        /\ stored' = IF DepartureOf(UserOf[c], v).ended THEN stored \ {v} ELSE stored
  BY DEF Leave
<1>3. v \in Convs
  BY <1>1 DEF RegistryTypeOK
<1>4. /\ pc[c] = "reading" /\ pc' = [pc EXCEPT ![c] = "leaving"]
      /\ at' = [at EXCEPT ![TabOf[c]] = {}]
      /\ UNCHANGED <<members, join>>
  BY DEF Leave, Goto
<1>5. /\ pc' \in [Conns -> Labels]
      /\ \A d \in Conns : pc'[d] \in Present <=> pc[d] \in Present
  BY <1>1, <1>4 DEF RegistryTypeOK, Present, Labels
<1>6. RegistryTypeOK'
  BY <1>1, <1>2, <1>3, <1>4, <1>5 DEF RegistryTypeOK
<1>7. EntryIffNonEmpty'
  <2>1. DepartureOf(UserOf[c], v).ended <=> v \in stored /\ calls[v] \ {UserOf[c]} = {}
    BY DEF DepartureOf
  <2>2. QED
    BY <1>1, <1>2, <1>3, <2>1 DEF IInv, RegistryTypeOK, EntryIffNonEmpty
<1>8. ParticipantHasConnection'
  <2>1. \A w \in Convs : calls'[w] \subseteq calls[w]
    BY <1>1, <1>2 DEF RegistryTypeOK
  <2>2. QED
    BY <1>5, <2>1 DEF IInv, ParticipantHasConnection
<1>9. QED
  BY <1>2, <1>3, <1>4, <1>5, <1>6, <1>7, <1>8 DEF IInv, Present

(* CallRegistry.LeaveAll: the goroutine goes, and takes its user along.     *)
LEMMA LeaveAllKeeps ==
  ASSUME IInv, NEW c \in Conns, LeaveAll(c)
  PROVE  /\ IInv'
         /\ calls' = [v \in Convs |-> calls[v] \ {UserOf[c]}]
         /\ pc[c] \in Present /\ pc'[c] \notin Present
         /\ \A d \in Conns \ {c} : pc'[d] = pc[d]
<1>1. RegistryTypeOK /\ UserOf[c] \in Users
  BY UserOfAssumption DEF IInv
<1> DEFINE leaving == {v \in stored : UserOf[c] \in calls[v]}
<1>2. /\ calls' = [v \in Convs |-> IF v \in leaving THEN calls[v] \ {UserOf[c]} ELSE calls[v]]
      /\ stored' = stored \ {v \in leaving : calls[v] \ {UserOf[c]} = {}}
      /\ pc[c] = "leaveAll" /\ pc' = [pc EXCEPT ![c] = "closing"]
      /\ UNCHANGED <<members, join, at>>
  BY DEF LeaveAll, Goto, tabVars
<1>3. \A v \in Convs \ leaving : UserOf[c] \notin calls[v]
  BY DEF IInv, EntryIffNonEmpty
<1>4. calls' = [v \in Convs |-> calls[v] \ {UserOf[c]}]
  BY <1>2, <1>3
<1>5. /\ pc' \in [Conns -> Labels]
      /\ pc'[c] \notin Present
      /\ \A d \in Conns \ {c} : pc'[d] = pc[d]
  BY <1>1, <1>2 DEF RegistryTypeOK, Present, Labels
<1>6. RegistryTypeOK'
  BY <1>1, <1>2, <1>4, <1>5 DEF RegistryTypeOK
<1>7. EntryIffNonEmpty'
  BY <1>1, <1>2, <1>3, <1>4 DEF IInv, RegistryTypeOK, EntryIffNonEmpty
<1>8. ParticipantHasConnection'
  <2> SUFFICES ASSUME NEW v \in Convs, NEW u \in calls'[v]
               PROVE  \E d \in Conns : UserOf[d] = u /\ pc'[d] \in Present
    BY DEF ParticipantHasConnection
  <2>1. u \in calls[v] /\ u # UserOf[c]
    BY <1>4
  <2>2. PICK d \in Conns : UserOf[d] = u /\ pc[d] \in Present
    BY <2>1 DEF IInv, ParticipantHasConnection
  <2>3. QED
    BY <1>5, <2>1, <2>2
<1>9. QED
  BY <1>2, <1>4, <1>5, <1>6, <1>7, <1>8 DEF IInv, Present

-----------------------------------------------------------------------------
(* Every step preserves the invariant and is a step of the board            *)

OpenSessions == {c \in Conns : pc[c] \in Present}

LEMMA BoardStutter ==
  ASSUME UNCHANGED calls, \A d \in Conns : pc'[d] \in Present <=> pc[d] \in Present
  PROVE  UNCHANGED Board!boardVars
BY DEF Board!boardVars

(* Goroutine c moves from one of its labels to another on the same side of  *)
(* LeaveAll; the registry, the members and the tab's call stay.             *)
LEMMA PlainMove ==
  ASSUME IInv, NEW c \in Conns, NEW l, StaysPut(c, l), Untouched, UNCHANGED <<members, at>>,
         join' \in [Conns -> Joining]
  PROVE  IInv' /\ UNCHANGED Board!boardVars
<1>1. /\ members' \in [Convs -> SUBSET Users]
      /\ at' \in [Tabs -> {{}} \cup {{v} : v \in Convs}]
  BY DEF IInv, RegistryTypeOK
<1>2. IInv' /\ \A d \in Conns : pc'[d] \in Present <=> pc[d] \in Present
  BY <1>1, MoveKeeps
<1>3. QED
  BY <1>2, BoardStutter DEF Untouched

LEMMA JoinStep ==
  ASSUME IInv, NEW c \in Conns, Join(c)
  PROVE  IInv' /\ Board!BoardNext
<1>1. PICK v \in Convs : calls' = [calls EXCEPT ![v] = @ \cup {UserOf[c]}]
  BY JoinKeeps
<1>2. c \in OpenSessions /\ OpenSessions' = OpenSessions
  BY JoinKeeps DEF OpenSessions
<1>3. Board!Enter(c, v)
  BY <1>1, <1>2 DEF Board!Enter, OpenSessions
<1>4. QED
  BY <1>3, JoinKeeps DEF Board!BoardNext

LEMMA LeaveStep ==
  ASSUME IInv, NEW c \in Conns, Leave(c)
  PROVE  IInv' /\ Board!BoardNext
<1>1. PICK v \in Convs : calls' = [calls EXCEPT ![v] = @ \ {UserOf[c]}]
  BY LeaveKeeps
<1>2. c \in OpenSessions /\ OpenSessions' = OpenSessions
  BY LeaveKeeps DEF OpenSessions
<1>3. Board!Quit(c, v)
  BY <1>1, <1>2 DEF Board!Quit, OpenSessions
<1>4. QED
  BY <1>3, LeaveKeeps DEF Board!BoardNext

LEMMA LeaveAllStep ==
  ASSUME IInv, NEW c \in Conns, LeaveAll(c)
  PROVE  IInv' /\ Board!BoardNext
<1>1. c \in OpenSessions /\ OpenSessions' = OpenSessions \ {c}
  BY LeaveAllKeeps DEF OpenSessions
<1>2. Board!Close(c)
  BY <1>1, LeaveAllKeeps DEF Board!Close, OpenSessions
<1>3. QED
  BY <1>2, LeaveAllKeeps DEF Board!BoardNext

LEMMA ConnectStep ==
  ASSUME IInv, NEW c \in Conns, Connect(c)
  PROVE  IInv' /\ Board!BoardNext
<1>1. /\ pc[c] = "new" /\ pc' = [pc EXCEPT ![c] = "reading"]
      /\ UNCHANGED <<stored, calls, members, join, at>>
  BY DEF Connect, Goto, tabVars
<1>2. /\ pc' \in [Conns -> Labels]
      /\ pc[c] \notin Present /\ pc'[c] \in Present
      /\ \A d \in Conns \ {c} : pc'[d] = pc[d]
  BY <1>1 DEF IInv, RegistryTypeOK, Labels, Present
<1>3. IInv'
  BY <1>1, <1>2 DEF IInv, RegistryTypeOK, EntryIffNonEmpty, ParticipantHasConnection
<1>4. c \notin OpenSessions /\ OpenSessions' = OpenSessions \cup {c}
  BY <1>2 DEF OpenSessions
<1>5. Board!Open(c)
  BY <1>1, <1>4 DEF Board!Open, OpenSessions
<1>6. QED
  BY <1>3, <1>5 DEF Board!BoardNext

LEMMA ReceiveJoinStep ==
  ASSUME IInv, NEW c \in Conns, ReceiveJoin(c)
  PROVE  IInv' /\ UNCHANGED Board!boardVars
<1>1. StaysPut(c, "joining") /\ Untouched
  BY DEF ReceiveJoin, StaysPut, Untouched, Labels, Present
<1>2. PICK v \in Convs : /\ join' = [join EXCEPT ![c].conv = v]
                         /\ at' = [at EXCEPT ![TabOf[c]] = {v}]
  BY DEF ReceiveJoin
<1>3. join' \in [Conns -> Joining]
  <2>1. join[c] \in Joining
    BY DEF IInv, RegistryTypeOK
  <2>2. [join[c] EXCEPT !.conv = v] \in Joining
    BY <2>1 DEF Joining
  <2>3. QED
    BY <1>2, <2>2 DEF IInv, RegistryTypeOK
<1>4. /\ members' \in [Convs -> SUBSET Users]
      /\ at' \in [Tabs -> {{}} \cup {{w} : w \in Convs}]
  BY <1>2, CallConstants DEF ReceiveJoin, IInv, RegistryTypeOK
<1>5. IInv' /\ \A d \in Conns : pc'[d] \in Present <=> pc[d] \in Present
  BY <1>1, <1>3, <1>4, MoveKeeps
<1>6. QED
  BY <1>1, <1>5, BoardStutter DEF Untouched

LEMMA DeliverStep ==
  ASSUME IInv, NEW g \in Conns, NEW c \in Conns, Deliver(g, c)
  PROVE  IInv' /\ UNCHANGED Board!boardVars
<1>1. UNCHANGED <<pc, stored, calls, join, members>>
  BY DEF Deliver
<1>2. at' \in [Tabs -> {{}} \cup {{v} : v \in Convs}]
  <2>1. at \in [Tabs -> {{}} \cup {{v} : v \in Convs}]
    BY DEF IInv, RegistryTypeOK
  <2>2. \A t \in Tabs : \A v : at[t] \ {v} \in {{}} \cup {{w} : w \in Convs}
    BY <2>1
  <2>3. CASE UNCHANGED at
    BY <2>1, <2>3
  <2>4. CASE at' = [at EXCEPT ![TabOf[c]] = @ \ {sending[g].event.conv}]
    BY <2>1, <2>2, <2>4, CallConstants
  <2>5. QED
    BY <2>3, <2>4 DEF Deliver, Hear, tabVars
<1>3. members' \in [Convs -> SUBSET Users]
  BY <1>1 DEF IInv, RegistryTypeOK
<1>4. QED
  BY <1>1, <1>2, <1>3, StillKeeps, BoardStutter

LEMMA NextStep ==
  ASSUME IInv, [Next]_vars
  PROVE  IInv' /\ [Board!BoardNext]_(Board!boardVars)
<1>1. /\ join \in [Conns -> Joining]
      /\ members \in [Convs -> SUBSET Users]
      /\ at \in [Tabs -> {{}} \cup {{v} : v \in Convs}]
  BY DEF IInv, RegistryTypeOK
<1>2. ASSUME NEW c \in Conns,
             Connect(c) \/ Drop(c) \/ ReceiveJoin(c) \/ Leave(c) \/ Progress(c)
      PROVE  IInv' /\ [Board!BoardNext]_(Board!boardVars)
  <2>1. CASE Connect(c)
    BY <2>1, ConnectStep
  <2>2. CASE Drop(c)
    BY <1>1, <2>2, StillKeeps, BoardStutter DEF Drop, tabVars
  <2>3. CASE ReceiveJoin(c)
    BY <2>3, ReceiveJoinStep
  <2>4. CASE Leave(c)
    BY <2>4, LeaveStep
  <2>5. CASE Join(c)
    BY <2>5, JoinStep
  <2>6. CASE Ring(c)
    <3>1. StaysPut(c, "ringing") /\ Untouched /\ UNCHANGED <<members, at>>
      BY <2>6 DEF Ring, StaysPut, Untouched, Labels, Present, tabVars
    <3>2. join[c].conv \in Convs /\ members[join[c].conv] \in SUBSET Users
      BY <1>1 DEF Joining
    <3>3. [join[c] EXCEPT !.recipients = members[join[c].conv]] \in Joining
      BY <1>1, <3>2 DEF Joining
    <3>4. join' \in [Conns -> Joining]
      BY <1>1, <2>6, <3>3 DEF Ring
    <3>5. QED
      BY <3>1, <3>4, PlainMove
  <2>7. CASE AnnounceQuietJoin(c)
    <3>1. StaysPut(c, "announcing") /\ Untouched /\ UNCHANGED <<members, at, join>>
      BY <2>7 DEF AnnounceQuietJoin, StaysPut, Untouched, Labels, Present, tabVars
    <3>2. QED
      BY <1>1, <3>1, PlainMove
  <2>8. CASE AnnounceRungJoin(c)
    <3>1. StaysPut(c, "announcing") /\ Untouched /\ UNCHANGED <<members, at, join>>
      BY <2>8 DEF AnnounceRungJoin, StaysPut, Untouched, Labels, Present, tabVars
    <3>2. QED
      BY <1>1, <3>1, PlainMove
  <2>9. CASE JoinDone(c)
    <3>1. StaysPut(c, "reading") /\ Untouched /\ UNCHANGED <<members, at>>
      BY <2>9 DEF JoinDone, StaysPut, Untouched, Labels, Present, tabVars
    <3>2. NoJoin \in Joining
      BY CallConstants DEF NoJoin, Joining
    <3>3. join' \in [Conns -> Joining]
      BY <1>1, <2>9, <3>2 DEF JoinDone
    <3>4. QED
      BY <3>1, <3>3, PlainMove
  <2>10. CASE Disconnect(c)
    <3>1. StaysPut(c, "leaveAll") /\ Untouched /\ UNCHANGED <<members, at, join>>
      BY <2>10 DEF Disconnect, StaysPut, Untouched, Labels, Present, tabVars
    <3>2. QED
      BY <1>1, <3>1, PlainMove
  <2>11. CASE LeaveAll(c)
    BY <2>11, LeaveAllStep
  <2>12. CASE AnnounceDeparture(c)
    BY <1>1, <2>12, StillKeeps, BoardStutter DEF AnnounceDeparture, tabVars
  <2>13. CASE DepartureDone(c)
    <3>1. Untouched /\ UNCHANGED <<members, at, join>>
      BY <2>13 DEF DepartureDone, Untouched, tabVars
    <3>2. StaysPut(c, "reading") \/ StaysPut(c, "done")
      BY <2>13 DEF DepartureDone, StaysPut, Labels, Present
    <3>3. QED
      BY <1>1, <3>1, <3>2, PlainMove
  <2>14. CASE NextRecipient(c)
    BY <1>1, <2>14, StillKeeps, BoardStutter DEF NextRecipient, callVars, tabVars
  <2>15. ASSUME NEW d \in Conns, Deliver(c, d) PROVE IInv' /\ UNCHANGED Board!boardVars
    BY <2>15, DeliverStep
  <2>16. QED
    BY <1>2, <2>1, <2>2, <2>3, <2>4, <2>5, <2>6, <2>7, <2>8, <2>9, <2>10, <2>11,
       <2>12, <2>13, <2>14, <2>15 DEF Progress
<1>3. ASSUME NEW u \in Users, NEW v \in Convs, RemoveMember(u, v)
      PROVE  IInv' /\ UNCHANGED Board!boardVars
  <2>1. UNCHANGED <<pc, stored, calls, join, at>> /\ members' \in [Convs -> SUBSET Users]
    BY <1>1, <1>3 DEF RemoveMember, tabVars
  <2>2. QED
    BY <1>1, <2>1, StillKeeps, BoardStutter
<1>4. CASE UNCHANGED vars
  BY <1>1, <1>4, StillKeeps, BoardStutter DEF vars, callVars, tabVars
<1>5. QED
  BY <1>2, <1>3, <1>4 DEF Next

LEMMA InitStep == Init => IInv /\ Board!BoardInit
<1> SUFFICES ASSUME Init PROVE IInv /\ Board!BoardInit
  OBVIOUS
<1>1. NoJoin \in Joining
  BY CallConstants DEF NoJoin, Joining
<1>2. pc \in [Conns -> Labels]
  BY DEF Init, Labels, Present
<1>3. IInv
  BY <1>1, <1>2, CallConstants
     DEF Init, IInv, RegistryTypeOK, EntryIffNonEmpty, ParticipantHasConnection
<1>4. Board!BoardInit
  BY DEF Init, Board!BoardInit
<1>5. QED
  BY <1>3, <1>4

-----------------------------------------------------------------------------
(* The theorems                                                             *)

(* The inductive invariant holds in every reachable state.                  *)
THEOREM Inductive == Spec => []IInv
BY InitStep, NextStep, PTL DEF Spec

(* calls.go keeps no entry for an empty call and loses none of a busy one,  *)
(* so "started" and "ended" are told exactly at the edges of a call.        *)
THEOREM EntriesExact == Spec => []EntryIffNonEmpty
BY Inductive, PTL DEF IInv

(* Nobody stays in a call after the last LeaveAll of its goroutines.        *)
THEOREM NoOrphanParticipant == Spec => []ParticipantHasConnection
BY Inductive, PTL DEF IInv

(* The handlers and the registry implement the call board.                  *)
THEOREM CallsImplementBoard == Spec => ImplementsBoard
<1>1. IInv /\ [Next]_vars => [Board!BoardNext]_(Board!boardVars)
  BY NextStep
<1>2. Init => Board!BoardInit
  BY InitStep
<1>3. QED
  BY <1>1, <1>2, Inductive, PTL DEF Spec, ImplementsBoard, Board!BoardSpec

-----------------------------------------------------------------------------
(* Type correctness: the part of TypeOK that the invariant leaves out.      *)

HubAndTabsOK ==
  /\ HubTypeOK(Event)
  /\ up \in SUBSET Conns
  /\ left \in [Conns -> SUBSET Departure]
  /\ voice \in [Tabs -> [Convs -> SUBSET Users]]
  /\ rung \in [Tabs -> SUBSET Convs]
  /\ requests \in 0..MaxRequests
  /\ faults \in 0..MaxFaults

LEMMA SendType ==
  ASSUME HubAndTabsOK, NEW c \in Conns, NEW e \in Event, NEW us \in SUBSET Users,
         StartBroadcast(c, e, us)
  PROVE  sending' \in [Goroutines -> Outbox(Event)]
<1>1. [event |-> e, users |-> us, conns |-> {}] \in Outbox(Event)
  BY DEF Outbox
<1>2. QED
  BY <1>1 DEF HubAndTabsOK, HubTypeOK, StartBroadcast

LEMMA EventType ==
  ASSUME NEW type \in {"created", "joined", "left", "ended"}, NEW v \in Convs,
         NEW us \in SUBSET Users
  PROVE  [type |-> type, conv |-> v, participants |-> us] \in Event
BY DEF Event

LEMMA DepartureType ==
  ASSUME IInv, NEW u \in Users, NEW v \in Convs
  PROVE  DepartureOf(u, v) \in Departure
<1>1. calls[v] \ {u} \in SUBSET Users
  BY DEF IInv, RegistryTypeOK
<1>2. (v \in stored /\ calls[v] \ {u} = {}) \in BOOLEAN
  OBVIOUS
<1>3. QED
  BY <1>1, <1>2 DEF DepartureOf, Departure

LEMMA FaultType ==
  ASSUME HubAndTabsOK, UNCHANGED faults \/ Fault
  PROVE  faults' \in 0..MaxFaults
BY CallConstants DEF HubAndTabsOK, Fault

LEMMA RequestType ==
  ASSUME HubAndTabsOK, Request
  PROVE  requests' \in 0..MaxRequests
BY CallConstants DEF HubAndTabsOK, Request

(* The steps of call.join.                                                  *)
LEMMA JoinTypes ==
  ASSUME IInv, HubAndTabsOK, NEW c \in Conns,
         \/ ReceiveJoin(c) \/ Join(c) \/ Ring(c) \/ AnnounceQuietJoin(c)
         \/ AnnounceRungJoin(c) \/ JoinDone(c)
  PROVE  HubAndTabsOK'
<1>1. /\ join[c] \in Joining /\ join[c].conv \in Convs
      /\ join[c].recipients \in SUBSET Users /\ join[c].participants \in SUBSET Users
      /\ members[join[c].conv] \in SUBSET Users
  BY DEF IInv, RegistryTypeOK, Joining
<1>2. JoinedEvent(c) \in Event
  BY <1>1, EventType DEF JoinedEvent
<1>3. CASE ReceiveJoin(c)
  BY <1>3, RequestType DEF ReceiveJoin, HubAndTabsOK, HubTypeOK, hubVars
<1>4. CASE Join(c)
  BY <1>4 DEF Join, HubAndTabsOK, HubTypeOK, hubVars, tabVars
<1>5. CASE Ring(c)
  <2>1. [type |-> "created", conv |-> join[c].conv, participants |-> {}] \in Event
    BY <1>1, EventType
  <2>2. sending' \in [Goroutines -> Outbox(Event)]
    BY <1>1, <1>5, <2>1, SendType DEF Ring
  <2>3. QED
    BY <1>5, <2>2 DEF Ring, HubAndTabsOK, HubTypeOK, tabVars
<1>6. CASE AnnounceQuietJoin(c)
  <2>1. sending' \in [Goroutines -> Outbox(Event)]
    BY <1>1, <1>2, <1>6, SendType DEF AnnounceQuietJoin
  <2>2. faults' \in 0..MaxFaults
    BY <1>6, FaultType DEF AnnounceQuietJoin
  <2>3. QED
    BY <1>6, <2>1, <2>2 DEF AnnounceQuietJoin, HubAndTabsOK, HubTypeOK, tabVars
<1>7. CASE AnnounceRungJoin(c)
  <2>1. sending' \in [Goroutines -> Outbox(Event)]
    BY <1>1, <1>2, <1>7, SendType DEF AnnounceRungJoin
  <2>2. QED
    BY <1>7, <2>1 DEF AnnounceRungJoin, HubAndTabsOK, HubTypeOK, tabVars
<1>8. CASE JoinDone(c)
  <2>1. faults' \in 0..MaxFaults
    BY <1>8, FaultType DEF JoinDone
  <2>2. QED
    BY <1>8, <2>1 DEF JoinDone, HubAndTabsOK, HubTypeOK, hubVars, tabVars
<1>9. QED
  BY <1>3, <1>4, <1>5, <1>6, <1>7, <1>8

(* The steps of call.leave and of the clean-up.                             *)
LEMMA LeaveTypes ==
  ASSUME IInv, HubAndTabsOK, NEW c \in Conns,
         \/ Leave(c) \/ Disconnect(c) \/ LeaveAll(c)
         \/ AnnounceDeparture(c) \/ DepartureDone(c)
  PROVE  HubAndTabsOK'
<1>1. UserOf[c] \in Users /\ stored \in SUBSET Convs
  BY UserOfAssumption DEF IInv, RegistryTypeOK
<1>2. CASE Leave(c)
  <2>1. PICK v \in at[TabOf[c]] : left' = [left EXCEPT ![c] = {DepartureOf(UserOf[c], v)}]
    BY <1>2 DEF Leave
  <2>2. v \in Convs
    BY CallConstants DEF IInv, RegistryTypeOK
  <2>3. left' \in [Conns -> SUBSET Departure]
    BY <1>1, <2>1, <2>2, DepartureType DEF HubAndTabsOK
  <2>4. QED
    BY <1>2, <2>3, RequestType DEF Leave, HubAndTabsOK, HubTypeOK, hubVars
<1>3. CASE Disconnect(c)
  BY <1>1, <1>3 DEF Disconnect, Unregister, HubAndTabsOK, HubTypeOK, tabVars
<1>4. CASE LeaveAll(c)
  <2> DEFINE leaving == {v \in stored : UserOf[c] \in calls[v]}
  <2>1. {DepartureOf(UserOf[c], v) : v \in leaving} \in SUBSET Departure
    BY <1>1, DepartureType
  <2>2. left' = [left EXCEPT ![c] = {DepartureOf(UserOf[c], v) : v \in leaving}]
    BY <1>4 DEF LeaveAll
  <2>3. left' \in [Conns -> SUBSET Departure]
    BY <2>1, <2>2 DEF HubAndTabsOK
  <2>4. QED
    BY <1>4, <2>3 DEF LeaveAll, HubAndTabsOK, HubTypeOK, hubVars, tabVars
<1>5. CASE AnnounceDeparture(c)
  <2>1. PICK d \in left[c] :
          /\ left' = [left EXCEPT ![c] = @ \ {d}]
          /\ \/ /\ StartBroadcast(c, [type |-> IF d.ended THEN "ended" ELSE "left",
                                      conv |-> d.conv, participants |-> d.participants],
                                  members[d.conv])
                /\ UNCHANGED faults
             \/ /\ Fault
                /\ IF d.ended
                     THEN UNCHANGED sending
                     ELSE StartBroadcast(c, [type |-> "left", conv |-> d.conv,
                                             participants |-> d.participants],
                                         d.participants \cup {d.who})
    BY <1>5 DEF AnnounceDeparture
  <2>2. /\ d \in Departure /\ d.conv \in Convs /\ d.who \in Users
        /\ d.participants \in SUBSET Users /\ members[d.conv] \in SUBSET Users
    <3>1. d \in Departure
      BY DEF HubAndTabsOK
    <3>2. QED
      BY <3>1 DEF Departure, IInv, RegistryTypeOK
  <2>3. left' \in [Conns -> SUBSET Departure]
    BY <2>1 DEF HubAndTabsOK
  <2>4. sending' \in [Goroutines -> Outbox(Event)]
    <3>1. /\ [type |-> "ended", conv |-> d.conv, participants |-> d.participants] \in Event
          /\ [type |-> "left", conv |-> d.conv, participants |-> d.participants] \in Event
      BY <2>2, EventType
    <3>2. [type |-> IF d.ended THEN "ended" ELSE "left",
           conv |-> d.conv, participants |-> d.participants] \in Event
      BY <3>1
    <3>3. d.participants \cup {d.who} \in SUBSET Users
      BY <2>2
    <3>4. CASE UNCHANGED sending
      BY <3>4 DEF HubAndTabsOK, HubTypeOK
    <3>5. QED
      BY <2>1, <2>2, <3>1, <3>2, <3>3, <3>4, SendType
  <2>5. faults' \in 0..MaxFaults
    BY <2>1, FaultType
  <2>6. QED
    BY <1>5, <2>3, <2>4, <2>5 DEF AnnounceDeparture, HubAndTabsOK, HubTypeOK, tabVars
<1>6. CASE DepartureDone(c)
  BY <1>6 DEF DepartureDone, HubAndTabsOK, HubTypeOK, hubVars, tabVars
<1>7. QED
  BY <1>2, <1>3, <1>4, <1>5, <1>6

(* Sockets and delivery.                                                    *)
LEMMA WireTypes ==
  ASSUME IInv, HubAndTabsOK, NEW c \in Conns,
         Connect(c) \/ Drop(c) \/ NextRecipient(c) \/ \E d \in Conns : Deliver(c, d)
  PROVE  HubAndTabsOK'
<1>1. /\ UserOf[c] \in Users /\ c \in Goroutines
      /\ sending \in [Goroutines -> Outbox(Event)] /\ sending[c] \in Outbox(Event)
  BY UserOfAssumption DEF Goroutines, HubAndTabsOK, HubTypeOK
<1>2. CASE Connect(c)
  BY <1>1, <1>2 DEF Connect, Register, HubAndTabsOK, HubTypeOK, tabVars
<1>3. CASE Drop(c)
  BY <1>3 DEF Drop, HubAndTabsOK, HubTypeOK, hubVars, tabVars
<1>4. CASE NextRecipient(c)
  <2>1. PICK u \in sending[c].users :
          sending' = [sending EXCEPT ![c].users = @ \ {u}, ![c].conns = clients[u]]
    BY <1>4 DEF NextRecipient, PickRecipient
  <2>2. clients[u] \in SUBSET Conns
    BY <1>1 DEF HubAndTabsOK, HubTypeOK, Outbox
  <2>3. sending' \in [Goroutines -> Outbox(Event)]
    BY <1>1, <2>1, <2>2 DEF Outbox
  <2>4. QED
    BY <1>4, <2>3 DEF NextRecipient, PickRecipient, callVars, tabVars, HubAndTabsOK, HubTypeOK
<1>5. ASSUME NEW d \in Conns, Deliver(c, d) PROVE HubAndTabsOK'
  <2>1. sending' \in [Goroutines -> Outbox(Event)]
    <3>1. [sending[c] EXCEPT !.conns = @ \ {d}] \in Outbox(Event)
      BY <1>1 DEF Outbox
    <3>2. sending' = [sending EXCEPT ![c] = [sending[c] EXCEPT !.conns = @ \ {d}]]
      BY <1>5 DEF Deliver, WriteTo
    <3>3. QED
      BY <1>1, <3>1, <3>2
  <2>2. /\ TabOf[d] \in Tabs
        /\ sending[c].event.conv \in Convs
        /\ sending[c].event.participants \in SUBSET Users
    BY <1>1, CallConstants DEF Outbox, Event
  <2>3. voice' \in [Tabs -> [Convs -> SUBSET Users]] /\ rung' \in [Tabs -> SUBSET Convs]
    <3>1. CASE UNCHANGED tabVars
      BY <3>1 DEF tabVars, HubAndTabsOK
    <3>2. CASE Hear(TabOf[d], sending[c].event)
      <4> DEFINE v == sending[c].event.conv
                 w == voice[TabOf[d]]
      <4>1. w \in [Convs -> SUBSET Users]
        BY <2>2 DEF HubAndTabsOK
      <4>2. \A us \in SUBSET Users : [w EXCEPT ![v] = us] \in [Convs -> SUBSET Users]
        BY <2>2, <4>1
      <4>3. \/ voice' = [voice EXCEPT ![TabOf[d]] = [w EXCEPT ![v] = sending[c].event.participants]]
            \/ voice' = [voice EXCEPT ![TabOf[d]] = [w EXCEPT ![v] = {}]]
            \/ voice' = voice
        BY <3>2 DEF Hear
      <4>4. voice' \in [Tabs -> [Convs -> SUBSET Users]]
        <5>1. ASSUME NEW f \in [Convs -> SUBSET Users],
                     voice' = [voice EXCEPT ![TabOf[d]] = f]
              PROVE  voice' \in [Tabs -> [Convs -> SUBSET Users]]
          BY <5>1 DEF HubAndTabsOK
        <5>2. CASE voice' = voice
          BY <5>2 DEF HubAndTabsOK
        <5>3. {} \in SUBSET Users /\ sending[c].event.participants \in SUBSET Users
          BY <2>2
        <5>4. /\ [w EXCEPT ![v] = sending[c].event.participants] \in [Convs -> SUBSET Users]
              /\ [w EXCEPT ![v] = {}] \in [Convs -> SUBSET Users]
          BY <4>2, <5>3
        <5> HIDE DEF v, w
        <5>5. QED
          BY <4>3, <5>1, <5>2, <5>4
      <4>5. rung' \in [Tabs -> SUBSET Convs]
        BY <2>2, <3>2 DEF Hear, HubAndTabsOK
      <4>6. QED
        BY <4>4, <4>5
    <3>3. QED
      BY <1>5, <3>1, <3>2 DEF Deliver
  <2>4. QED
    BY <1>5, <2>1, <2>3 DEF Deliver, WriteTo, HubAndTabsOK, HubTypeOK
<1>6. QED
  BY <1>2, <1>3, <1>4, <1>5

LEMMA TypesStep == IInv /\ HubAndTabsOK /\ [Next]_vars => HubAndTabsOK'
<1> SUFFICES ASSUME IInv, HubAndTabsOK, [Next]_vars PROVE HubAndTabsOK'
  OBVIOUS
<1>1. ASSUME NEW c \in Conns,
             Connect(c) \/ Drop(c) \/ ReceiveJoin(c) \/ Leave(c) \/ Progress(c)
      PROVE  HubAndTabsOK'
  BY <1>1, JoinTypes, LeaveTypes, WireTypes DEF Progress
<1>2. ASSUME NEW u \in Users, NEW v \in Convs, RemoveMember(u, v) PROVE HubAndTabsOK'
  BY <1>2 DEF RemoveMember, HubAndTabsOK, HubTypeOK, hubVars, tabVars
<1>3. CASE UNCHANGED vars
  BY <1>3 DEF vars, callVars, tabVars, HubAndTabsOK, HubTypeOK
<1>4. QED
  BY <1>1, <1>2, <1>3 DEF Next

(* Every variable keeps its type: the registry holds users of known         *)
(* conversations, events carry them, and no bound is exceeded.              *)
THEOREM TypeCorrect == Spec => []TypeOK
<1>1. Init => HubAndTabsOK
  <2> SUFFICES ASSUME Init PROVE HubAndTabsOK
    OBVIOUS
  <2>1. NoEvent \in Event
    BY CallConstants DEF NoEvent, Event
  <2>2. [event |-> NoEvent, users |-> {}, conns |-> {}] \in Outbox(Event)
    BY <2>1 DEF Outbox
  <2>3. HubTypeOK(Event)
    BY <2>2, CallConstants DEF Init, HubTypeOK
  <2>4. up \in SUBSET Conns /\ left \in [Conns -> SUBSET Departure]
    BY CallConstants DEF Init
  <2>5. voice \in [Tabs -> [Convs -> SUBSET Users]] /\ rung \in [Tabs -> SUBSET Convs]
    BY DEF Init
  <2>6. requests \in 0..MaxRequests /\ faults \in 0..MaxFaults
    BY CallConstants DEF Init
  <2>7. QED
    BY <2>3, <2>4, <2>5, <2>6 DEF HubAndTabsOK
<1>2. IInv /\ HubAndTabsOK => TypeOK
  BY DEF IInv, RegistryTypeOK, HubAndTabsOK, TypeOK
<1>3. QED
  BY <1>1, <1>2, TypesStep, Inductive, PTL DEF Spec
=============================================================================
