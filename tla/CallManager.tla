---------------------------- MODULE CallManager ----------------------------
(* The voice calls of the tabs, one tab per user: calls/callManager.ts with *)
(* stores/callStore.ts, the buttons that drive it, the call handlers it     *)
(* talks to and the relay of WebRTC descriptions between two tabs.          *)
(*                                                                          *)
(* What a tab sends is handled by its connection's goroutine in order; the  *)
(* goroutine writes what it sends one event after the other, between the    *)
(* writes of other goroutines, before it handles the next.  Calls.tla has   *)
(* the steps inside the call handlers and the lost connections; here each   *)
(* handler is one step and connections last.  A handler of the tab runs up  *)
(* to its next await in one step.  User ids are numbers, since the smaller  *)
(* id makes the offer.  Not kept: names, what is heard (deafen), and the ICE*)
(* candidates (two tabs that have each other's descriptions connect).       *)
EXTENDS Naturals, Sequences, FiniteSets

CONSTANTS
  Users,        \* numbers, by lexicographic order of the user ids
  Convs,
  Direct,       \* the direct conversations, which ring
  MembersOf,    \* ListMemberIDs: the members of each, in its order
  NoConv,
  Budgets       \* how many clicks each user is given: one of these

ASSUME CallManagerAssumption ==
  /\ Users \subseteq Nat \ {0}
  /\ Direct \subseteq Convs /\ NoConv \notin Convs
  /\ MembersOf \in [Convs -> Seq(Users)]
  /\ \A v \in Convs : \A i, j \in DOMAIN MembersOf[v] : MembersOf[v][i] = MembersOf[v][j] => i = j
  /\ Budgets \subseteq [Users -> Nat]

VARIABLES
  calls,    \* CallRegistry: who is in each call
  up,       \* per user: events sent and not handled
  wire,     \* per user: what the goroutine still has to write, and to whom
  inbox,    \* per user: events written and not handled by the tab
  conv,     \* callManager.conversationId
  local,    \* whether localStream is set
  audible,  \* whether localStream is set and its track enabled
  mics,     \* captures of the microphone that nobody has stopped
  pending,  \* start() and accept() waiting for the microphone
  status,   \* callStore.status
  shown,    \* callStore.conversationId
  muted,    \* callStore.isMuted
  peers,    \* the RTCPeerConnection to each user and how far it is
  loops,    \* handleCallJoined waiting for an offer, and whom is left to do
  answers,  \* handleOffer waiting for its answer
  clicks,   \* the clicks each user has left
  rash,     \* history: users who clicked on while the microphone was awaited
  crossed,  \* history: users taken out of their call by a call.ended
  parted    \* history: somebody has left a call

server == <<calls, up, wire, inbox>>
manager == <<conv, local, audible, mics, pending>>
store == <<status, shown, muted>>
mesh == <<peers, loops, answers>>
history == <<rash, crossed, parted>>
vars == <<server, manager, store, mesh, clicks, history>>

Init ==
  /\ calls = [v \in Convs |-> {}]
  /\ up = [u \in Users |-> <<>>]
  /\ wire = [u \in Users |-> <<>>]
  /\ inbox = [u \in Users |-> <<>>]
  /\ conv = [u \in Users |-> NoConv]
  /\ local = [u \in Users |-> FALSE]
  /\ audible = [u \in Users |-> FALSE]
  /\ mics = [u \in Users |-> 0]
  /\ pending = [u \in Users |-> {}]
  /\ status = [u \in Users |-> "idle"]
  /\ shown = [u \in Users |-> NoConv]
  /\ muted = [u \in Users |-> FALSE]
  /\ peers = [u \in Users |-> [w \in Users |-> "none"]]
  /\ loops = [u \in Users |-> {}]
  /\ answers = [u \in Users |-> {}]
  /\ clicks \in Budgets
  /\ rash = {} /\ crossed = {} /\ parted = FALSE

(* An event: the other user is its target on the way up and its sender or   *)
(* subject on the way down.                                                 *)
Event(type, v, other, participants) ==
  [type |-> type, conv |-> v, other |-> other, participants |-> participants]

Send(u, e) == up' = [up EXCEPT ![u] = Append(@, e)]

-----------------------------------------------------------------------------
(* The server                                                               *)

Member(u, v) == \E i \in DOMAIN MembersOf[v] : MembersOf[v][i] = u

Handled(u, type) ==
  /\ wire[u] = <<>>
  /\ up[u] # <<>> /\ Head(up[u]).type = type
  /\ up' = [up EXCEPT ![u] = Tail(@)]

(* SendToUser for each of a list of users, of which the loop may skip one.  *)
Without(list, u) ==
  LET i == CHOOSE j \in DOMAIN list : list[j] = u
  IN SubSeq(list, 1, i - 1) \o SubSeq(list, i + 1, Len(list))

ToEach(list, e) == [i \in DOMAIN list |-> [to |-> list[i], event |-> e]]

Write(u) ==
  /\ wire[u] # <<>>
  /\ wire' = [wire EXCEPT ![u] = Tail(@)]
  /\ LET w == Head(wire[u]) IN
       inbox' = [inbox EXCEPT ![w.to] = Append(@, w.event)]
  /\ UNCHANGED <<calls, up, manager, store, mesh, clicks, history>>

(* handleCallJoin: the first one in a direct call rings the others.         *)
HandleJoin(u) ==
  LET v == Head(up[u]).conv
      rings == IF calls[v] = {} /\ v \in Direct THEN Without(MembersOf[v], u) ELSE <<>>
  IN
  /\ Handled(u, "join")
  /\ IF Member(u, v)
       THEN /\ calls' = [calls EXCEPT ![v] = @ \cup {u}]
            /\ wire' = [wire EXCEPT ![u] =
                 ToEach(rings, Event("created", v, u, {}))
                 \o ToEach(MembersOf[v], Event("joined", v, u, calls[v] \cup {u}))]
       ELSE UNCHANGED <<calls, wire>>
  /\ UNCHANGED <<inbox, manager, store, mesh, clicks, history>>

(* handleCallLeave: call.ended when that empties the call, or else          *)
(* call.left; without a call the participants are null, which no tab takes. *)
HandleLeave(u) ==
  LET v == Head(up[u]).conv
      rest == calls[v] \ {u}
      left == Event(IF rest = {} THEN "ended" ELSE "left", v, u, rest)
  IN
  /\ Handled(u, "leave")
  /\ calls' = [calls EXCEPT ![v] = rest]
  /\ wire' = [wire EXCEPT ![u] = IF calls[v] = {} THEN @ ELSE ToEach(MembersOf[v], left)]
  /\ UNCHANGED <<inbox, manager, store, mesh, clicks, history>>

(* handleWebRTCSignal: both users must be members; whether either is in the *)
(* call is not asked.                                                       *)
HandleSignal(u) ==
  LET e == Head(up[u]) IN
  /\ Handled(u, "offer") \/ Handled(u, "answer")
  /\ wire' = [wire EXCEPT ![u] =
       IF Member(u, e.conv) /\ Member(e.other, e.conv)
         THEN ToEach(<<e.other>>, [e EXCEPT !.other = u]) ELSE @]
  /\ UNCHANGED <<calls, inbox, manager, store, mesh, clicks, history>>

-----------------------------------------------------------------------------
(* Clicks                                                                   *)

Click(u) == clicks[u] > 0 /\ clicks' = [clicks EXCEPT ![u] = @ - 1]

(* The rest of start() and accept() once there is a microphone.             *)
Enter(u, kind, v) ==
  /\ conv' = [conv EXCEPT ![u] = v]
  /\ IF kind = "start"
       THEN /\ status' = [status EXCEPT ![u] = "outgoing"]
            /\ shown' = [shown EXCEPT ![u] = v]
       ELSE UNCHANGED <<status, shown>>
  /\ UNCHANGED muted
  /\ Send(u, Event("join", v, u, {}))

(* acquireLocalStream returns at once when there is a stream, or else waits *)
(* for getUserMedia, even when another call of it is waiting.               *)
Acquire(u, kind, v) ==
  IF local[u]
    THEN /\ Enter(u, kind, v)
         /\ UNCHANGED <<local, audible, mics, pending>>
    ELSE /\ pending' = [pending EXCEPT ![u] = @ \cup {[kind |-> kind, conv |-> v]}]
         /\ UNCHANGED <<up, conv, local, audible, mics, store>>

Rash(u, foolish) == rash' = IF foolish THEN rash \cup {u} ELSE rash

(* VoiceChannelBar, and CallButton alike: of use unless the store shows a   *)
(* call; IncomingCallModal; and ActiveCallBar.                              *)
MayStart(u, v) == Member(u, v) /\ status[u] = "idle"
Ringing(u) == status[u] = "incoming"
Ongoing(u) == status[u] \in {"outgoing", "active"}

Start(u, v) ==
  /\ Click(u)
  /\ MayStart(u, v)
  /\ Acquire(u, "start", v)
  /\ Rash(u, pending[u] # {})
  /\ UNCHANGED <<calls, wire, inbox, mesh, crossed, parted>>

Accept(u) ==
  /\ Click(u)
  /\ Ringing(u)
  /\ Acquire(u, "accept", shown[u])
  /\ Rash(u, pending[u] # {})
  /\ UNCHANGED <<calls, wire, inbox, mesh, crossed, parted>>

(* Nothing is told to the server, nor to a start() or accept() that waits.  *)
Decline(u) ==
  /\ Click(u)
  /\ Ringing(u)
  /\ status' = [status EXCEPT ![u] = "idle"]
  /\ shown' = [shown EXCEPT ![u] = NoConv]
  /\ muted' = [muted EXCEPT ![u] = FALSE]
  /\ Rash(u, pending[u] # {} \/ conv[u] # NoConv)
  /\ UNCHANGED <<server, manager, mesh, crossed, parted>>

(* getUserMedia resolves, or rejects and with it start() or accept().  A    *)
(* stream that was there already is forgotten, not stopped, and the new one *)
(* is not muted, whatever the store says.                                   *)
Granted(u, p) ==
  /\ p \in pending[u]
  /\ pending' = [pending EXCEPT ![u] = @ \ {p}]
  /\ local' = [local EXCEPT ![u] = TRUE]
  /\ audible' = [audible EXCEPT ![u] = TRUE]
  /\ mics' = [mics EXCEPT ![u] = @ + 1]
  /\ Enter(u, p.kind, p.conv)
  /\ UNCHANGED <<calls, wire, inbox, mesh, clicks, history>>

Refused(u, p) ==
  /\ p \in pending[u]
  /\ pending' = [pending EXCEPT ![u] = @ \ {p}]
  /\ UNCHANGED <<server, conv, local, audible, mics, store, mesh, clicks, history>>

(* Faulty: the stream goes on.                                              *)
TeardownKeepingMic(u) ==
  /\ peers' = [peers EXCEPT ![u] = [w \in Users |-> "none"]]
  /\ loops' = [loops EXCEPT ![u] = {}]
  /\ answers' = [answers EXCEPT ![u] = {}]
  /\ local' = [local EXCEPT ![u] = FALSE]
  /\ audible' = [audible EXCEPT ![u] = FALSE]
  /\ conv' = [conv EXCEPT ![u] = NoConv]
  /\ status' = [status EXCEPT ![u] = "idle"]
  /\ shown' = [shown EXCEPT ![u] = NoConv]
  /\ muted' = [muted EXCEPT ![u] = FALSE]
  /\ UNCHANGED mics

(* Faulty: the store still says that the microphone is muted.               *)
TeardownMuted(u) ==
  /\ peers' = [peers EXCEPT ![u] = [w \in Users |-> "none"]]
  /\ loops' = [loops EXCEPT ![u] = {}]
  /\ answers' = [answers EXCEPT ![u] = {}]
  /\ mics' = [mics EXCEPT ![u] = IF local[u] THEN @ - 1 ELSE @]
  /\ local' = [local EXCEPT ![u] = FALSE]
  /\ audible' = [audible EXCEPT ![u] = FALSE]
  /\ conv' = [conv EXCEPT ![u] = NoConv]
  /\ status' = [status EXCEPT ![u] = "idle"]
  /\ shown' = [shown EXCEPT ![u] = NoConv]
  /\ UNCHANGED muted

(* teardown: closes every connection, which ends the waits on them, stops   *)
(* the stream and resets the store.                                         *)
Teardown(u) ==
  /\ peers' = [peers EXCEPT ![u] = [w \in Users |-> "none"]]
  /\ loops' = [loops EXCEPT ![u] = {}]
  /\ answers' = [answers EXCEPT ![u] = {}]
  /\ mics' = [mics EXCEPT ![u] = IF local[u] THEN @ - 1 ELSE @]
  /\ local' = [local EXCEPT ![u] = FALSE]
  /\ audible' = [audible EXCEPT ![u] = FALSE]
  /\ conv' = [conv EXCEPT ![u] = NoConv]
  /\ status' = [status EXCEPT ![u] = "idle"]
  /\ shown' = [shown EXCEPT ![u] = NoConv]
  /\ muted' = [muted EXCEPT ![u] = FALSE]

(* Faulty: the server is not told.                                          *)
LeaveUntold(u) ==
  /\ Click(u)
  /\ Ongoing(u)
  /\ Teardown(u)
  /\ parted' = TRUE
  /\ UNCHANGED <<server, pending, rash, crossed>>

Leave(u) ==
  LET v == IF conv[u] # NoConv THEN conv[u] ELSE shown[u] IN
  /\ Click(u)
  /\ Ongoing(u)
  /\ IF v # NoConv THEN Send(u, Event("leave", v, u, {})) ELSE UNCHANGED up
  /\ Teardown(u)
  /\ parted' = TRUE
  /\ UNCHANGED <<calls, wire, inbox, pending, rash, crossed>>

(* toggleMute: the tracks of the stream there is, and the store, which the  *)
(* button is drawn from.                                                    *)
ToggleMute(u) ==
  /\ Click(u)
  /\ Ongoing(u)
  /\ muted' = [muted EXCEPT ![u] = ~@]
  /\ audible' = [audible EXCEPT ![u] = local[u] /\ muted[u]]
  /\ UNCHANGED <<server, conv, local, mics, pending, status, shown, mesh, history>>

-----------------------------------------------------------------------------
(* The events a tab hears                                                   *)

Heard(u, type) ==
  /\ inbox[u] # <<>> /\ Head(inbox[u]).type = type
  /\ inbox' = [inbox EXCEPT ![u] = Tail(@)]

InCall(u) == conv[u] = Head(inbox[u]).conv

HearCreated(u) ==
  /\ Heard(u, "created")
  /\ IF status[u] = "idle"
       THEN /\ status' = [status EXCEPT ![u] = "incoming"]
            /\ shown' = [shown EXCEPT ![u] = Head(inbox[u]).conv]
       ELSE UNCHANGED <<status, shown>>
  /\ UNCHANGED <<calls, up, wire, manager, muted, mesh, clicks, history>>

HearEnded(u) ==
  /\ Heard(u, "ended")
  /\ IF InCall(u)
       THEN Teardown(u) /\ crossed' = crossed \cup {u}
       ELSE UNCHANGED <<conv, local, audible, mics, store, mesh, crossed>>
  /\ UNCHANGED <<calls, up, wire, pending, clicks, rash, parted>>

(* Faulty: the loop ends with its first offer.                              *)
ConnectOne(u, v, ps, rest, others) ==
  LET fresh == {w \in rest : ps[w] = "none"}
      larger == {w \in fresh : u < w}
      Opened(done) == [w \in Users |-> IF w \in done \cap fresh THEN "new" ELSE ps[w]]
  IN
  IF larger = {}
    THEN /\ peers' = [peers EXCEPT ![u] = Opened(rest)]
         /\ loops' = [loops EXCEPT ![u] = others]
    ELSE \E w \in larger, done \in SUBSET (rest \ larger) :
           /\ peers' = [peers EXCEPT ![u] = [Opened(done) EXCEPT ![w] = "creating"]]
           /\ loops' = [loops EXCEPT ![u] = others \cup
                {[conv |-> v, on |-> w, rest |-> {}]}]

(* The loop of handleCallJoined over the users in rest, in any order, when  *)
(* the tab's connections are ps: it opens one to each user that has none    *)
(* and stops at the first to whom an offer is to be made.                   *)
Connect(u, v, ps, rest, others) ==
  LET fresh == {w \in rest : ps[w] = "none"}
      larger == {w \in fresh : u < w}
      Opened(done) == [w \in Users |-> IF w \in done \cap fresh THEN "new" ELSE ps[w]]
  IN
  IF larger = {}
    THEN /\ peers' = [peers EXCEPT ![u] = Opened(rest)]
         /\ loops' = [loops EXCEPT ![u] = others]
    ELSE \E w \in larger, done \in SUBSET (rest \ larger) :
           /\ peers' = [peers EXCEPT ![u] = [Opened(done) EXCEPT ![w] = "creating"]]
           /\ loops' = [loops EXCEPT ![u] = others \cup
                {[conv |-> v, on |-> w, rest |-> rest \ (done \cup {w})]}]

(* Faulty: whatever call it is of.                                          *)
HearJoinedOfAny(u) ==
  LET e == Head(inbox[u]) IN
  /\ Heard(u, "joined")
  /\ status' = [status EXCEPT ![u] = "active"]
  /\ Connect(u, e.conv, peers[u], e.participants \ {u}, loops[u])
  /\ UNCHANGED <<calls, up, wire, manager, shown, muted, answers, clicks, history>>

(* handleCallJoined: setParticipants makes the store active.                *)
HearJoined(u) ==
  LET e == Head(inbox[u]) IN
  /\ Heard(u, "joined")
  /\ IF InCall(u)
       THEN /\ status' = [status EXCEPT ![u] = "active"]
            /\ Connect(u, e.conv, peers[u], e.participants \ {u}, loops[u])
       ELSE UNCHANGED <<status, peers, loops>>
  /\ UNCHANGED <<calls, up, wire, manager, shown, muted, answers, clicks, history>>

(* The offer is made and set, and the loop goes on.                         *)
MakeOffer(u, l) ==
  /\ l \in loops[u]
  /\ Send(u, Event("offer", l.conv, l.on, {}))
  /\ Connect(u, l.conv, [peers[u] EXCEPT ![l.on] = "offered"], l.rest, loops[u] \ {l})
  /\ UNCHANGED <<calls, wire, inbox, manager, store, answers, clicks, history>>

(* handleCallLeft: what waits for the closed connection waits for ever.     *)
HearLeft(u) ==
  LET w == Head(inbox[u]).other IN
  /\ Heard(u, "left")
  /\ IF InCall(u)
       THEN /\ peers' = [peers EXCEPT ![u][w] = "none"]
            /\ loops' = [loops EXCEPT ![u] = {l \in @ : l.on # w}]
            /\ answers' = [answers EXCEPT ![u] = {a \in @ : a.to # w}]
            /\ status' = [status EXCEPT ![u] = "active"]
       ELSE UNCHANGED <<mesh, status>>
  /\ UNCHANGED <<calls, up, wire, manager, shown, muted, clicks, history>>

(* Faulty: also outside the call.                                           *)
HearOfferAnywhere(u) ==
  LET e == Head(inbox[u]) IN
  /\ Heard(u, "offer")
  /\ peers' = [peers EXCEPT ![u][e.other] = "answering"]
  /\ answers' = [answers EXCEPT ![u] = @ \cup {[conv |-> e.conv, to |-> e.other]}]
  /\ UNCHANGED <<calls, up, wire, manager, store, loops, clicks, history>>

(* handleOffer: on the connection to the sender, or on a new one.           *)
HearOffer(u) ==
  LET e == Head(inbox[u]) IN
  /\ Heard(u, "offer")
  /\ IF InCall(u)
       THEN /\ peers' = [peers EXCEPT ![u][e.other] = "answering"]
            /\ answers' = [answers EXCEPT ![u] = @ \cup {[conv |-> e.conv, to |-> e.other]}]
       ELSE UNCHANGED <<peers, answers>>
  /\ UNCHANGED <<calls, up, wire, manager, store, loops, clicks, history>>

MakeAnswer(u, a) ==
  /\ a \in answers[u]
  /\ answers' = [answers EXCEPT ![u] = @ \ {a}]
  /\ peers' = [peers EXCEPT ![u][a.to] = "stable"]
  /\ Send(u, Event("answer", a.conv, a.to, {}))
  /\ UNCHANGED <<calls, wire, inbox, manager, store, loops, clicks, history>>

(* handleAnswer: setRemoteDescription takes any answer to an offer that is  *)
(* out, and rejects it otherwise.                                           *)
HearAnswer(u) ==
  LET w == Head(inbox[u]).other IN
  /\ Heard(u, "answer")
  /\ peers' = [peers EXCEPT ![u][w] = IF InCall(u) /\ @ = "offered" THEN "stable" ELSE @]
  /\ UNCHANGED <<calls, up, wire, manager, store, loops, answers, clicks, history>>

-----------------------------------------------------------------------------
ServerStep(u) == HandleJoin(u) \/ HandleLeave(u) \/ HandleSignal(u) \/ Write(u)

TabStep(u) ==
  \/ HearCreated(u) \/ HearEnded(u) \/ HearJoined(u) \/ HearLeft(u)
  \/ HearOffer(u) \/ HearAnswer(u)
  \/ \E l \in loops[u] : MakeOffer(u, l)
  \/ \E a \in answers[u] : MakeAnswer(u, a)
  \/ \E p \in pending[u] : Granted(u, p) \/ Refused(u, p)

ClickStep(u) ==
  \/ \E v \in Convs : Start(u, v)
  \/ Accept(u) \/ Decline(u) \/ Leave(u) \/ ToggleMute(u)

Next == \E u \in Users : ServerStep(u) \/ TabStep(u) \/ ClickStep(u)

Spec == Init /\ [][Next]_vars

-----------------------------------------------------------------------------
(* Properties                                                               *)

Statuses == {"idle", "incoming", "outgoing", "active"}
Stages == {"none", "new", "creating", "offered", "answering", "stable"}
Types == {"created", "joined", "left", "ended", "join", "leave", "offer", "answer"}
Events == [type : Types, conv : Convs, other : Users, participants : SUBSET Users]
Waits == [kind : {"start", "accept"}, conv : Convs]

(* Every variable keeps its type: the manager's fields, the store, the      *)
(* connections and what is under way.                                       *)
TypeOK ==
  /\ calls \in [Convs -> SUBSET Users]
  /\ up \in [Users -> Seq(Events)]
  /\ wire \in [Users -> Seq([to : Users, event : Events])]
  /\ inbox \in [Users -> Seq(Events)]
  /\ conv \in [Users -> Convs \cup {NoConv}]
  /\ local \in [Users -> BOOLEAN]
  /\ audible \in [Users -> BOOLEAN]
  /\ mics \in [Users -> Nat]
  /\ pending \in [Users -> SUBSET Waits]
  /\ status \in [Users -> Statuses]
  /\ shown \in [Users -> Convs \cup {NoConv}]
  /\ muted \in [Users -> BOOLEAN]
  /\ peers \in [Users -> [Users -> Stages]]
  /\ loops \in [Users -> SUBSET [conv : Convs, on : Users, rest : SUBSET Users]]
  /\ answers \in [Users -> SUBSET [conv : Convs, to : Users]]
  /\ clicks \in [Users -> Nat]
  /\ rash \in SUBSET Users /\ crossed \in SUBSET Users /\ parted \in BOOLEAN

(* A tab holds the microphone exactly while its call manager is in a call,  *)
(* and once, unless the user went on clicking while it was awaited.         *)
MicHeld ==
  \A u \in Users \ rash :
    mics[u] = IF conv[u] # NoConv THEN 1 ELSE 0

(* Outside a call a tab has no connections, and nothing of the last call    *)
(* goes on: an offer or answer under way has its connection.                *)
NothingOutlivesTheCall ==
  \A u \in Users :
    /\ conv[u] = NoConv => \A w \in Users : peers[u][w] = "none"
    /\ \A l \in loops[u] : peers[u][l.on] = "creating"
    /\ \A a \in answers[u] : peers[u][a.to] \in {"answering", "stable"}

(* What the call bar shows is what the manager is in: a call that is shown  *)
(* as going on is the manager's, with the same caveat.                      *)
StoreAgrees ==
  \A u \in Users \ rash :
    status[u] \in {"outgoing", "active"} => shown[u] = conv[u] /\ conv[u] # NoConv

(* callManager.ts: mute "stops them from being heard".  A tab that shows    *)
(* itself muted lets nobody hear it, and one that does not is heard in its  *)
(* call, from one call to the next and with the same caveat.                *)
MutedSilent ==
  \A u \in Users \ rash : audible[u] <=> conv[u] # NoConv /\ ~muted[u]

Quiet ==
  \A u \in Users :
    /\ up[u] = <<>> /\ wire[u] = <<>> /\ inbox[u] = <<>>
    /\ pending[u] = {} /\ loops[u] = {} /\ answers[u] = {}

(* When everything sent has been handled, a user is in a call of the        *)
(* registry exactly when that is the call of the manager, unless the end of *)
(* the call crossed the user's own join, or with the caveat above.          *)
RegistryAgrees ==
  Quiet => \A u \in Users \ (rash \cup crossed), v \in Convs :
             u \in calls[v] <=> conv[u] = v

(* callManager.ts: the manager "opens a direct RTCPeerConnection to every   *)
(* other participant", so while nobody has left any call, and nobody        *)
(* clicked on, everybody in a call ends up connected to everybody else.     *)
MeshComplete ==
  Quiet /\ rash = {} /\ ~parted =>
    \A v \in Convs : \A u, w \in calls[v] : u # w => peers[u][w] = "stable"
=============================================================================
