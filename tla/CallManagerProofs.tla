------------------------- MODULE CallManagerProofs -------------------------
(* Proofs about CallManager, for any number of users and conversations and  *)
(* however often the users click.                                           *)
(*                                                                          *)
(* What a tab shows and holds follows from its own steps alone, once it is  *)
(* known what its waits for the microphone will do (Careful).  What is      *)
(* under way to other tabs also needs that of two users only the one with   *)
(* the smaller id makes offers (Offers): otherwise an offer could take over *)
(* a connection on which another is being made.  The registry agrees with   *)
(* the managers by what is still on its way to it (Agreed).  And while      *)
(* nobody has parted or clicked on, what is under way is between mates of   *)
(* the call (Known), whoever must offer has begun or will hear that it must *)
(* (Noticed), and each pair's two ends fit what is under way between them   *)
(* (Matched): once nothing is, the pair is connected.                       *)
EXTENDS CallManager, TLAPS

Loops == [conv : Convs, on : Users, rest : SUBSET Users]
Answers == [conv : Convs, to : Users]

Held(u) ==
  /\ local[u] <=> conv[u] # NoConv
  /\ local[u] => mics[u] > 0
  /\ status[u] = "incoming" => shown[u] \in Convs

Careful(u) ==
  u \notin rash =>
    /\ mics[u] = IF local[u] THEN 1 ELSE 0
    /\ pending[u] # {} => ~local[u]
    /\ \A p, q \in pending[u] : p = q
    /\ \A p \in pending[u] : p.kind = "accept" => status[u] = "incoming" /\ shown[u] = p.conv
    /\ conv[u] # NoConv => shown[u] = conv[u] /\ status[u] # "idle"
    /\ status[u] \in {"outgoing", "active"} => conv[u] # NoConv

Meshed(u) ==
  /\ conv[u] = NoConv => \A w \in Users : peers[u][w] = "none"
  /\ \A l \in loops[u] : peers[u][l.on] = "creating" /\ u < l.on
  /\ \A l, k \in loops[u] : l.on = k.on => l = k
  /\ \A a \in answers[u] : peers[u][a.to] \in {"answering", "stable"} /\ a.to < u

Offers(u) ==
  /\ \A i \in 1..Len(up[u]) : up[u][i].type = "offer" => u < up[u][i].other
  /\ \A i \in 1..Len(wire[u]) :
       wire[u][i].event.type = "offer" => wire[u][i].event.other < wire[u][i].to
  /\ \A i \in 1..Len(inbox[u]) : inbox[u][i].type = "offer" => inbox[u][i].other < u

(* TypeOK without what is heard, which no other step looks at.              *)
Typed ==
  /\ calls \in [Convs -> SUBSET Users]
  /\ up \in [Users -> Seq(Events)]
  /\ wire \in [Users -> Seq([to : Users, event : Events])]
  /\ inbox \in [Users -> Seq(Events)]
  /\ conv \in [Users -> Convs \cup {NoConv}]
  /\ local \in [Users -> BOOLEAN]
  /\ mics \in [Users -> Nat]
  /\ pending \in [Users -> SUBSET Waits]
  /\ status \in [Users -> Statuses]
  /\ shown \in [Users -> Convs \cup {NoConv}]
  /\ peers \in [Users -> [Users -> Stages]]
  /\ loops \in [Users -> SUBSET [conv : Convs, on : Users, rest : SUBSET Users]]
  /\ answers \in [Users -> SUBSET [conv : Convs, to : Users]]
  /\ clicks \in [Users -> Nat]
  /\ rash \in SUBSET Users /\ crossed \in SUBSET Users /\ parted \in BOOLEAN

IInv ==
  Typed /\ \A u \in Users : Held(u) /\ Careful(u) /\ Meshed(u) /\ Offers(u)

-----------------------------------------------------------------------------
(* Queues                                                                   *)

LEMMA HeadTail ==
  ASSUME NEW S, NEW s \in Seq(S), s # <<>>
  PROVE  /\ Head(s) \in S /\ Tail(s) \in Seq(S)
         /\ Head(s) = s[1] /\ 1 \in 1..Len(s)
         /\ \A i \in 1..Len(Tail(s)) : i + 1 \in 1..Len(s) /\ Tail(s)[i] = s[i + 1]
OBVIOUS

LEMMA AppendEach ==
  ASSUME NEW S, NEW s \in Seq(S), NEW e \in S
  PROVE  /\ Append(s, e) \in Seq(S)
         /\ \A i \in 1..Len(Append(s, e)) :
              Append(s, e)[i] = e \/ (i \in 1..Len(s) /\ Append(s, e)[i] = s[i])
OBVIOUS

LEMMA ToEachType ==
  ASSUME NEW s \in Seq(Users), NEW e \in Events
  PROVE  /\ ToEach(s, e) \in Seq([to : Users, event : Events])
         /\ \A i \in 1..Len(ToEach(s, e)) : ToEach(s, e)[i].event = e
<1>1. DOMAIN s = 1..Len(s) /\ Len(s) \in Nat /\ \A i \in 1..Len(s) : s[i] \in Users
  OBVIOUS
<1>2. ToEach(s, e) = [i \in 1..Len(s) |-> [to |-> s[i], event |-> e]]
  BY <1>1 DEF ToEach
<1>3. \A i \in 1..Len(s) : [to |-> s[i], event |-> e] \in [to : Users, event : Events]
  BY <1>1
<1>4. ToEach(s, e) \in Seq([to : Users, event : Events])
  BY <1>1, <1>2, <1>3
<1>5. Len(ToEach(s, e)) = Len(s)
  BY <1>1, <1>2
<1> QED BY <1>2, <1>4, <1>5

LEMMA WithoutType ==
  ASSUME NEW s \in Seq(Users), NEW u, \E i \in DOMAIN s : s[i] = u
  PROVE  Without(s, u) \in Seq(Users)
BY DEF Without

LEMMA EventType ==
  ASSUME NEW type \in Types, NEW v \in Convs, NEW w \in Users, NEW ps \in SUBSET Users
  PROVE  /\ Event(type, v, w, ps) \in Events
         /\ Event(type, v, w, ps).type = type /\ Event(type, v, w, ps).other = w
BY DEF Event, Events

(* For the other users, and for what an action leaves alone.                *)
LEMMA SameTab ==
  ASSUME IInv, NEW x \in Users,
         conv'[x] = conv[x], local'[x] = local[x], mics'[x] = mics[x], pending'[x] = pending[x],
         status'[x] = status[x], shown'[x] = shown[x], rash' = rash
  PROVE  Held(x)' /\ Careful(x)'
<1>1. Held(x) /\ Careful(x)
  BY DEF IInv
<1>2. Held(x)'
  BY <1>1 DEF Held
<1>3. Careful(x)'
  BY <1>1 DEF Careful
<1> QED BY <1>2, <1>3

LEMMA SameMesh ==
  ASSUME IInv, NEW x \in Users,
         conv'[x] = conv[x], peers'[x] = peers[x], loops'[x] = loops[x], answers'[x] = answers[x]
  PROVE  Meshed(x)'
BY DEF IInv, Meshed

LEMMA SameQueues ==
  ASSUME IInv, NEW x \in Users, up'[x] = up[x], wire'[x] = wire[x], inbox'[x] = inbox[x]
  PROVE  Offers(x)'
BY DEF IInv, Offers

-----------------------------------------------------------------------------
(* Clicks and the microphone                                                *)

LEMMA SendInv ==
  ASSUME Typed, NEW u \in Users, Offers(u), NEW e \in Events, Send(u, e),
         e.type = "offer" => u < e.other
  PROVE  /\ up' \in [Users -> Seq(Events)]
         /\ \A i \in 1..Len(up'[u]) : up'[u][i].type = "offer" => u < up'[u][i].other
         /\ \A x \in Users \ {u} : up'[x] = up[x]
<1>1. up[u] \in Seq(Events) /\ up' = [up EXCEPT ![u] = Append(@, e)]
  BY DEF Send, Typed
<1>2. up'[u] = Append(up[u], e)
  BY <1>1 DEF Typed
<1>3. up' \in [Users -> Seq(Events)] /\ \A x \in Users \ {u} : up'[x] = up[x]
  BY <1>1, AppendEach DEF Typed
<1> QED BY <1>1, <1>2, <1>3, AppendEach DEF Offers

LEMMA AcquireInv ==
  ASSUME IInv, NEW u \in Users, NEW v \in Convs, NEW kind \in {"start", "accept"},
         Acquire(u, kind, v), clicks' \in [Users -> Nat],
         kind = "start" => status[u] = "idle",
         kind = "accept" => status[u] = "incoming" /\ shown[u] = v,
         rash' = IF pending[u] # {} THEN rash \cup {u} ELSE rash,
         UNCHANGED <<calls, wire, inbox, mesh, crossed, parted>>
  PROVE  IInv'
<1> USE DEF mesh
<1>1. CASE local[u]
  <2> DEFINE e == Event("join", v, u, {})
  <2>1. e \in Events /\ e.type = "join"
    BY EventType DEF Types
  <2>2. /\ Send(u, e) /\ UNCHANGED <<local, mics, pending>>
        /\ conv' = [conv EXCEPT ![u] = v]
        /\ IF kind = "start"
             THEN /\ status' = [status EXCEPT ![u] = "outgoing"]
                  /\ shown' = [shown EXCEPT ![u] = v]
             ELSE UNCHANGED <<status, shown>>
    BY <1>1 DEF Acquire, Enter
  <2> HIDE DEF e
  <2>3. /\ up' \in [Users -> Seq(Events)]
        /\ \A i \in 1..Len(up'[u]) : up'[u][i].type = "offer" => u < up'[u][i].other
        /\ \A x \in Users \ {u} : up'[x] = up[x]
    BY <2>1, <2>2, SendInv DEF IInv
  <2>4. /\ conv' \in [Users -> Convs \cup {NoConv}] /\ conv'[u] = v
        /\ status' \in [Users -> Statuses]
        /\ status'[u] = IF kind = "start" THEN "outgoing" ELSE "incoming"
        /\ shown' \in [Users -> Convs \cup {NoConv}] /\ shown'[u] = v
        /\ \A x \in Users \ {u} : conv'[x] = conv[x] /\ status'[x] = status[x] /\ shown'[x] = shown[x]
    <3>1. CASE kind = "start"
      <4>1. /\ conv' = [conv EXCEPT ![u] = v] /\ status' = [status EXCEPT ![u] = "outgoing"]
            /\ shown' = [shown EXCEPT ![u] = v]
        BY <2>2, <3>1
      <4>2. "outgoing" \in Statuses
        BY DEF Statuses
      <4> QED BY <3>1, <4>1, <4>2 DEF IInv, Typed
    <3>2. CASE kind = "accept"
      BY <2>2, <3>2 DEF IInv, Typed
    <3> QED BY <3>1, <3>2
  <2>5. Typed'
    BY <2>2, <2>3, <2>4 DEF IInv, Typed
  <2>6. ASSUME NEW x \in Users PROVE (Held(x) /\ Careful(x) /\ Meshed(x))'
    <3>1. CASE x = u
      <4>1. Held(u)' /\ Meshed(u)'
        BY <1>1, <2>2, <2>4, CallManagerAssumption DEF IInv, Held, Meshed
      <4>2. Careful(u)'
        BY <1>1, <2>2, <2>4, CallManagerAssumption DEF IInv, Careful
      <4> QED BY <3>1, <4>1, <4>2
    <3>2. CASE x # u
      BY <2>2, <2>4, <3>2 DEF IInv, Held, Careful, Meshed
    <3> QED BY <3>1, <3>2
  <2>7. ASSUME NEW x \in Users PROVE Offers(x)'
    BY <2>3 DEF IInv, Offers
  <2> QED BY <2>5, <2>6, <2>7 DEF IInv
<1>2. CASE ~local[u]
  <2>1. /\ pending' = [pending EXCEPT ![u] = @ \cup {[kind |-> kind, conv |-> v]}]
        /\ UNCHANGED <<up, conv, local, mics, status, shown>>
    BY <1>2 DEF Acquire, store
  <2>2. Typed'
    <3>1. [kind |-> kind, conv |-> v] \in Waits
      BY DEF Waits
    <3>2. pending' \in [Users -> SUBSET Waits]
      BY <2>1, <3>1 DEF IInv, Typed
    <3> QED BY <2>1, <3>2 DEF IInv, Typed
  <2>3. ASSUME NEW x \in Users PROVE Careful(x)'
    <3>1. CASE x = u
      BY <1>2, <2>1, <3>1 DEF IInv, Typed, Careful
    <3>2. CASE x # u
      BY <2>1, <3>2 DEF IInv, Typed, Careful
    <3> QED BY <3>1, <3>2
  <2>4. ASSUME NEW x \in Users PROVE (Held(x) /\ Meshed(x) /\ Offers(x))'
    BY <2>1 DEF IInv, Held, Meshed, Offers
  <2> QED BY <2>2, <2>3, <2>4 DEF IInv
<1> QED BY <1>1, <1>2

LEMMA GrantedInv ==
  ASSUME IInv, NEW u \in Users, NEW p \in pending[u], Granted(u, p)
  PROVE  IInv'
<1> DEFINE e == Event("join", p.conv, u, {})
<1>1. /\ p \in Waits /\ p.conv \in Convs /\ p.kind \in {"start", "accept"}
      /\ e \in Events /\ e.type = "join"
  BY EventType DEF IInv, Typed, Waits, Types
<1>2. /\ pending' = [pending EXCEPT ![u] = @ \ {p}]
      /\ local' = [local EXCEPT ![u] = TRUE] /\ mics' = [mics EXCEPT ![u] = @ + 1]
      /\ conv' = [conv EXCEPT ![u] = p.conv] /\ Send(u, e)
      /\ IF p.kind = "start"
           THEN /\ status' = [status EXCEPT ![u] = "outgoing"]
                /\ shown' = [shown EXCEPT ![u] = p.conv]
           ELSE status' = status /\ shown' = shown
      /\ UNCHANGED <<calls, wire, inbox, peers, loops, answers, clicks, rash, crossed, parted>>
  BY DEF Granted, Enter, store, mesh, history
<1> HIDE DEF e
<1>3. /\ up' \in [Users -> Seq(Events)]
      /\ \A i \in 1..Len(up'[u]) : up'[u][i].type = "offer" => u < up'[u][i].other
      /\ \A x \in Users \ {u} : up'[x] = up[x]
  BY <1>1, <1>2, SendInv DEF IInv
<1>4. /\ status' \in [Users -> Statuses] /\ shown' \in [Users -> Convs \cup {NoConv}]
      /\ p.kind = "start" => status'[u] = "outgoing" /\ shown'[u] = p.conv
      /\ p.kind = "accept" => status'[u] = status[u] /\ shown'[u] = shown[u]
      /\ \A x \in Users \ {u} : status'[x] = status[x] /\ shown'[x] = shown[x]
  <2>1. CASE p.kind = "start"
    <3>1. /\ status' = [status EXCEPT ![u] = "outgoing"] /\ "outgoing" \in Statuses
          /\ shown' = [shown EXCEPT ![u] = p.conv]
      BY <1>2, <2>1 DEF Statuses
    <3> QED BY <1>1, <2>1, <3>1 DEF IInv, Typed
  <2>2. CASE p.kind = "accept"
    BY <1>2, <2>2 DEF IInv, Typed
  <2> QED BY <1>1, <2>1, <2>2
<1>5. /\ mics[u] \in Nat /\ local'[u] = TRUE /\ mics'[u] = mics[u] + 1
      /\ conv'[u] = p.conv /\ pending'[u] = pending[u] \ {p}
  BY <1>2 DEF IInv, Typed
<1>6. Typed'
  <2>1. /\ pending' \in [Users -> SUBSET Waits] /\ local' \in [Users -> BOOLEAN]
        /\ mics' \in [Users -> Nat] /\ conv' \in [Users -> Convs \cup {NoConv}]
    BY <1>1, <1>2, <1>5 DEF IInv, Typed
  <2> QED BY <1>2, <1>3, <1>4, <2>1 DEF IInv, Typed
<1>7. ASSUME NEW x \in Users PROVE (Held(x) /\ Careful(x) /\ Meshed(x) /\ Offers(x))'
  <2>1. CASE x = u
    <3>1. Held(u)'
      BY <1>1, <1>4, <1>5, CallManagerAssumption DEF IInv, Held
    <3>2. ASSUME u \notin rash 
              PROVE  /\ mics[u] = 0 /\ pending'[u] = {} /\ shown'[u] = p.conv
                     /\ status'[u] # "idle"
      BY <1>1, <1>4, <1>5, <3>2 DEF IInv, Careful
    <3>3. Careful(u)'
      BY <1>1, <1>2, <1>5, <3>2, CallManagerAssumption DEF Careful
    <3>4. Meshed(u)'
      <4>1. conv'[u] # NoConv
        BY <1>1, <1>5, CallManagerAssumption
      <4> QED BY <1>2, <4>1 DEF IInv, Meshed
    <3>5. Offers(u)'
      BY <1>2, <1>3 DEF IInv, Offers
    <3> QED BY <2>1, <3>1, <3>3, <3>4, <3>5
  <2>2. CASE x # u
    <3>1. /\ local'[x] = local[x] /\ mics'[x] = mics[x] /\ conv'[x] = conv[x]
          /\ pending'[x] = pending[x] /\ up'[x] = up[x]
          /\ status'[x] = status[x] /\ shown'[x] = shown[x]
      BY <1>2, <1>3, <1>4, <2>2 DEF IInv, Typed
    <3>2. rash' = rash /\ Held(x) /\ Careful(x)
      BY <1>2 DEF IInv
    <3>3. Held(x)'
      BY <3>1, <3>2 DEF Held
    <3>4. Careful(x)'
      BY <3>1, <3>2 DEF Careful
    <3>5. Meshed(x)' /\ Offers(x)'
      BY <1>2, <3>1 DEF IInv, Meshed, Offers
    <3> QED BY <3>3, <3>4, <3>5
  <2> QED BY <2>1, <2>2
<1> QED BY <1>6, <1>7 DEF IInv

LEMMA RefusedInv ==
  ASSUME IInv, NEW u \in Users, NEW p \in pending[u], Refused(u, p)
  PROVE  IInv'
<1>1. /\ pending' = [pending EXCEPT ![u] = @ \ {p}]
      /\ UNCHANGED <<calls, up, wire, inbox, conv, local, mics, status, shown,
                     peers, loops, answers, clicks, rash, crossed, parted>>
  BY DEF Refused, server, store, mesh, history
<1>2. Typed'
  BY <1>1 DEF IInv, Typed
<1>3. ASSUME NEW x \in Users PROVE (Held(x) /\ Meshed(x) /\ Offers(x))'
  BY <1>1 DEF IInv, Held, Meshed, Offers
<1>4. ASSUME NEW x \in Users PROVE Careful(x)'
  <2>1. pending'[x] \subseteq pending[x]
    BY <1>1 DEF IInv, Typed
  <2> QED BY <1>1, <2>1 DEF IInv, Careful
<1> QED BY <1>2, <1>3, <1>4 DEF IInv

LEMMA DeclineInv ==
  ASSUME IInv, NEW u \in Users, Decline(u), clicks' \in [Users -> Nat]
  PROVE  IInv'
<1>1. /\ status' = [status EXCEPT ![u] = "idle"] /\ shown' = [shown EXCEPT ![u] = NoConv]
      /\ rash' = IF pending[u] # {} \/ conv[u] # NoConv THEN rash \cup {u} ELSE rash
      /\ UNCHANGED <<calls, up, wire, inbox, conv, local, mics, pending,
                     peers, loops, answers, crossed, parted>>
  BY DEF Decline, Rash, server, manager, mesh
<1>2. Typed'
  BY <1>1 DEF IInv, Typed, Statuses
<1>3. ASSUME NEW x \in Users PROVE (Meshed(x) /\ Offers(x))'
  BY <1>1 DEF IInv, Meshed, Offers
<1>4. ASSUME NEW x \in Users PROVE (Held(x) /\ Careful(x))'
  <2>1. status'[u] = "idle" /\ shown'[u] = NoConv
    BY <1>1 DEF IInv, Typed
  <2>2. CASE x = u
    BY <1>1, <2>1, <2>2 DEF IInv, Held, Careful
  <2>3. CASE x # u
    BY <1>1, <2>3 DEF IInv, Typed, Held, Careful
  <2> QED BY <2>2, <2>3
<1> QED BY <1>2, <1>3, <1>4 DEF IInv

(* A teardown leaves a tab with nothing but what it has sent.               *)
LEMMA TeardownInv ==
  ASSUME IInv, NEW u \in Users, Teardown(u), conv[u] # NoConv \/ status[u] \in {"outgoing", "active"},
         UNCHANGED <<pending, rash>>
  PROVE  /\ conv' \in [Users -> Convs \cup {NoConv}] /\ local' \in [Users -> BOOLEAN]
         /\ mics' \in [Users -> Nat] /\ status' \in [Users -> Statuses]
         /\ shown' \in [Users -> Convs \cup {NoConv}] /\ peers' \in [Users -> [Users -> Stages]]
         /\ loops' \in [Users -> SUBSET Loops] /\ answers' \in [Users -> SUBSET Answers]
         /\ \A x \in Users : (Held(x) /\ Careful(x) /\ Meshed(x))'
<1>1. "none" \in Stages /\ "idle" \in Statuses /\ "idle" \notin {"incoming", "outgoing", "active"}
  BY DEF Stages, Statuses
<1>2. /\ conv' = [conv EXCEPT ![u] = NoConv] /\ local' = [local EXCEPT ![u] = FALSE]
      /\ mics' = [mics EXCEPT ![u] = IF local[u] THEN @ - 1 ELSE @]
      /\ status' = [status EXCEPT ![u] = "idle"] /\ shown' = [shown EXCEPT ![u] = NoConv]
      /\ peers' = [peers EXCEPT ![u] = [w \in Users |-> "none"]]
      /\ loops' = [loops EXCEPT ![u] = {}] /\ answers' = [answers EXCEPT ![u] = {}]
  BY DEF Teardown
<1>3. mics[u] \in Nat /\ (local[u] => mics[u] > 0)
  BY DEF IInv, Typed, Held
<1>4. mics' \in [Users -> Nat] /\ mics'[u] = IF local[u] THEN mics[u] - 1 ELSE mics[u]
  BY <1>2, <1>3 DEF IInv, Typed
<1>5. /\ conv' \in [Users -> Convs \cup {NoConv}] /\ local' \in [Users -> BOOLEAN]
      /\ status' \in [Users -> Statuses] /\ shown' \in [Users -> Convs \cup {NoConv}]
      /\ peers' \in [Users -> [Users -> Stages]]
      /\ loops' \in [Users -> SUBSET Loops] /\ answers' \in [Users -> SUBSET Answers]
  BY <1>1, <1>2 DEF IInv, Typed, Loops, Answers
<1>6. /\ conv'[u] = NoConv /\ local'[u] = FALSE /\ status'[u] = "idle" /\ shown'[u] = NoConv
      /\ peers'[u] = [w \in Users |-> "none"] /\ loops'[u] = {} /\ answers'[u] = {}
  BY <1>2 DEF IInv, Typed
<1>7. ASSUME NEW x \in Users PROVE (Held(x) /\ Careful(x) /\ Meshed(x))'
  <2>1. CASE x = u
    <3>1. Held(u)' /\ Meshed(u)'
      BY <1>1, <1>6 DEF Held, Meshed
    <3>2. Careful(u)'
      BY <1>1, <1>3, <1>4, <1>6 DEF IInv, Held, Careful
    <3> QED BY <2>1, <3>1, <3>2
  <2>2. CASE x # u
    BY <1>2, <2>2, SameTab, SameMesh DEF IInv, Typed
  <2> QED BY <2>1, <2>2
<1> QED BY <1>4, <1>5, <1>7

LEMMA LeaveInv ==
  ASSUME IInv, NEW u \in Users, Leave(u), clicks' \in [Users -> Nat]
  PROVE  IInv'
<1>1. /\ Ongoing(u) /\ Teardown(u) /\ parted' = TRUE
      /\ UNCHANGED <<calls, wire, inbox, pending, rash, crossed>>
  BY DEF Leave
<1>2. /\ up' \in [Users -> Seq(Events)]
      /\ \A x \in Users : \A i \in 1..Len(up'[x]) : up'[x][i].type = "offer" => x < up'[x][i].other
  <2> DEFINE v == IF conv[u] # NoConv THEN conv[u] ELSE shown[u]
             e == Event("leave", v, u, {})
  <2>1. CASE v # NoConv
    <3>1. v \in Convs
      BY <2>1 DEF IInv, Typed
    <3>2. e \in Events /\ e.type = "leave"
      BY <3>1, EventType DEF Types
    <3>3. Send(u, e)
      BY <2>1 DEF Leave
    <3> HIDE DEF e
    <3> QED BY <3>2, <3>3, SendInv DEF IInv, Offers
  <2>2. CASE v = NoConv
    BY <2>2 DEF Leave, IInv, Typed, Offers
  <2> QED BY <2>1, <2>2
<1>3. status[u] \in {"outgoing", "active"}
  BY <1>1 DEF Ongoing
<1>4. Typed' /\ \A x \in Users : (Held(x) /\ Careful(x) /\ Meshed(x))'
  BY <1>1, <1>2, <1>3, TeardownInv DEF IInv, Typed, Loops, Answers
<1>5. ASSUME NEW x \in Users PROVE Offers(x)'
  BY <1>1, <1>2 DEF IInv, Offers
<1> QED BY <1>4, <1>5 DEF IInv

-----------------------------------------------------------------------------
(* What a tab hears                                                         *)

LEMMA HeardInv ==
  ASSUME Typed, NEW u \in Users, Offers(u), NEW type, Heard(u, type)
  PROVE  /\ Head(inbox[u]) \in Events /\ Head(inbox[u]).type = type
         /\ type = "offer" => Head(inbox[u]).other < u
         /\ inbox' \in [Users -> Seq(Events)]
         /\ \A i \in 1..Len(inbox'[u]) : inbox'[u][i].type = "offer" => inbox'[u][i].other < u
         /\ \A x \in Users \ {u} : inbox'[x] = inbox[x]
<1>1. /\ inbox[u] \in Seq(Events) /\ inbox[u] # <<>> /\ Head(inbox[u]).type = type
      /\ inbox' = [inbox EXCEPT ![u] = Tail(@)]
  BY DEF Heard, Typed
<1>2. inbox'[u] = Tail(inbox[u]) /\ \A x \in Users \ {u} : inbox'[x] = inbox[x]
  BY <1>1 DEF Typed
<1>3. /\ Head(inbox[u]) \in Events /\ Head(inbox[u]) = inbox[u][1] /\ 1 \in 1..Len(inbox[u])
      /\ Tail(inbox[u]) \in Seq(Events)
      /\ \A i \in 1..Len(Tail(inbox[u])) :
           i + 1 \in 1..Len(inbox[u]) /\ Tail(inbox[u])[i] = inbox[u][i + 1]
  BY <1>1, HeadTail
<1>4. inbox' \in [Users -> Seq(Events)]
  BY <1>1, <1>3 DEF Typed
<1> QED BY <1>1, <1>2, <1>3, <1>4 DEF Offers

(* The loop of handleCallJoined disturbs no connection that exists.         *)
Offering(u, ps, ls) ==
  /\ ps \in [Users -> Stages] /\ ls \in SUBSET Loops
  /\ \A l \in ls : ps[l.on] = "creating" /\ u < l.on
  /\ \A l, k \in ls : l.on = k.on => l = k

Connected(u, ps) ==
  /\ peers' \in [Users -> [Users -> Stages]] /\ loops' \in [Users -> SUBSET Loops]
  /\ Offering(u, peers[u], loops[u])'
  /\ \A w \in Users : ps[w] # "none" => peers'[u][w] = ps[w]
  /\ \A x \in Users \ {u} : peers'[x] = peers[x] /\ loops'[x] = loops[x]

LEMMA ConnectInv ==
  ASSUME Typed, NEW u \in Users, NEW v \in Convs, NEW ps, NEW rest \in SUBSET Users,
         NEW others, Offering(u, ps, others), Connect(u, v, ps, rest, others)
  PROVE  Connected(u, ps)
<1> DEFINE fresh == {w \in rest : ps[w] = "none"}
           larger == {w \in fresh : u < w}
           Opened(done) == [w \in Users |-> IF w \in done \cap fresh THEN "new" ELSE ps[w]]
<1> USE DEF Offering
<1>0. "new" \in Stages /\ "creating" \in Stages /\ "creating" # "none" /\ \A l \in others : l.on \in Users
  BY DEF Stages, Loops
<1>1. CASE larger = {}
  <2>1. peers' = [peers EXCEPT ![u] = Opened(rest)] /\ loops' = [loops EXCEPT ![u] = others]
    BY <1>1 DEF Connect
  <2>2. Opened(rest) \in [Users -> Stages]
    BY <1>0
  <2>3. peers'[u] = Opened(rest) /\ loops'[u] = others
    BY <2>1 DEF Typed
  <2>4. peers' \in [Users -> [Users -> Stages]] /\ loops' \in [Users -> SUBSET Loops]
    BY <2>1, <2>2 DEF Typed, Loops
  <2> QED BY <1>0, <2>1, <2>3, <2>4 DEF Typed, Connected
<1>2. CASE larger # {}
  <2>1. PICK w \in larger, done \in SUBSET (rest \ larger) :
          /\ peers' = [peers EXCEPT ![u] = [Opened(done) EXCEPT ![w] = "creating"]]
          /\ loops' = [loops EXCEPT ![u] = others \cup
               {[conv |-> v, on |-> w, rest |-> rest \ (done \cup {w})]}]
    BY <1>2 DEF Connect
  <2> DEFINE l0 == [conv |-> v, on |-> w, rest |-> rest \ (done \cup {w})]
             ps1 == [Opened(done) EXCEPT ![w] = "creating"]
  <2>2. l0 \in Loops /\ l0.on = w /\ w \in Users /\ u < w /\ ps[w] = "none"
    BY DEF Loops
  <2>3. /\ ps1 \in [Users -> Stages] /\ ps1[w] = "creating"
        /\ \A x \in Users : ps[x] # "none" => ps1[x] = ps[x]
    BY <1>0, <2>2
  <2> HIDE DEF l0, ps1
  <2>4. peers' = [peers EXCEPT ![u] = ps1] /\ loops' = [loops EXCEPT ![u] = others \cup {l0}]
    BY <2>1 DEF l0, ps1
  <2>5. peers'[u] = ps1 /\ loops'[u] = others \cup {l0}
    BY <2>4 DEF Typed
  <2>6. peers' \in [Users -> [Users -> Stages]] /\ loops' \in [Users -> SUBSET Loops]
    BY <2>2, <2>3, <2>4 DEF Typed, Loops
  <2>7. \A l \in others \cup {l0} : ps1[l.on] = "creating" /\ u < l.on
    BY <1>0, <2>2, <2>3
  <2>8. \A l, k \in others \cup {l0} : l.on = k.on => l = k
    BY <1>0, <2>2
  <2> QED BY <2>3, <2>4, <2>5, <2>6, <2>7, <2>8 DEF Typed, Connected
<1> QED BY <1>1, <1>2

LEMMA HeardQueues ==
  ASSUME IInv, NEW u \in Users, NEW type, Heard(u, type), UNCHANGED <<up, wire>>
  PROVE  \A x \in Users : Offers(x)'
<1>1. ASSUME NEW x \in Users PROVE Offers(x)'
  <2>1. CASE x = u
    BY <2>1, HeardInv DEF IInv, Offers
  <2>2. CASE x # u
    BY <2>2, HeardInv, SameQueues DEF IInv
  <2> QED BY <2>1, <2>2
<1> QED BY <1>1

(* InCall is about a conversation: the tab is in a call.                    *)
LEMMA InACall ==
  ASSUME IInv, NEW u \in Users, NEW type, Heard(u, type), InCall(u)
  PROVE  /\ conv[u] \in Convs /\ conv[u] # NoConv
         /\ u \notin rash => shown[u] = conv[u] /\ pending[u] = {}
<1>1. Head(inbox[u]).conv \in Convs
  BY HeardInv DEF IInv, Events
<1> QED BY <1>1, CallManagerAssumption DEF InCall, IInv, Held, Careful

LEMMA HearCreatedInv ==
  ASSUME IInv, NEW u \in Users, HearCreated(u)
  PROVE  IInv'
<1>1. /\ Heard(u, "created")
      /\ IF status[u] = "idle"
           THEN /\ status' = [status EXCEPT ![u] = "incoming"]
                /\ shown' = [shown EXCEPT ![u] = Head(inbox[u]).conv]
           ELSE status' = status /\ shown' = shown
      /\ UNCHANGED <<calls, up, wire, conv, local, mics, pending, peers, loops, answers,
                     clicks, rash, crossed, parted>>
  BY DEF HearCreated, manager, mesh, history, store
<1>2. Head(inbox[u]).conv \in Convs
  BY <1>1, HeardInv DEF IInv, Events
<1>3. /\ status' \in [Users -> Statuses] /\ shown' \in [Users -> Convs \cup {NoConv}]
      /\ status[u] = "idle" => status'[u] = "incoming" /\ shown'[u] = Head(inbox[u]).conv
      /\ status[u] # "idle" => status'[u] = status[u] /\ shown'[u] = shown[u]
      /\ \A x \in Users \ {u} : status'[x] = status[x] /\ shown'[x] = shown[x]
  BY <1>1, <1>2 DEF IInv, Typed, Statuses
<1>4. Typed'
  BY <1>1, <1>3, HeardInv DEF IInv, Typed
<1>5. ASSUME NEW x \in Users PROVE (Held(x) /\ Careful(x))'
  <2>1. CASE x = u /\ status[u] = "idle"
    <3>1. Held(u)'
      BY <1>1, <1>2, <1>3, <2>1 DEF IInv, Held
    <3>2. u \notin rash => conv[u] = NoConv /\ \A p \in pending[u] : p.kind # "accept"
      BY <1>1, <2>1 DEF IInv, Careful
    <3>3. Careful(u)'
      BY <1>1, <1>3, <2>1, <3>2 DEF IInv, Careful
    <3> QED BY <2>1, <3>1, <3>3
  <2>2. CASE ~(x = u /\ status[u] = "idle")
    BY <1>1, <1>3, <2>2, SameTab
  <2> QED BY <2>1, <2>2
<1>6. \A x \in Users : (Meshed(x) /\ Offers(x))'
  BY <1>1, SameMesh, HeardQueues
<1> QED BY <1>4, <1>5, <1>6 DEF IInv

LEMMA HearEndedInv ==
  ASSUME IInv, NEW u \in Users, HearEnded(u)
  PROVE  IInv'
<1>1. /\ Heard(u, "ended")
      /\ IF InCall(u)
           THEN Teardown(u) /\ crossed' = crossed \cup {u}
           ELSE UNCHANGED <<conv, local, mics, status, shown, peers, loops, answers, crossed>>
      /\ UNCHANGED <<calls, up, wire, pending, clicks, rash, parted>>
  BY DEF HearEnded, mesh, store
<1>2. inbox' \in [Users -> Seq(Events)] /\ \A x \in Users : Offers(x)'
  BY <1>1, HeardInv, HeardQueues DEF IInv
<1>3. CASE InCall(u)
  <2>1. conv[u] # NoConv /\ Teardown(u) /\ crossed' = crossed \cup {u}
    BY <1>1, <1>3, InACall
  <2>2. Typed' /\ \A x \in Users : (Held(x) /\ Careful(x) /\ Meshed(x))'
    BY <1>1, <1>2, <2>1, TeardownInv DEF IInv, Typed, Loops, Answers
  <2> QED BY <1>2, <2>2 DEF IInv
<1>4. CASE ~InCall(u)
  <2>1. Typed'
    BY <1>1, <1>2, <1>4 DEF IInv, Typed
  <2>2. \A x \in Users : (Held(x) /\ Careful(x) /\ Meshed(x))'
    BY <1>1, <1>4, SameTab, SameMesh
  <2> QED BY <1>2, <2>1, <2>2 DEF IInv
<1> QED BY <1>3, <1>4

(* A call that the tab is in turns active.                                  *)
LEMMA ActiveInv ==
  ASSUME IInv, NEW u \in Users, conv[u] # NoConv,
         u \notin rash => shown[u] = conv[u] /\ pending[u] = {},
         status' = [status EXCEPT ![u] = "active"],
         UNCHANGED <<conv, local, mics, pending, shown, rash>>
  PROVE  /\ status' \in [Users -> Statuses]
         /\ \A x \in Users : (Held(x) /\ Careful(x))'
<1>1. /\ status' \in [Users -> Statuses] /\ status'[u] = "active"
      /\ \A x \in Users \ {u} : status'[x] = status[x]
  BY DEF IInv, Typed, Statuses
<1>2. ASSUME NEW x \in Users PROVE (Held(x) /\ Careful(x))'
  <2>1. CASE x = u
    BY <1>1, <2>1 DEF IInv, Held, Careful
  <2>2. CASE x # u
    BY <1>1, <2>2, SameTab
  <2> QED BY <2>1, <2>2
<1> QED BY <1>1, <1>2

(* The connections of one tab change, and nobody's conversation.            *)
LEMMA MeshedOthers ==
  ASSUME IInv, NEW u \in Users, conv[u] # NoConv, conv' = conv,
         \A x \in Users \ {u} : /\ peers'[x] = peers[x] /\ loops'[x] = loops[x]
                                /\ answers'[x] = answers[x],
         \A l \in loops'[u] : peers'[u][l.on] = "creating" /\ u < l.on,
         \A l, k \in loops'[u] : l.on = k.on => l = k,
         \A a \in answers'[u] : peers'[u][a.to] \in {"answering", "stable"} /\ a.to < u
  PROVE  \A x \in Users : Meshed(x)'
<1>1. Meshed(u)'
  BY DEF Meshed
<1>2. ASSUME NEW x \in Users \ {u} PROVE Meshed(x)'
  BY SameMesh
<1> QED BY <1>1, <1>2

LEMMA HearJoinedInv ==
  ASSUME IInv, NEW u \in Users, HearJoined(u)
  PROVE  IInv'
<1> DEFINE e == Head(inbox[u])
<1>1. /\ Heard(u, "joined")
      /\ IF InCall(u)
           THEN /\ status' = [status EXCEPT ![u] = "active"]
                /\ Connect(u, e.conv, peers[u], e.participants \ {u}, loops[u])
           ELSE UNCHANGED <<status, peers, loops>>
      /\ UNCHANGED <<calls, up, wire, conv, local, mics, pending, shown, answers,
                     clicks, rash, crossed, parted>>
  BY DEF HearJoined, manager, history
<1>2. /\ inbox' \in [Users -> Seq(Events)] /\ \A x \in Users : Offers(x)'
      /\ e.conv \in Convs /\ e.participants \in SUBSET Users
  BY <1>1, HeardInv, HeardQueues DEF IInv, Events
<1>3. CASE InCall(u)
  <2>1. conv[u] # NoConv /\ (u \notin rash => shown[u] = conv[u] /\ pending[u] = {})
    BY <1>1, <1>3, InACall
  <2>2. status' \in [Users -> Statuses] /\ \A x \in Users : (Held(x) /\ Careful(x))'
    BY <1>1, <1>3, <2>1, ActiveInv
  <2>3. Connect(u, e.conv, peers[u], e.participants \ {u}, loops[u])
    BY <1>1, <1>3
  <2>4. Offering(u, peers[u], loops[u]) /\ e.participants \ {u} \in SUBSET Users
    BY <1>2 DEF IInv, Typed, Loops, Meshed, Offering
  <2> HIDE DEF e
  <2>5. Connected(u, peers[u])
    BY <1>2, <2>3, <2>4, ConnectInv DEF IInv
  <2>6. \A a \in answers'[u] : peers'[u][a.to] \in {"answering", "stable"} /\ a.to < u
    <3>1. \A a \in answers[u] :
            a.to \in Users /\ peers[u][a.to] \in {"answering", "stable"} /\ a.to < u
      BY DEF IInv, Typed, Meshed
    <3>2. \A w \in Users : peers[u][w] # "none" => peers'[u][w] = peers[u][w]
      BY <2>5 DEF Connected
    <3> QED BY <1>1, <3>1, <3>2
  <2>7. \A x \in Users : Meshed(x)'
    BY <1>1, <2>1, <2>5, <2>6, MeshedOthers DEF Connected, Offering
  <2>8. Typed'
    BY <1>1, <1>2, <2>2, <2>5 DEF IInv, Typed, Loops, Connected
  <2> QED BY <1>2, <2>2, <2>7, <2>8 DEF IInv
<1>4. CASE ~InCall(u)
  <2>1. Typed'
    BY <1>1, <1>2, <1>4 DEF IInv, Typed
  <2>2. \A x \in Users : (Held(x) /\ Careful(x) /\ Meshed(x))'
    BY <1>1, <1>4, SameTab, SameMesh
  <2> QED BY <1>2, <2>1, <2>2 DEF IInv
<1> QED BY <1>3, <1>4

LEMMA MakeOfferInv ==
  ASSUME IInv, NEW u \in Users, NEW l \in loops[u], MakeOffer(u, l)
  PROVE  IInv'
<1> DEFINE e == Event("offer", l.conv, l.on, {})
           ps == [peers[u] EXCEPT ![l.on] = "offered"]
<1>1. /\ Send(u, e) /\ Connect(u, l.conv, ps, l.rest, loops[u] \ {l})
      /\ UNCHANGED <<calls, wire, inbox, conv, local, mics, pending, status, shown, answers,
                     clicks, rash, crossed, parted>>
  BY DEF MakeOffer, manager, store, history
<1>2. /\ l.conv \in Convs /\ l.on \in Users /\ l.rest \in SUBSET Users
      /\ peers[u][l.on] = "creating" /\ u < l.on
      /\ loops[u] \ {l} \in SUBSET Loops /\ \A k \in loops[u] : k.on \in Users
  BY DEF IInv, Typed, Loops, Meshed
<1>3. e \in Events /\ e.type = "offer" /\ e.other = l.on
  BY <1>2, EventType DEF Types
<1>4. /\ up' \in [Users -> Seq(Events)]
      /\ \A i \in 1..Len(up'[u]) : up'[u][i].type = "offer" => u < up'[u][i].other
      /\ \A x \in Users \ {u} : up'[x] = up[x]
  <2> HIDE DEF e
  <2> QED BY <1>1, <1>2, <1>3, SendInv DEF IInv
<1>5. Offering(u, ps, loops[u] \ {l})
  <2>1. \A k \in loops[u] \ {l} : peers[u][k.on] = "creating" /\ u < k.on /\ k.on # l.on
    BY DEF IInv, Meshed
  <2>2. \A k, m \in loops[u] : k.on = m.on => k = m
    BY DEF IInv, Meshed
  <2>3. ps \in [Users -> Stages]
    BY <1>2 DEF IInv, Typed, Stages
  <2> QED BY <1>2, <2>1, <2>2, <2>3 DEF Offering
<1>6. \A a \in answers[u] : ps[a.to] = peers[u][a.to] /\ ps[a.to] # "none" /\ a.to \in Users
  <2>1. \A a \in answers[u] : /\ a.to \in Users /\ a.to < u
                              /\ peers[u][a.to] \in {"answering", "stable"}
    BY DEF IInv, Typed, Meshed
  <2>2. peers[u] \in [Users -> Stages]
    BY DEF IInv, Typed
  <2>3. \A a \in answers[u] : a.to # l.on
    BY <1>2, <2>1, CallManagerAssumption
  <2> QED BY <2>1, <2>2, <2>3
<1> HIDE DEF e, ps
<1>7. Connected(u, ps)
  BY <1>1, <1>2, <1>5, ConnectInv DEF IInv
<1>8. conv[u] # NoConv
  BY <1>2 DEF IInv, Meshed
<1>9. \A x \in Users : Meshed(x)'
  <2>1. \A a \in answers'[u] : peers'[u][a.to] \in {"answering", "stable"} /\ a.to < u
    BY <1>1, <1>6, <1>7 DEF IInv, Meshed, Connected
  <2> QED BY <1>1, <1>7, <1>8, <2>1, MeshedOthers DEF Connected, Offering
<1>10. Typed'
  BY <1>1, <1>4, <1>7 DEF IInv, Typed, Loops, Connected
<1>11. \A x \in Users : (Held(x) /\ Careful(x))'
  BY <1>1, SameTab
<1>12. \A x \in Users : Offers(x)'
  BY <1>1, <1>4 DEF IInv, Offers
<1> QED BY <1>9, <1>10, <1>11, <1>12 DEF IInv

LEMMA HearLeftInv ==
  ASSUME IInv, NEW u \in Users, HearLeft(u)
  PROVE  IInv'
<1> DEFINE w == Head(inbox[u]).other
<1>1. /\ Heard(u, "left")
      /\ IF InCall(u)
           THEN /\ peers' = [peers EXCEPT ![u][w] = "none"]
                /\ loops' = [loops EXCEPT ![u] = {l \in @ : l.on # w}]
                /\ answers' = [answers EXCEPT ![u] = {a \in @ : a.to # w}]
                /\ status' = [status EXCEPT ![u] = "active"]
           ELSE UNCHANGED <<peers, loops, answers, status>>
      /\ UNCHANGED <<calls, up, wire, conv, local, mics, pending, shown,
                     clicks, rash, crossed, parted>>
  BY DEF HearLeft, manager, history, mesh
<1>2. inbox' \in [Users -> Seq(Events)] /\ w \in Users /\ \A x \in Users : Offers(x)'
  BY <1>1, HeardInv, HeardQueues DEF IInv, Events
<1> HIDE DEF w
<1>3. CASE InCall(u)
  <2>1. conv[u] # NoConv /\ (u \notin rash => shown[u] = conv[u] /\ pending[u] = {})
    BY <1>1, <1>3, InACall
  <2>2. status' \in [Users -> Statuses] /\ \A x \in Users : (Held(x) /\ Careful(x))'
    BY <1>1, <1>3, <2>1, ActiveInv
  <2>3. /\ peers' = [peers EXCEPT ![u] = [peers[u] EXCEPT ![w] = "none"]]
        /\ loops' = [loops EXCEPT ![u] = {l \in loops[u] : l.on # w}]
        /\ answers' = [answers EXCEPT ![u] = {a \in answers[u] : a.to # w}]
    BY <1>1, <1>3 DEF IInv, Typed
  <2>4. peers[u] \in [Users -> Stages] /\ "none" \in Stages
    BY DEF IInv, Typed, Stages
  <2>5. /\ peers' \in [Users -> [Users -> Stages]] /\ loops' \in [Users -> SUBSET Loops]
        /\ answers' \in [Users -> SUBSET Answers]
    BY <1>2, <2>3, <2>4 DEF IInv, Typed, Loops, Answers
  <2>6. /\ peers'[u] = [peers[u] EXCEPT ![w] = "none"]
        /\ loops'[u] = {l \in loops[u] : l.on # w} /\ answers'[u] = {a \in answers[u] : a.to # w}
        /\ \A x \in Users \ {u} : /\ peers'[x] = peers[x] /\ loops'[x] = loops[x]
                                  /\ answers'[x] = answers[x]
    BY <2>3 DEF IInv, Typed
  <2>7. /\ \A l \in loops[u] : l.on \in Users /\ peers[u][l.on] = "creating" /\ u < l.on
        /\ \A l, k \in loops[u] : l.on = k.on => l = k
        /\ \A a \in answers[u] : /\ a.to \in Users /\ a.to < u
                                 /\ peers[u][a.to] \in {"answering", "stable"}
    BY DEF IInv, Typed, Meshed
  <2>8. \A x \in Users : Meshed(x)'
    <3>1. \A l \in loops'[u] : peers'[u][l.on] = "creating" /\ u < l.on
      BY <2>4, <2>6, <2>7
    <3>2. \A l, k \in loops'[u] : l.on = k.on => l = k
      BY <2>6, <2>7
    <3>3. \A a \in answers'[u] : peers'[u][a.to] \in {"answering", "stable"} /\ a.to < u
      BY <2>4, <2>6, <2>7
    <3> QED BY <1>1, <2>1, <2>6, <3>1, <3>2, <3>3, MeshedOthers
  <2>9. Typed'
    BY <1>1, <1>2, <2>2, <2>5 DEF IInv, Typed, Loops, Answers
  <2> QED BY <1>2, <2>2, <2>8, <2>9 DEF IInv
<1>4. CASE ~InCall(u)
  <2>1. Typed'
    BY <1>1, <1>2, <1>4 DEF IInv, Typed
  <2>2. \A x \in Users : (Held(x) /\ Careful(x) /\ Meshed(x))'
    BY <1>1, <1>4, SameTab, SameMesh
  <2> QED BY <1>2, <2>1, <2>2 DEF IInv
<1> QED BY <1>3, <1>4

(* The offer comes from a smaller id, so no own offer is under way there.   *)
LEMMA HearOfferInv ==
  ASSUME IInv, NEW u \in Users, HearOffer(u)
  PROVE  IInv'
<1> DEFINE w == Head(inbox[u]).other
           a0 == [conv |-> Head(inbox[u]).conv, to |-> w]
<1>1. /\ Heard(u, "offer")
      /\ IF InCall(u)
           THEN /\ peers' = [peers EXCEPT ![u][w] = "answering"]
                /\ answers' = [answers EXCEPT ![u] = @ \cup {a0}]
           ELSE UNCHANGED <<peers, answers>>
      /\ UNCHANGED <<calls, up, wire, conv, local, mics, pending, status, shown, loops,
                     clicks, rash, crossed, parted>>
  BY DEF HearOffer, manager, history, store
<1>2. /\ inbox' \in [Users -> Seq(Events)] /\ \A x \in Users : Offers(x)'
      /\ w \in Users /\ w < u /\ a0 \in Answers /\ a0.to = w
  BY <1>1, HeardInv, HeardQueues DEF IInv, Events, Answers
<1> HIDE DEF w, a0
<1>3. \A x \in Users : (Held(x) /\ Careful(x))'
  BY <1>1, SameTab
<1>4. CASE InCall(u)
  <2>1. conv[u] # NoConv
    BY <1>1, <1>4, InACall
  <2>2. /\ peers' = [peers EXCEPT ![u] = [peers[u] EXCEPT ![w] = "answering"]]
        /\ answers' = [answers EXCEPT ![u] = answers[u] \cup {a0}]
    BY <1>1, <1>4 DEF IInv, Typed
  <2>3. peers[u] \in [Users -> Stages] /\ "answering" \in Stages
    BY DEF IInv, Typed, Stages
  <2>4. peers' \in [Users -> [Users -> Stages]] /\ answers' \in [Users -> SUBSET Answers]
    BY <1>2, <2>2, <2>3 DEF IInv, Typed, Answers
  <2>5. /\ peers'[u] = [peers[u] EXCEPT ![w] = "answering"] /\ answers'[u] = answers[u] \cup {a0}
        /\ \A x \in Users \ {u} : /\ peers'[x] = peers[x] /\ loops'[x] = loops[x]
                                  /\ answers'[x] = answers[x]
    BY <1>1, <2>2 DEF IInv, Typed
  <2>6. /\ \A l \in loops[u] : l.on \in Users /\ peers[u][l.on] = "creating" /\ u < l.on
        /\ \A l, k \in loops[u] : l.on = k.on => l = k
        /\ \A a \in answers[u] : /\ a.to \in Users /\ a.to < u
                                 /\ peers[u][a.to] \in {"answering", "stable"}
    BY DEF IInv, Typed, Meshed
  <2>7. \A x \in Users : Meshed(x)'
    <3>1. ASSUME NEW l \in loops[u] PROVE l.on # w
      <4>1. u < l.on /\ w < u /\ u \in Nat /\ w \in Nat /\ l.on \in Nat
        BY <1>2, <2>6, CallManagerAssumption
      <4> QED BY <4>1
    <3>2. \A l \in loops'[u] : peers'[u][l.on] = "creating" /\ u < l.on
      BY <1>1, <2>3, <2>5, <2>6, <3>1
    <3>3. \A l, k \in loops'[u] : l.on = k.on => l = k
      BY <1>1, <2>6
    <3>4. ASSUME NEW a \in answers'[u]
          PROVE  peers'[u][a.to] \in {"answering", "stable"} /\ a.to < u
      <4>1. CASE a = a0
        BY <1>2, <2>3, <2>5, <4>1
      <4>2. CASE a \in answers[u] /\ a.to # w
        BY <2>3, <2>5, <2>6, <4>2
      <4>3. CASE a \in answers[u] /\ a.to = w
        BY <1>2, <2>3, <2>5, <4>3
      <4> QED BY <2>5, <4>1, <4>2, <4>3
    <3> QED BY <1>1, <2>1, <2>5, <3>2, <3>3, <3>4, MeshedOthers
  <2>8. Typed'
    BY <1>1, <1>2, <2>4 DEF IInv, Typed, Answers
  <2> QED BY <1>2, <1>3, <2>7, <2>8 DEF IInv
<1>5. CASE ~InCall(u)
  <2>1. Typed'
    BY <1>1, <1>2, <1>5 DEF IInv, Typed
  <2>2. \A x \in Users : Meshed(x)'
    BY <1>1, <1>5, SameMesh
  <2> QED BY <1>2, <1>3, <2>1, <2>2 DEF IInv
<1> QED BY <1>4, <1>5

(* One connection takes a description, and is not one an offer is made on.  *)
LEMMA StableInv ==
  ASSUME IInv, NEW u \in Users, NEW w \in Users, NEW ls \in SUBSET answers[u],
         peers[u][w] # "none", peers[u][w] # "creating",
         peers' = [peers EXCEPT ![u][w] = "stable"],
         answers' = [answers EXCEPT ![u] = ls],
         UNCHANGED <<conv, loops>>
  PROVE  /\ peers' \in [Users -> [Users -> Stages]] /\ answers' \in [Users -> SUBSET Answers]
         /\ \A x \in Users : Meshed(x)'
<1>1. peers[u] \in [Users -> Stages] /\ "stable" \in Stages /\ ls \in SUBSET Answers
  BY DEF IInv, Typed, Stages, Answers
<1>2. peers' = [peers EXCEPT ![u] = [peers[u] EXCEPT ![w] = "stable"]]
  BY DEF IInv, Typed
<1>3. peers' \in [Users -> [Users -> Stages]] /\ answers' \in [Users -> SUBSET Answers]
  BY <1>1, <1>2 DEF IInv, Typed, Answers
<1>4. /\ peers'[u] = [peers[u] EXCEPT ![w] = "stable"] /\ answers'[u] = ls
      /\ \A x \in Users \ {u} : peers'[x] = peers[x] /\ answers'[x] = answers[x]
  BY <1>2 DEF IInv, Typed
<1>5. /\ conv[u] # NoConv
      /\ \A l \in loops[u] : l.on \in Users /\ peers[u][l.on] = "creating" /\ u < l.on
      /\ \A l, k \in loops[u] : l.on = k.on => l = k
      /\ \A a \in ls : /\ a.to \in Users /\ a.to < u
                       /\ peers[u][a.to] \in {"answering", "stable"}
  BY DEF IInv, Typed, Meshed
<1>6. \A l \in loops'[u] : peers'[u][l.on] = "creating" /\ u < l.on
  BY <1>1, <1>4, <1>5
<1>7. \A l, k \in loops'[u] : l.on = k.on => l = k
  BY <1>5
<1>8. \A a \in answers'[u] : peers'[u][a.to] \in {"answering", "stable"} /\ a.to < u
  BY <1>1, <1>4, <1>5
<1> QED BY <1>3, <1>4, <1>5, <1>6, <1>7, <1>8, MeshedOthers

LEMMA MakeAnswerInv ==
  ASSUME IInv, NEW u \in Users, NEW a \in answers[u], MakeAnswer(u, a)
  PROVE  IInv'
<1> DEFINE e == Event("answer", a.conv, a.to, {})
<1>1. /\ answers' = [answers EXCEPT ![u] = answers[u] \ {a}]
      /\ peers' = [peers EXCEPT ![u][a.to] = "stable"] /\ Send(u, e)
      /\ UNCHANGED <<calls, wire, inbox, conv, local, mics, pending, status, shown, loops,
                     clicks, rash, crossed, parted>>
  BY DEF MakeAnswer, manager, store, history, IInv, Typed
<1>2. /\ a.conv \in Convs /\ a.to \in Users
      /\ peers[u][a.to] # "none" /\ peers[u][a.to] # "creating"
  <2>1. a \in Answers
    BY DEF IInv, Typed, Answers
  <2>2. peers[u][a.to] \in {"answering", "stable"}
    BY DEF IInv, Meshed
  <2> QED BY <2>1, <2>2 DEF Answers
<1>3. e \in Events /\ e.type = "answer"
  BY <1>2, EventType DEF Types
<1> HIDE DEF e
<1>4. /\ up' \in [Users -> Seq(Events)]
      /\ \A i \in 1..Len(up'[u]) : up'[u][i].type = "offer" => u < up'[u][i].other
      /\ \A x \in Users \ {u} : up'[x] = up[x]
  BY <1>1, <1>3, SendInv DEF IInv
<1>5. /\ peers' \in [Users -> [Users -> Stages]] /\ answers' \in [Users -> SUBSET Answers]
      /\ \A x \in Users : Meshed(x)'
  BY <1>1, <1>2, StableInv
<1>6. \A x \in Users : (Held(x) /\ Careful(x))'
  BY <1>1, SameTab
<1>7. \A x \in Users : Offers(x)'
  BY <1>1, <1>4 DEF IInv, Offers
<1>8. Typed'
  BY <1>1, <1>4, <1>5 DEF IInv, Typed, Answers
<1> QED BY <1>5, <1>6, <1>7, <1>8 DEF IInv

LEMMA HearAnswerInv ==
  ASSUME IInv, NEW u \in Users, HearAnswer(u)
  PROVE  IInv'
<1> DEFINE w == Head(inbox[u]).other
<1>1. /\ Heard(u, "answer")
      /\ peers' = [peers EXCEPT ![u][w] = IF InCall(u) /\ @ = "offered" THEN "stable" ELSE @]
      /\ UNCHANGED <<calls, up, wire, conv, local, mics, pending, status, shown, loops, answers,
                     clicks, rash, crossed, parted>>
  BY DEF HearAnswer, manager, store, history
<1>2. inbox' \in [Users -> Seq(Events)] /\ w \in Users /\ \A x \in Users : Offers(x)'
  BY <1>1, HeardInv, HeardQueues DEF IInv, Events
<1> HIDE DEF w
<1>3. \A x \in Users : (Held(x) /\ Careful(x))'
  BY <1>1, SameTab
<1>4. CASE InCall(u) /\ peers[u][w] = "offered"
  <2>1. /\ peers' = [peers EXCEPT ![u][w] = "stable"]
        /\ answers' = [answers EXCEPT ![u] = answers[u]]
    BY <1>1, <1>4 DEF IInv, Typed
  <2>2. peers' \in [Users -> [Users -> Stages]] /\ \A x \in Users : Meshed(x)'
    BY <1>1, <1>2, <1>4, <2>1, StableInv
  <2>3. Typed'
    BY <1>1, <1>2, <2>2 DEF IInv, Typed
  <2> QED BY <1>2, <1>3, <2>2, <2>3 DEF IInv
<1>5. CASE ~(InCall(u) /\ peers[u][w] = "offered")
  <2>1. peers' = peers
    BY <1>1, <1>2, <1>5 DEF IInv, Typed
  <2>2. Typed' /\ \A x \in Users : Meshed(x)'
    BY <1>1, <1>2, <2>1, SameMesh DEF IInv, Typed
  <2> QED BY <1>2, <1>3, <2>2 DEF IInv
<1> QED BY <1>4, <1>5

-----------------------------------------------------------------------------
(* The server                                                               *)

Wired == [to : Users, event : Events]
Smaller(ws) == \A i \in 1..Len(ws) : ws[i].event.type = "offer" => ws[i].event.other < ws[i].to

(* A handler takes an event from the socket, changes the calls and has      *)
(* something to write.                                                      *)
LEMMA HandledInv ==
  ASSUME IInv, NEW u \in Users, NEW type, Handled(u, type),
         NEW ws \in Seq(Wired), Smaller(ws), wire' = [wire EXCEPT ![u] = ws],
         calls' \in [Convs -> SUBSET Users],
         UNCHANGED <<inbox, manager, store, mesh, clicks, history>>
  PROVE  IInv'
<1>1. /\ up[u] \in Seq(Events) /\ up[u] # <<>>
      /\ up' = [up EXCEPT ![u] = Tail(@)]
      /\ UNCHANGED <<inbox, conv, local, mics, pending, status, shown, peers, loops, answers,
                     clicks, rash, crossed, parted>>
  BY DEF Handled, IInv, Typed, manager, store, mesh, history
<1>2. /\ Tail(up[u]) \in Seq(Events)
      /\ \A i \in 1..Len(Tail(up[u])) : i + 1 \in 1..Len(up[u]) /\ Tail(up[u])[i] = up[u][i + 1]
  BY <1>1, HeadTail
<1>3. /\ up' \in [Users -> Seq(Events)] /\ up'[u] = Tail(up[u])
      /\ wire' \in [Users -> Seq(Wired)] /\ wire'[u] = ws
      /\ \A x \in Users \ {u} : up'[x] = up[x] /\ wire'[x] = wire[x]
  BY <1>1, <1>2 DEF IInv, Typed, Wired
<1>4. Typed'
  BY <1>1, <1>3 DEF IInv, Typed, Wired
<1>5. ASSUME NEW x \in Users PROVE Offers(x)'
  <2>1. CASE x = u
    BY <1>1, <1>2, <1>3, <2>1 DEF IInv, Offers, Smaller
  <2>2. CASE x # u
    BY <1>1, <1>3, <2>2, SameQueues
  <2> QED BY <2>1, <2>2
<1>6. \A x \in Users : (Held(x) /\ Careful(x) /\ Meshed(x))'
  BY <1>1, SameTab, SameMesh
<1> QED BY <1>4, <1>5, <1>6 DEF IInv

LEMMA HeadUp ==
  ASSUME Typed, NEW u \in Users, NEW type, Handled(u, type)
  PROVE  /\ Head(up[u]) \in Events /\ Head(up[u]).type = type /\ wire[u] = <<>>
         /\ Head(up[u]) = up[u][1] /\ 1 \in 1..Len(up[u])
BY HeadTail DEF Handled, Typed

LEMMA Concat ==
  ASSUME NEW s \in Seq(Wired), NEW t \in Seq(Wired), Smaller(s), Smaller(t)
  PROVE  s \o t \in Seq(Wired) /\ Smaller(s \o t)
<1>1. s \o t \in Seq(Wired) /\ Len(s \o t) = Len(s) + Len(t)
  OBVIOUS
<1>2. ASSUME NEW i \in 1..Len(s \o t)
      PROVE  (s \o t)[i].event.type = "offer" => (s \o t)[i].event.other < (s \o t)[i].to
  <2>1. CASE i <= Len(s)
    <3>1. (s \o t)[i] = s[i] /\ i \in 1..Len(s)
      BY <2>1
    <3> QED BY <3>1 DEF Smaller
  <2>2. CASE i > Len(s)
    <3>1. (s \o t)[i] = t[i - Len(s)] /\ i - Len(s) \in 1..Len(t)
      BY <1>1, <2>2
    <3> QED BY <3>1 DEF Smaller
  <2> QED BY <2>1, <2>2
<1> QED BY <1>1, <1>2 DEF Smaller

LEMMA ToEachWired ==
  ASSUME NEW s \in Seq(Users), NEW e \in Events, e.type # "offer"
  PROVE  ToEach(s, e) \in Seq(Wired) /\ Smaller(ToEach(s, e))
BY ToEachType DEF Wired, Smaller

LEMMA HandleJoinInv ==
  ASSUME IInv, NEW u \in Users, HandleJoin(u)
  PROVE  IInv'
<1> DEFINE v == Head(up[u]).conv
           list == MembersOf[v]
           ring == Event("created", v, u, {})
           joined == Event("joined", v, u, calls[v] \cup {u})
           rings == IF calls[v] = {} /\ v \in Direct THEN Without(list, u) ELSE <<>>
           ws == ToEach(rings, ring) \o ToEach(list, joined)
<1>1. Handled(u, "join") /\ UNCHANGED <<inbox, manager, store, mesh, clicks, history>>
  BY DEF HandleJoin
<1>2. v \in Convs /\ list \in Seq(Users) /\ calls[v] \in SUBSET Users
  BY <1>1, HeadUp, CallManagerAssumption DEF IInv, Typed, Events
<1>3. CASE Member(u, v)
  <2>1. calls' = [calls EXCEPT ![v] = @ \cup {u}] /\ wire' = [wire EXCEPT ![u] = ws]
    BY <1>3 DEF HandleJoin
  <2>2. /\ ring \in Events /\ ring.type = "created"
        /\ joined \in Events /\ joined.type = "joined"
    BY <1>2, EventType DEF Types
  <2>3. rings \in Seq(Users)
    BY <1>2, <1>3, WithoutType DEF Member
  <2>4. calls' \in [Convs -> SUBSET Users]
    BY <1>2, <2>1 DEF IInv, Typed
  <2> HIDE DEF list, ring, joined, rings
  <2>5. ws \in Seq(Wired) /\ Smaller(ws)
    BY <1>2, <2>2, <2>3, ToEachWired, Concat
  <2> HIDE DEF ws
  <2> QED BY <1>1, <2>1, <2>4, <2>5, HandledInv
<1>4. CASE ~Member(u, v)
  <2>1. calls' = calls /\ wire' = [wire EXCEPT ![u] = <<>>]
    BY <1>1, <1>4, HeadUp DEF HandleJoin, IInv, Typed
  <2>2. <<>> \in Seq(Wired) /\ Smaller(<<>>) /\ calls' \in [Convs -> SUBSET Users]
    BY <2>1 DEF Smaller, IInv, Typed
  <2> QED BY <1>1, <2>1, <2>2, HandledInv
<1> QED BY <1>3, <1>4

LEMMA HandleLeaveInv ==
  ASSUME IInv, NEW u \in Users, HandleLeave(u)
  PROVE  IInv'
<1> DEFINE v == Head(up[u]).conv
           rest == calls[v] \ {u}
           left == Event(IF rest = {} THEN "ended" ELSE "left", v, u, rest)
           ws == IF calls[v] = {} THEN <<>> ELSE ToEach(MembersOf[v], left)
<1>1. /\ Handled(u, "leave") /\ UNCHANGED <<inbox, manager, store, mesh, clicks, history>>
      /\ calls' = [calls EXCEPT ![v] = rest]
  BY DEF HandleLeave
<1>2. v \in Convs /\ MembersOf[v] \in Seq(Users) /\ rest \in SUBSET Users
  BY <1>1, HeadUp, CallManagerAssumption DEF IInv, Typed, Events
<1>3. left \in Events /\ left.type # "offer"
  <2>1. CASE rest = {}
    BY <1>2, <2>1, EventType DEF Types
  <2>2. CASE rest # {}
    BY <1>2, <2>2, EventType DEF Types
  <2> QED BY <2>1, <2>2
<1>4. wire' = [wire EXCEPT ![u] = ws]
  BY <1>1, HeadUp DEF HandleLeave, IInv, Typed
<1> HIDE DEF left
<1>5. ws \in Seq(Wired) /\ Smaller(ws)
  <2>1. <<>> \in Seq(Wired) /\ Smaller(<<>>)
    BY DEF Smaller
  <2> QED BY <1>2, <1>3, <2>1, ToEachWired
<1>6. calls' \in [Convs -> SUBSET Users]
  BY <1>1, <1>2 DEF IInv, Typed
<1> HIDE DEF ws
<1> QED BY <1>1, <1>4, <1>5, <1>6, HandledInv

LEMMA HandleSignalInv ==
  ASSUME IInv, NEW u \in Users, HandleSignal(u)
  PROVE  IInv'
<1> DEFINE e == Head(up[u])
           back == [e EXCEPT !.other = u]
           ws == IF Member(u, e.conv) /\ Member(e.other, e.conv)
                   THEN ToEach(<<e.other>>, back) ELSE <<>>
<1>1. UNCHANGED <<calls, inbox, manager, store, mesh, clicks, history>>
  BY DEF HandleSignal
<1>2. PICK type : Handled(u, type)
  BY DEF HandleSignal
<1>3. e \in Events /\ wire[u] = <<>> /\ (e.type = "offer" => u < e.other)
  BY <1>2, HeadUp DEF IInv, Offers
<1>4. wire' = [wire EXCEPT ![u] = ws]
  BY <1>3 DEF HandleSignal, IInv, Typed
<1>5. back \in Events /\ back.type = e.type /\ back.other = u /\ e.other \in Users
  BY <1>3 DEF Events
<1> HIDE DEF back
<1>6. ToEach(<<e.other>>, back) = <<[to |-> e.other, event |-> back]>>
  BY DEF ToEach
<1>7. ws \in Seq(Wired) /\ Smaller(ws)
  <2>1. <<>> \in Seq(Wired) /\ Smaller(<<>>)
    BY DEF Smaller
  <2>2. ToEach(<<e.other>>, back) \in Seq(Wired)
    <3> DEFINE r == [to |-> e.other, event |-> back]
    <3>1. r \in Wired
      BY <1>5 DEF Wired
    <3> HIDE DEF r
    <3>2. <<r>> \in Seq(Wired)
      BY <3>1
    <3> QED BY <1>6, <3>2 DEF r
  <2>3. Smaller(ToEach(<<e.other>>, back))
    BY <1>3, <1>5, <1>6 DEF Smaller
  <2> QED BY <2>1, <2>2, <2>3
<1>8. calls' \in [Convs -> SUBSET Users]
  BY <1>1 DEF IInv, Typed
<1> HIDE DEF ws
<1> QED BY <1>1, <1>2, <1>4, <1>7, <1>8, HandledInv

LEMMA WriteInv ==
  ASSUME IInv, NEW u \in Users, Write(u)
  PROVE  IInv'
<1> DEFINE w == Head(wire[u])
<1>1. /\ wire[u] \in Seq(Wired) /\ wire[u] # <<>>
      /\ wire' = [wire EXCEPT ![u] = Tail(@)]
      /\ inbox' = [inbox EXCEPT ![w.to] = Append(@, w.event)]
      /\ UNCHANGED <<calls, up, conv, local, mics, pending, status, shown, peers, loops, answers,
                     clicks, rash, crossed, parted>>
  BY DEF Write, IInv, Typed, Wired, manager, store, mesh, history
<1>2. /\ w \in Wired /\ w = wire[u][1] /\ 1 \in 1..Len(wire[u])
      /\ Tail(wire[u]) \in Seq(Wired)
      /\ \A i \in 1..Len(Tail(wire[u])) :
           i + 1 \in 1..Len(wire[u]) /\ Tail(wire[u])[i] = wire[u][i + 1]
  BY <1>1, HeadTail
<1>3. w.to \in Users /\ w.event \in Events /\ (w.event.type = "offer" => w.event.other < w.to)
  BY <1>2 DEF Wired, IInv, Offers
<1>4. /\ wire' \in [Users -> Seq(Wired)] /\ wire'[u] = Tail(wire[u])
      /\ \A x \in Users \ {u} : wire'[x] = wire[x]
  BY <1>1, <1>2 DEF IInv, Typed, Wired
<1> HIDE DEF w
<1>5. /\ inbox[w.to] \in Seq(Events) /\ Append(inbox[w.to], w.event) \in Seq(Events)
      /\ \A i \in 1..Len(Append(inbox[w.to], w.event)) :
           \/ Append(inbox[w.to], w.event)[i] = w.event
           \/ /\ i \in 1..Len(inbox[w.to])
              /\ Append(inbox[w.to], w.event)[i] = inbox[w.to][i]
  BY <1>3, AppendEach DEF IInv, Typed
<1>6. /\ inbox' \in [Users -> Seq(Events)] /\ inbox'[w.to] = Append(inbox[w.to], w.event)
      /\ \A x \in Users \ {w.to} : inbox'[x] = inbox[x]
  BY <1>1, <1>3, <1>5 DEF IInv, Typed
<1>7. Typed'
  BY <1>1, <1>4, <1>6 DEF IInv, Typed, Wired
<1>8. ASSUME NEW x \in Users PROVE Offers(x)'
  <2>1. \A i \in 1..Len(wire'[x]) :
          wire'[x][i].event.type = "offer" => wire'[x][i].event.other < wire'[x][i].to
    <3>1. CASE x = u
      <4>1. \A i \in 1..Len(wire[u]) :
              wire[u][i].event.type = "offer" => wire[u][i].event.other < wire[u][i].to
        BY DEF IInv, Offers
      <4>2. ASSUME NEW i \in 1..Len(Tail(wire[u]))
            PROVE  Tail(wire[u])[i].event.type = "offer"
                     => Tail(wire[u])[i].event.other < Tail(wire[u])[i].to
        BY <1>2, <4>1
      <4> QED BY <1>4, <3>1, <4>2
    <3>2. CASE x # u
      BY <1>4, <3>2 DEF IInv, Offers
    <3> QED BY <3>1, <3>2
  <2>2. \A i \in 1..Len(inbox'[x]) : inbox'[x][i].type = "offer" => inbox'[x][i].other < x
    <3>1. CASE x = w.to
      BY <1>3, <1>5, <1>6, <3>1 DEF IInv, Offers
    <3>2. CASE x # w.to
      BY <1>6, <3>2 DEF IInv, Offers
    <3> QED BY <3>1, <3>2
  <2> QED BY <1>1, <2>1, <2>2 DEF IInv, Offers
<1>9. \A x \in Users : (Held(x) /\ Careful(x) /\ Meshed(x))'
  BY <1>1, SameTab, SameMesh
<1> QED BY <1>7, <1>8, <1>9 DEF IInv

-----------------------------------------------------------------------------
(* The invariant                                                            *)

LEMMA Initial == Init => IInv
<1> SUFFICES ASSUME Init PROVE IInv
  OBVIOUS
<1>1. clicks \in [Users -> Nat]
  BY CallManagerAssumption DEF Init
<1>2. Typed
  <2>1. "idle" \in Statuses /\ "none" \in Stages
    BY DEF Statuses, Stages
  <2>2. /\ up \in [Users -> Seq(Events)] /\ wire \in [Users -> Seq([to : Users, event : Events])]
        /\ inbox \in [Users -> Seq(Events)] /\ calls \in [Convs -> SUBSET Users]
    BY DEF Init
  <2>3. /\ conv \in [Users -> Convs \cup {NoConv}] /\ local \in [Users -> BOOLEAN]
        /\ mics \in [Users -> Nat] /\ pending \in [Users -> SUBSET Waits]
        /\ status \in [Users -> Statuses] /\ shown \in [Users -> Convs \cup {NoConv}]
    BY <2>1 DEF Init
  <2>4. /\ peers \in [Users -> [Users -> Stages]]
        /\ loops \in [Users -> SUBSET [conv : Convs, on : Users, rest : SUBSET Users]]
        /\ answers \in [Users -> SUBSET [conv : Convs, to : Users]]
        /\ rash \in SUBSET Users /\ crossed \in SUBSET Users /\ parted \in BOOLEAN
    BY <2>1 DEF Init
  <2> QED BY <1>1, <2>2, <2>3, <2>4 DEF Typed
<1>3. ASSUME NEW u \in Users PROVE Held(u) /\ Careful(u) /\ Meshed(u) /\ Offers(u)
  BY DEF Init, Held, Careful, Meshed, Offers
<1> QED BY <1>2, <1>3 DEF IInv

LEMMA ClickType ==
  ASSUME Typed, NEW u \in Users, Click(u)
  PROVE  clicks' \in [Users -> Nat]
BY DEF Click, Typed

(* Who is heard is of no concern to the rest.                               *)
LEMMA ToggleInv ==
  ASSUME IInv, NEW u \in Users, ToggleMute(u), clicks' \in [Users -> Nat]
  PROVE  IInv'
<1>1. UNCHANGED <<calls, up, wire, inbox, conv, local, mics, pending, status, shown,
                  peers, loops, answers, rash, crossed, parted>>
  BY DEF ToggleMute, server, mesh, history
<1>2. Typed'
  BY <1>1 DEF IInv, Typed
<1>3. \A x \in Users : (Held(x) /\ Careful(x) /\ Meshed(x) /\ Offers(x))'
  BY <1>1, SameTab, SameMesh, SameQueues
<1> QED BY <1>2, <1>3 DEF IInv

LEMMA ClickInv ==
  ASSUME IInv, NEW u \in Users, ClickStep(u)
  PROVE  IInv'
<1>1. ASSUME NEW v \in Convs, Start(u, v) PROVE IInv'
  BY <1>1, ClickType, AcquireInv DEF Start, MayStart, Rash, IInv
<1>2. CASE Accept(u)
  <2>1. shown[u] \in Convs
    BY <1>2 DEF Accept, Ringing, IInv, Held
  <2> QED BY <1>2, <2>1, ClickType, AcquireInv DEF Accept, Ringing, Rash, IInv
<1>3. CASE Decline(u)
  BY <1>3, ClickType, DeclineInv DEF Decline, IInv
<1>4. CASE Leave(u)
  BY <1>4, ClickType, LeaveInv DEF Leave, IInv
<1>5. CASE ToggleMute(u)
  BY <1>5, ClickType, ToggleInv DEF ToggleMute, IInv
<1> QED BY <1>1, <1>2, <1>3, <1>4, <1>5 DEF ClickStep

LEMMA Inductive == IInv /\ [Next]_vars => IInv'
<1> SUFFICES ASSUME IInv, [Next]_vars PROVE IInv'
  OBVIOUS
<1>1. CASE UNCHANGED vars
  <2>1. Typed'
    BY <1>1 DEF IInv, Typed, vars, server, manager, store, mesh, history
  <2>2. \A x \in Users : (Held(x) /\ Careful(x) /\ Meshed(x) /\ Offers(x))'
    BY <1>1, SameTab, SameMesh, SameQueues DEF vars, server, manager, store, mesh, history
  <2> QED BY <2>1, <2>2 DEF IInv
<1>2. ASSUME NEW u \in Users, ServerStep(u) PROVE IInv'
  BY <1>2, HandleJoinInv, HandleLeaveInv, HandleSignalInv, WriteInv DEF ServerStep
<1>3. ASSUME NEW u \in Users, TabStep(u) PROVE IInv'
  BY <1>3, HearCreatedInv, HearEndedInv, HearJoinedInv, HearLeftInv, HearOfferInv, HearAnswerInv,
     MakeOfferInv, MakeAnswerInv, GrantedInv, RefusedInv DEF TabStep
<1>4. ASSUME NEW u \in Users, ClickStep(u) PROVE IInv'
  BY <1>4, ClickInv
<1> QED BY <1>1, <1>2, <1>3, <1>4 DEF Next

LEMMA Always == Spec => []IInv
BY Initial, Inductive, PTL DEF Spec

-----------------------------------------------------------------------------
(* What is heard                                                            *)

Silence(u) ==
  u \notin rash =>
    /\ audible[u] <=> local[u] /\ ~muted[u]
    /\ muted[u] => local[u]

Audio ==
  /\ audible \in [Users -> BOOLEAN] /\ muted \in [Users -> BOOLEAN]
  /\ \A u \in Users : Silence(u)

LEMMA SameAudio ==
  ASSUME Audio, audible' = audible, muted' = muted, local' = local, rash \subseteq rash'
  PROVE  Audio'
BY DEF Audio, Silence

(* The one tab that changes.                                                *)
LEMMA OneTab ==
  ASSUME Audio, NEW u \in Users, rash \subseteq rash', Silence(u)',
         audible' \in [Users -> BOOLEAN], muted' \in [Users -> BOOLEAN],
         \A x \in Users \ {u} : /\ audible'[x] = audible[x] /\ muted'[x] = muted[x]
                                /\ local'[x] = local[x]
  PROVE  Audio'
BY DEF Audio, Silence

LEMMA TeardownAudio ==
  ASSUME IInv, Audio, NEW u \in Users, Teardown(u), rash' = rash
  PROVE  Audio'
<1>1. /\ local' = [local EXCEPT ![u] = FALSE] /\ audible' = [audible EXCEPT ![u] = FALSE]
      /\ muted' = [muted EXCEPT ![u] = FALSE]
  BY DEF Teardown
<1>2. /\ ~local'[u] /\ ~audible'[u] /\ ~muted'[u]
      /\ audible' \in [Users -> BOOLEAN] /\ muted' \in [Users -> BOOLEAN]
      /\ \A x \in Users \ {u} : /\ audible'[x] = audible[x] /\ muted'[x] = muted[x]
                                /\ local'[x] = local[x]
  BY <1>1 DEF IInv, Typed, Audio
<1>3. Silence(u)'
  BY <1>2 DEF Silence
<1> QED BY <1>2, <1>3, OneTab

(* A stream comes to a tab that had none, and so was not muted.             *)
LEMMA GrantedAudio ==
  ASSUME IInv, Audio, NEW u \in Users, NEW p \in pending[u], Granted(u, p)
  PROVE  Audio'
<1>1. /\ local' = [local EXCEPT ![u] = TRUE] /\ audible' = [audible EXCEPT ![u] = TRUE]
      /\ muted' = muted /\ rash' = rash
  BY DEF Granted, Enter, history
<1>2. /\ local'[u] /\ audible'[u] /\ audible' \in [Users -> BOOLEAN] /\ muted' \in [Users -> BOOLEAN]
      /\ \A x \in Users \ {u} : /\ audible'[x] = audible[x] /\ muted'[x] = muted[x]
                                /\ local'[x] = local[x]
  BY <1>1 DEF IInv, Typed, Audio
<1>3. u \notin rash => ~local[u] /\ ~muted[u]
  BY DEF IInv, Careful, Audio, Silence
<1>4. Silence(u)'
  BY <1>1, <1>2, <1>3 DEF Silence
<1> QED BY <1>1, <1>2, <1>4, OneTab

LEMMA DeclineAudio ==
  ASSUME IInv, Audio, NEW u \in Users, Decline(u)
  PROVE  Audio'
<1>1. /\ muted' = [muted EXCEPT ![u] = FALSE] /\ local' = local /\ audible' = audible
      /\ rash' = IF pending[u] # {} \/ conv[u] # NoConv THEN rash \cup {u} ELSE rash
  BY DEF Decline, Rash, manager
<1>2. /\ ~muted'[u] /\ muted' \in [Users -> BOOLEAN] /\ audible' \in [Users -> BOOLEAN]
      /\ \A x \in Users \ {u} : muted'[x] = muted[x]
  BY <1>1 DEF Audio
<1>3. u \notin rash' => u \notin rash /\ ~local[u]
  BY <1>1 DEF IInv, Held
<1>4. Silence(u)'
  BY <1>1, <1>2, <1>3 DEF Audio, Silence
<1> QED BY <1>1, <1>2, <1>4, OneTab

LEMMA ToggleAudio ==
  ASSUME IInv, Audio, NEW u \in Users, ToggleMute(u)
  PROVE  Audio'
<1>1. /\ muted' = [muted EXCEPT ![u] = ~@] /\ audible' = [audible EXCEPT ![u] = local[u] /\ muted[u]]
      /\ local' = local /\ rash' = rash /\ status[u] \in {"outgoing", "active"}
  BY DEF ToggleMute, Ongoing, history
<1>2. /\ local[u] \in BOOLEAN /\ muted[u] \in BOOLEAN
  BY DEF IInv, Typed, Audio
<1>3. /\ muted'[u] = ~muted[u] /\ audible'[u] = (local[u] /\ muted[u])
      /\ muted' \in [Users -> BOOLEAN] /\ audible' \in [Users -> BOOLEAN]
      /\ \A x \in Users \ {u} : audible'[x] = audible[x] /\ muted'[x] = muted[x]
  BY <1>1, <1>2 DEF Audio
<1>4. u \notin rash => local[u]
  BY <1>1 DEF IInv, Careful, Held
<1>5. Silence(u)'
  BY <1>1, <1>3, <1>4 DEF Silence
<1> QED BY <1>1, <1>3, <1>5, OneTab

(* Start() and accept() with the stream there is, or without one.           *)
LEMMA AcquireAudio ==
  ASSUME Audio, NEW u \in Users, NEW v, NEW kind, Acquire(u, kind, v), NEW foolish, Rash(u, foolish)
  PROVE  Audio'
<1>1. UNCHANGED <<local, audible, muted>>
  <2>1. CASE local[u]
    BY <2>1 DEF Acquire, Enter
  <2>2. CASE ~local[u]
    BY <2>2 DEF Acquire, store
  <2> QED BY <2>1, <2>2
<1>2. rash \subseteq rash'
  BY DEF Rash
<1> QED BY <1>1, <1>2, SameAudio

LEMMA AudioInductive == IInv /\ Audio /\ [Next]_vars => Audio'
<1> SUFFICES ASSUME IInv, Audio, [Next]_vars PROVE Audio'
  OBVIOUS
<1>1. CASE UNCHANGED vars
  BY <1>1, SameAudio DEF vars, manager, store, history
<1>2. ASSUME NEW u \in Users, ServerStep(u) PROVE Audio'
  <2>1. UNCHANGED <<manager, store, history>>
    BY <1>2 DEF ServerStep, HandleJoin, HandleLeave, HandleSignal, Write
  <2> QED BY <2>1, SameAudio DEF manager, store, history
<1>3. ASSUME NEW u \in Users, TabStep(u) PROVE Audio'
  <2>1. ASSUME HearCreated(u) \/ HearJoined(u) \/ HearLeft(u) \/ HearOffer(u) \/ HearAnswer(u)
        PROVE  Audio'
    <3>1. UNCHANGED <<manager, muted, history>>
      BY <2>1 DEF HearCreated, HearJoined, HearLeft, HearOffer, HearAnswer, store
    <3> QED BY <3>1, SameAudio DEF manager, history
  <2>2. CASE HearEnded(u)
    <3>1. rash' = rash
      BY <2>2 DEF HearEnded
    <3>2. CASE InCall(u)
      BY <2>2, <3>1, <3>2, TeardownAudio DEF HearEnded
    <3>3. CASE ~InCall(u)
      BY <2>2, <3>1, <3>3, SameAudio DEF HearEnded, store
    <3> QED BY <3>2, <3>3
  <2>3. ASSUME NEW l \in loops[u], MakeOffer(u, l) PROVE Audio'
    BY <2>3, SameAudio DEF MakeOffer, manager, store, history
  <2>4. ASSUME NEW a \in answers[u], MakeAnswer(u, a) PROVE Audio'
    BY <2>4, SameAudio DEF MakeAnswer, manager, store, history
  <2>5. ASSUME NEW p \in pending[u], Granted(u, p) PROVE Audio'
    BY <2>5, GrantedAudio
  <2>6. ASSUME NEW p \in pending[u], Refused(u, p) PROVE Audio'
    BY <2>6, SameAudio DEF Refused, store, history
  <2> QED BY <1>3, <2>1, <2>2, <2>3, <2>4, <2>5, <2>6 DEF TabStep
<1>4. ASSUME NEW u \in Users, ClickStep(u) PROVE Audio'
  <2>1. ASSUME NEW v \in Convs, Start(u, v) PROVE Audio'
    BY <2>1, AcquireAudio DEF Start
  <2>2. CASE Accept(u)
    BY <2>2, AcquireAudio DEF Accept
  <2>3. CASE Leave(u)
    BY <2>3, TeardownAudio DEF Leave
  <2> QED BY <1>4, <2>1, <2>2, <2>3, DeclineAudio, ToggleAudio DEF ClickStep
<1> QED BY <1>1, <1>2, <1>3, <1>4 DEF Next

LEMMA AlwaysAudio == Spec => [](IInv /\ Audio)
<1>1. Init => Audio
  BY DEF Init, Audio, Silence
<1> QED BY <1>1, Initial, Inductive, AudioInductive, PTL DEF Spec

-----------------------------------------------------------------------------
(* The theorems                                                             *)

(* Every variable keeps its type, whoever calls and clicks.                 *)
THEOREM TypeCorrect == Spec => []TypeOK
<1>1. IInv /\ Audio => TypeOK
  BY DEF IInv, Typed, Audio, TypeOK
<1> QED BY <1>1, AlwaysAudio, PTL

(* The microphone is held exactly in a call, and once.                      *)
THEOREM MicrophoneHeld == Spec => []MicHeld
<1>1. IInv => MicHeld
  BY DEF IInv, MicHeld, Held, Careful
<1> QED BY <1>1, Always, PTL

(* The call bar shows the call that the manager is in.                      *)
THEOREM StoreShowsTheCall == Spec => []StoreAgrees
<1>1. IInv => StoreAgrees
  BY DEF IInv, StoreAgrees, Careful
<1> QED BY <1>1, Always, PTL

(* No connection, offer or answer outlives its call.                        *)
THEOREM CallLeavesNothing == Spec => []NothingOutlivesTheCall
<1>1. IInv => NothingOutlivesTheCall
  BY DEF IInv, NothingOutlivesTheCall, Meshed
<1> QED BY <1>1, Always, PTL

(* A tab that shows itself muted lets nobody hear it, and no other mutes it.*)
THEOREM MutedIsSilent == Spec => []MutedSilent
<1>1. IInv /\ Audio => MutedSilent
  BY DEF IInv, Audio, Silence, Held, MutedSilent
<1> QED BY <1>1, AlwaysAudio, PTL
-----------------------------------------------------------------------------
(* The registry and the managers.  A user's own joins and leaves are        *)
(* handled in the order they were sent, so the last word a user has under   *)
(* way about a conversation says whether the manager is in it, and when     *)
(* there is none the registry does.                                         *)

About(e, v) == e.type \in {"join", "leave"} /\ e.conv = v
Silent(q, v) == \A i \in 1..Len(q) : ~About(q[i], v)
LastWord(q, v, type) ==
  \E i \in 1..Len(q) : /\ q[i].type = type /\ q[i].conv = v
                       /\ \A j \in 1..Len(q) : j > i => ~About(q[j], v)

Agreed(u) ==
  u \notin rash \cup crossed =>
    \A v \in Convs :
      \/ LastWord(up[u], v, "join") /\ conv[u] = v
      \/ LastWord(up[u], v, "leave") /\ conv[u] # v
      \/ Silent(up[u], v) /\ (u \in calls[v] <=> conv[u] = v)

(* Nobody is rung, waits to enter or joins but as a member: the server lets *)
(* no other join in.                                                        *)
Guests(v) == {w \in Users : Member(w, v)}
Asked(u) ==
  /\ \A p \in pending[u] : u \in Guests(p.conv)
  /\ status[u] = "incoming" => u \in Guests(shown[u])
Joining(u) == \A i \in 1..Len(up[u]) : up[u][i].type = "join" => u \in Guests(up[u][i].conv)
Invites(ws) ==
  \A i \in 1..Len(ws) : ws[i].event.type = "created" => ws[i].to \in Guests(ws[i].event.conv)
Rung(u) ==
  /\ \A i \in 1..Len(inbox[u]) : inbox[u][i].type = "created" => u \in Guests(inbox[u][i].conv)
  /\ Invites(wire[u])

Registered == \A u \in Users : Asked(u) /\ Joining(u) /\ Rung(u) /\ Agreed(u)

LEMMA PopWords ==
  ASSUME NEW q \in Seq(Events), q # <<>>, NEW v
  PROVE  /\ \A type \in {"join", "leave"} : LastWord(q, v, type) =>
              \/ LastWord(Tail(q), v, type)
              \/ Silent(Tail(q), v) /\ Head(q).type = type /\ Head(q).conv = v
         /\ Silent(q, v) => Silent(Tail(q), v) /\ ~About(Head(q), v)
<1>1. /\ Head(q) = q[1] /\ 1 \in 1..Len(q) /\ Len(q) \in Nat
      /\ Len(Tail(q)) = Len(q) - 1
      /\ \A i \in 1..Len(Tail(q)) : i + 1 \in 1..Len(q) /\ Tail(q)[i] = q[i + 1]
  OBVIOUS
<1>2. ASSUME NEW type \in {"join", "leave"}, LastWord(q, v, type)
      PROVE  \/ LastWord(Tail(q), v, type)
             \/ Silent(Tail(q), v) /\ Head(q).type = type /\ Head(q).conv = v
  <2>1. PICK i \in 1..Len(q) : /\ q[i].type = type /\ q[i].conv = v
                               /\ \A j \in 1..Len(q) : j > i => ~About(q[j], v)
    BY <1>2 DEF LastWord
  <2>2. CASE i = 1
    <3>1. Silent(Tail(q), v)
      <4>1. ASSUME NEW j \in 1..Len(Tail(q)) PROVE ~About(Tail(q)[j], v)
        BY <1>1, <2>1, <2>2
      <4> QED BY <4>1 DEF Silent
    <3> QED BY <1>1, <2>1, <2>2, <3>1
  <2>3. CASE i # 1
    <3>1. i - 1 \in 1..Len(Tail(q)) /\ Tail(q)[i - 1] = q[i]
      BY <1>1, <2>3
    <3>2. ASSUME NEW j \in 1..Len(Tail(q)), j > i - 1 PROVE ~About(Tail(q)[j], v)
      BY <1>1, <2>1, <3>2
    <3> QED BY <2>1, <3>1, <3>2 DEF LastWord
  <2> QED BY <2>2, <2>3
<1>3. ASSUME Silent(q, v) PROVE Silent(Tail(q), v) /\ ~About(Head(q), v)
  BY <1>1, <1>3 DEF Silent
<1> QED BY <1>2, <1>3

LEMMA PushWords ==
  ASSUME NEW q \in Seq(Events), NEW e \in Events, NEW v
  PROVE  /\ About(e, v) => LastWord(Append(q, e), v, e.type)
         /\ ~About(e, v) => /\ \A type : LastWord(q, v, type) => LastWord(Append(q, e), v, type)
                            /\ Silent(q, v) => Silent(Append(q, e), v)
<1> DEFINE p == Append(q, e)
<1>1. /\ Len(q) \in Nat /\ Len(p) = Len(q) + 1 /\ p[Len(q) + 1] = e
      /\ \A i \in 1..Len(q) : i \in 1..Len(p) /\ p[i] = q[i]
  OBVIOUS
<1> HIDE DEF p
<1>2. ASSUME About(e, v) PROVE LastWord(p, v, e.type)
  <2>1. e.conv = v /\ Len(q) + 1 \in 1..Len(p) /\ \A j \in 1..Len(p) : ~(j > Len(q) + 1)
    BY <1>1, <1>2 DEF About
  <2> QED BY <1>1, <2>1 DEF LastWord
<1>3. \A j \in 1..Len(p) : j \in 1..Len(q) \/ p[j] = e
  BY <1>1
<1>4. ASSUME ~About(e, v), NEW type, LastWord(q, v, type) PROVE LastWord(p, v, type)
  <2>1. PICK i \in 1..Len(q) : /\ q[i].type = type /\ q[i].conv = v
                               /\ \A j \in 1..Len(q) : j > i => ~About(q[j], v)
    BY <1>4 DEF LastWord
  <2>2. \A j \in 1..Len(p) : j > i => ~About(p[j], v)
    BY <1>1, <1>3, <1>4, <2>1
  <2> QED BY <1>1, <2>1, <2>2 DEF LastWord
<1>5. ASSUME ~About(e, v), Silent(q, v) PROVE Silent(p, v)
  BY <1>1, <1>3, <1>5 DEF Silent
<1> QED BY <1>2, <1>4, <1>5 DEF p

LEMMA KeepsAgreed ==
  ASSUME NEW x \in Users, Agreed(x), up'[x] = up[x], conv'[x] = conv[x],
         \A v \in Convs : x \in calls'[v] <=> x \in calls[v],
         rash \subseteq rash', crossed \subseteq crossed'
  PROVE  Agreed(x)'
BY DEF Agreed

(* A user sends: about another conversation than the manager leaves or      *)
(* enters nothing changes.                                                  *)
LEMMA SendAgrees ==
  ASSUME Typed, NEW u \in Users, Agreed(u), NEW e \in Events, Send(u, e),
         calls' = calls, rash \subseteq rash', crossed \subseteq crossed',
         u \notin rash => \A v \in Convs :
           IF About(e, v) THEN e.type = "join" <=> conv'[u] = v
                          ELSE conv'[u] = v <=> conv[u] = v
  PROVE  Agreed(u)'
<1>1. up[u] \in Seq(Events) /\ up'[u] = Append(up[u], e)
  BY DEF Send, Typed
<1>2. SUFFICES ASSUME u \notin rash, u \notin crossed, NEW v \in Convs
               PROVE  \/ LastWord(up'[u], v, "join") /\ conv'[u] = v
                      \/ LastWord(up'[u], v, "leave") /\ conv'[u] # v
                      \/ Silent(up'[u], v) /\ (u \in calls'[v] <=> conv'[u] = v)
  BY DEF Agreed
<1>3. CASE About(e, v)
  <2>1. LastWord(up'[u], v, e.type) /\ e.type \in {"join", "leave"}
    BY <1>1, <1>3, PushWords DEF About
  <2> QED BY <1>2, <1>3, <2>1
<1>4. CASE ~About(e, v)
  <2>1. conv'[u] = v <=> conv[u] = v
    BY <1>2, <1>4
  <2>2. /\ \A type : LastWord(up[u], v, type) => LastWord(up'[u], v, type)
        /\ Silent(up[u], v) => Silent(up'[u], v)
    BY <1>1, <1>4, PushWords
  <2> QED BY <1>2, <2>1, <2>2 DEF Agreed
<1> QED BY <1>3, <1>4

LEMMA SentOthers ==
  ASSUME Typed, NEW u \in Users, NEW e \in Events, Send(u, e)
  PROVE  \A x \in Users \ {u} : up'[x] = up[x]
BY DEF Send, Typed

LEMMA EnterAgrees ==
  ASSUME IInv, NEW u \in Users, NEW v \in Convs, NEW kind, Enter(u, kind, v),
         \A x \in Users : Agreed(x), u \notin rash => conv[u] \in {NoConv, v},
         calls' = calls, rash \subseteq rash', crossed' = crossed
  PROVE  \A x \in Users : Agreed(x)'
<1> DEFINE e == Event("join", v, u, {})
<1>1. e \in Events /\ e.type = "join" /\ e.conv = v
  BY EventType DEF Types, Event
<1>2. Send(u, e) /\ conv' = [conv EXCEPT ![u] = v] /\ Typed
  BY DEF Enter, IInv
<1> HIDE DEF e
<1>3. conv'[u] = v /\ \A x \in Users \ {u} : conv'[x] = conv[x]
  BY <1>2 DEF Typed
<1>4. \A x \in Users \ {u} : up'[x] = up[x]
  BY <1>1, <1>2, SentOthers
<1>5. \A x \in Users \ {u} : Agreed(x)'
  BY <1>3, <1>4, KeepsAgreed
<1>6. u \notin rash => \A c \in Convs :
        IF About(e, c) THEN e.type = "join" <=> conv'[u] = c ELSE conv'[u] = c <=> conv[u] = c
  BY <1>1, <1>3, CallManagerAssumption DEF About
<1>7. Agreed(u)'
  BY <1>1, <1>2, <1>6, SendAgrees
<1> QED BY <1>5, <1>7

LEMMA LeaveAgrees ==
  ASSUME IInv, NEW u \in Users, Leave(u), \A x \in Users : Agreed(x)
  PROVE  \A x \in Users : Agreed(x)'
<1>1. /\ conv' = [conv EXCEPT ![u] = NoConv] /\ Typed /\ UNCHANGED <<calls, rash, crossed>>
      /\ status[u] \in {"outgoing", "active"}
  BY DEF Leave, Teardown, Ongoing, IInv
<1>2. conv'[u] = NoConv /\ \A x \in Users \ {u} : conv'[x] = conv[x]
  BY <1>1 DEF Typed
<1>3. \A x \in Users \ {u} : up'[x] = up[x]
  BY <1>1 DEF Leave, Send, Typed
<1>4. \A x \in Users \ {u} : Agreed(x)'
  BY <1>1, <1>2, <1>3, KeepsAgreed
<1>5. Agreed(u)'
  <2>1. CASE u \in rash
    BY <1>1, <2>1 DEF Agreed
  <2>2. CASE u \notin rash
    <3> DEFINE e == Event("leave", conv[u], u, {})
    <3>1. conv[u] \in Convs /\ conv[u] # NoConv
      BY <1>1, <2>2 DEF IInv, Careful, Typed
    <3>2. e \in Events /\ e.type = "leave" /\ e.conv = conv[u]
      BY <3>1, EventType DEF Types, Event
    <3>3. Send(u, e)
      BY <3>1 DEF Leave
    <3> HIDE DEF e
    <3>4. \A c \in Convs : IF About(e, c) THEN e.type = "join" <=> conv'[u] = c
                                          ELSE conv'[u] = c <=> conv[u] = c
      BY <1>2, <3>2, CallManagerAssumption DEF About
    <3> QED BY <1>1, <3>2, <3>3, <3>4, SendAgrees
  <2> QED BY <2>1, <2>2
<1> QED BY <1>4, <1>5

(* The server takes a user at his word.                                     *)
LEMMA HandledAgrees ==
  ASSUME IInv, NEW u \in Users, NEW type, Handled(u, type), \A x \in Users : Agreed(x),
         UNCHANGED <<conv, rash, crossed>>,
         \A v \in Convs : \A x \in Users \ {u} : x \in calls'[v] <=> x \in calls[v],
         \A v \in Convs : u \in calls'[v] <=>
           IF About(Head(up[u]), v) THEN type = "join" ELSE u \in calls[v]
  PROVE  \A x \in Users : Agreed(x)'
<1>1. /\ up[u] \in Seq(Events) /\ up[u] # <<>> /\ Head(up[u]).type = type
      /\ up' = [up EXCEPT ![u] = Tail(@)]
  BY DEF Handled, IInv, Typed
<1>2. up'[u] = Tail(up[u]) /\ \A x \in Users \ {u} : up'[x] = up[x]
  BY <1>1 DEF IInv, Typed
<1>3. \A x \in Users \ {u} : Agreed(x)'
  BY <1>2, KeepsAgreed
<1>4. ASSUME u \notin rash, u \notin crossed, NEW v \in Convs
      PROVE  \/ LastWord(up'[u], v, "join") /\ conv[u] = v
             \/ LastWord(up'[u], v, "leave") /\ conv[u] # v
             \/ Silent(up'[u], v) /\ (u \in calls'[v] <=> conv[u] = v)
  <2> DEFINE q == up[u]
             h == Head(q)
  <2>1. \/ LastWord(q, v, "join") /\ conv[u] = v
        \/ LastWord(q, v, "leave") /\ conv[u] # v
        \/ Silent(q, v) /\ (u \in calls[v] <=> conv[u] = v)
    BY <1>4 DEF Agreed
  <2>2. u \in calls'[v] <=> IF About(h, v) THEN h.type = "join" ELSE u \in calls[v]
    BY <1>1
  <2>3. /\ \A w \in {"join", "leave"} : LastWord(q, v, w) =>
             LastWord(Tail(q), v, w) \/ (Silent(Tail(q), v) /\ h.type = w /\ h.conv = v)
        /\ Silent(q, v) => Silent(Tail(q), v) /\ ~About(h, v)
    BY <1>1, PopWords
  <2> HIDE DEF q, h
  <2>4. CASE LastWord(q, v, "join") /\ conv[u] = v
    <3>1. LastWord(Tail(q), v, "join") \/ (Silent(Tail(q), v) /\ h.type = "join" /\ h.conv = v)
      BY <2>3, <2>4
    <3> QED BY <1>2, <2>2, <2>4, <3>1 DEF About, q
  <2>5. CASE LastWord(q, v, "leave") /\ conv[u] # v
    <3>1. LastWord(Tail(q), v, "leave") \/ (Silent(Tail(q), v) /\ h.type = "leave" /\ h.conv = v)
      BY <2>3, <2>5
    <3> QED BY <1>2, <2>2, <2>5, <3>1 DEF About, q
  <2>6. CASE Silent(q, v) /\ (u \in calls[v] <=> conv[u] = v)
    BY <1>2, <2>2, <2>3, <2>6 DEF q
  <2> QED BY <2>1, <2>4, <2>5, <2>6
<1>5. Agreed(u)'
  BY <1>4 DEF Agreed
<1> QED BY <1>3, <1>5

LEMMA HandledJoins ==
  ASSUME Typed, NEW u \in Users, NEW type, Handled(u, type), \A x \in Users : Joining(x)
  PROVE  /\ \A x \in Users : Joining(x)'
         /\ type = "join" => u \in Guests(Head(up[u]).conv)
<1>1. /\ up[u] \in Seq(Events) /\ up[u] # <<>> /\ up' = [up EXCEPT ![u] = Tail(@)]
  BY DEF Handled, Typed
<1>2. up'[u] = Tail(up[u]) /\ \A x \in Users \ {u} : up'[x] = up[x]
  BY <1>1 DEF Typed
<1>3. /\ Head(up[u]) = up[u][1] /\ 1 \in 1..Len(up[u])
      /\ \A i \in 1..Len(Tail(up[u])) : i + 1 \in 1..Len(up[u]) /\ Tail(up[u])[i] = up[u][i + 1]
  BY <1>1, HeadTail
<1>4. Joining(u)'
  BY <1>2, <1>3 DEF Joining
<1>5. type = "join" => u \in Guests(Head(up[u]).conv)
  BY <1>3 DEF Joining, Handled
<1> QED BY <1>2, <1>4, <1>5 DEF Joining

LEMMA SendJoins ==
  ASSUME Typed, NEW u \in Users, NEW e \in Events, Send(u, e), \A x \in Users : Joining(x),
         e.type = "join" => u \in Guests(e.conv)
  PROVE  \A x \in Users : Joining(x)'
<1>1. up[u] \in Seq(Events) /\ up'[u] = Append(up[u], e)
  BY DEF Send, Typed
<1>2. Joining(u)'
  BY <1>1, AppendEach DEF Joining
<1> QED BY <1>2, SentOthers DEF Joining

LEMMA HeardRung ==
  ASSUME Typed, NEW u \in Users, NEW type, Heard(u, type), wire' = wire, \A x \in Users : Rung(x)
  PROVE  /\ \A x \in Users : Rung(x)'
         /\ type = "created" => u \in Guests(Head(inbox[u]).conv)
<1>1. /\ inbox[u] \in Seq(Events) /\ inbox[u] # <<>> /\ inbox' = [inbox EXCEPT ![u] = Tail(@)]
  BY DEF Heard, Typed
<1>2. inbox'[u] = Tail(inbox[u]) /\ \A x \in Users \ {u} : inbox'[x] = inbox[x]
  BY <1>1 DEF Typed
<1>3. /\ Head(inbox[u]) = inbox[u][1] /\ 1 \in 1..Len(inbox[u])
      /\ \A i \in 1..Len(Tail(inbox[u])) :
           i + 1 \in 1..Len(inbox[u]) /\ Tail(inbox[u])[i] = inbox[u][i + 1]
  BY <1>1, HeadTail
<1>4. Rung(u)'
  BY <1>2, <1>3 DEF Rung
<1>5. type = "created" => u \in Guests(Head(inbox[u]).conv)
  BY <1>3 DEF Rung, Heard
<1> QED BY <1>2, <1>4, <1>5 DEF Rung

LEMMA WriteRung ==
  ASSUME Typed, NEW u \in Users, Write(u), \A x \in Users : Rung(x)
  PROVE  \A x \in Users : Rung(x)'
<1> DEFINE w == Head(wire[u])
<1>1. /\ wire[u] \in Seq(Wired) /\ wire[u] # <<>>
      /\ wire' = [wire EXCEPT ![u] = Tail(@)]
      /\ inbox' = [inbox EXCEPT ![w.to] = Append(@, w.event)]
  BY DEF Write, Typed, Wired
<1>2. /\ w \in Wired /\ w = wire[u][1] /\ 1 \in 1..Len(wire[u])
      /\ \A i \in 1..Len(Tail(wire[u])) :
           i + 1 \in 1..Len(wire[u]) /\ Tail(wire[u])[i] = wire[u][i + 1]
  BY <1>1, HeadTail
<1>3. w.to \in Users /\ w.event \in Events
  BY <1>2 DEF Wired
<1>4. w.event.type = "created" => w.to \in Guests(w.event.conv)
  BY <1>2 DEF Rung, Invites
<1>5. wire'[u] = Tail(wire[u]) /\ \A x \in Users \ {u} : wire'[x] = wire[x]
  BY <1>1 DEF Typed
<1> HIDE DEF w
<1>6. /\ inbox[w.to] \in Seq(Events) /\ inbox'[w.to] = Append(inbox[w.to], w.event)
      /\ \A x \in Users \ {w.to} : inbox'[x] = inbox[x]
  BY <1>1, <1>3 DEF Typed
<1>7. ASSUME NEW x \in Users PROVE Invites(wire'[x])
  <2>1. CASE x = u
    <3>1. Invites(wire[u])
      BY DEF Rung
    <3>2. ASSUME NEW i \in 1..Len(Tail(wire[u])), Tail(wire[u])[i].event.type = "created"
          PROVE  Tail(wire[u])[i].to \in Guests(Tail(wire[u])[i].event.conv)
      BY <1>2, <3>1, <3>2 DEF Invites
    <3> QED BY <1>5, <2>1, <3>2 DEF Invites
  <2>2. CASE x # u
    BY <1>5, <2>2 DEF Rung
  <2> QED BY <2>1, <2>2
<1>8. ASSUME NEW x \in Users
      PROVE  \A i \in 1..Len(inbox'[x]) :
               inbox'[x][i].type = "created" => x \in Guests(inbox'[x][i].conv)
  <2>1. CASE x = w.to
    <3>1. \A i \in 1..Len(inbox'[x]) :
            inbox'[x][i] = w.event \/ (i \in 1..Len(inbox[x]) /\ inbox'[x][i] = inbox[x][i])
      BY <1>3, <1>6, <2>1, AppendEach
    <3> QED BY <1>4, <2>1, <3>1 DEF Rung
  <2>2. CASE x # w.to
    BY <1>6, <2>2 DEF Rung
  <2> QED BY <2>1, <2>2
<1> QED BY <1>7, <1>8 DEF Rung

LEMMA HandledRung ==
  ASSUME Typed, NEW u \in Users, NEW ws, Invites(ws), wire' = [wire EXCEPT ![u] = ws],
         inbox' = inbox, \A x \in Users : Rung(x)
  PROVE  \A x \in Users : Rung(x)'
<1>1. wire'[u] = ws /\ \A x \in Users \ {u} : wire'[x] = wire[x]
  BY DEF Typed
<1> QED BY <1>1 DEF Rung

LEMMA ConcatInvites ==
  ASSUME NEW s \in Seq(Wired), NEW t \in Seq(Wired), Invites(s), Invites(t)
  PROVE  Invites(s \o t)
<1>1. s \o t \in Seq(Wired) /\ Len(s \o t) = Len(s) + Len(t)
  OBVIOUS
<1>2. ASSUME NEW i \in 1..Len(s \o t)
      PROVE  \/ i \in 1..Len(s) /\ (s \o t)[i] = s[i]
             \/ \E j \in 1..Len(t) : (s \o t)[i] = t[j]
  <2>1. CASE i <= Len(s)
    BY <2>1
  <2>2. CASE i > Len(s)
    <3>1. (s \o t)[i] = t[i - Len(s)] /\ i - Len(s) \in 1..Len(t)
      BY <1>1, <2>2
    <3> QED BY <3>1
  <2> QED BY <2>1, <2>2
<1> QED BY <1>2 DEF Invites

LEMMA ToEachInvites ==
  ASSUME NEW s \in Seq(Users), NEW e \in Events,
         e.type = "created" => \A i \in 1..Len(s) : s[i] \in Guests(e.conv)
  PROVE  Invites(ToEach(s, e))
<1>1. DOMAIN s = 1..Len(s) /\ Len(s) \in Nat
  OBVIOUS
<1>2. ToEach(s, e) = [i \in 1..Len(s) |-> [to |-> s[i], event |-> e]]
  BY <1>1 DEF ToEach
<1>3. ASSUME NEW i \in 1..Len(ToEach(s, e))
      PROVE  i \in 1..Len(s) /\ ToEach(s, e)[i].event = e /\ ToEach(s, e)[i].to = s[i]
  <2>1. Len(ToEach(s, e)) = Len(s)
    BY <1>1, <1>2
  <2> QED BY <1>2, <2>1
<1> QED BY <1>3 DEF Invites

LEMMA WithoutEach ==
  ASSUME NEW s \in Seq(Users), NEW u, \E i \in DOMAIN s : s[i] = u
  PROVE  \A i \in 1..Len(Without(s, u)) : \E j \in DOMAIN s : Without(s, u)[i] = s[j]
<1>1. PICK k \in DOMAIN s : Without(s, u) = SubSeq(s, 1, k - 1) \o SubSeq(s, k + 1, Len(s))
  BY DEF Without
<1> DEFINE a == SubSeq(s, 1, k - 1)
           b == SubSeq(s, k + 1, Len(s))
<1>2. k \in 1..Len(s) /\ Len(s) \in Nat /\ DOMAIN s = 1..Len(s)
  OBVIOUS
<1>3. /\ a \in Seq(Users) /\ Len(a) = k - 1
      /\ \A i \in 1..Len(a) : i \in 1..Len(s) /\ a[i] = s[i]
  BY <1>2
<1>4. /\ b \in Seq(Users) /\ Len(b) = Len(s) - k
      /\ \A i \in 1..Len(b) : i + k \in 1..Len(s) /\ b[i] = s[i + k]
  <2>1. b \in Seq(Users) /\ Len(b) = Len(s) - k
    BY <1>2
  <2>2. ASSUME NEW i \in 1..Len(b) PROVE i + k \in 1..Len(s) /\ b[i] = s[i + k]
    <3>1. i + k \in 1..Len(s) /\ i + (k + 1) - 1 = i + k /\ i \in 1..(Len(s) - (k + 1) + 1)
      BY <1>2, <2>1
    <3>2. b[i] = s[i + (k + 1) - 1]
      BY <1>2, <3>1
    <3> QED BY <3>1, <3>2
  <2> QED BY <2>1, <2>2
<1> HIDE DEF a, b
<1>5. ASSUME NEW i \in 1..Len(a \o b) PROVE \E j \in DOMAIN s : (a \o b)[i] = s[j]
  <2>1. CASE i <= Len(a)
    BY <1>2, <1>3, <1>4, <2>1
  <2>2. CASE i > Len(a)
    <3>1. (a \o b)[i] = b[i - Len(a)] /\ i - Len(a) \in 1..Len(b)
      BY <1>3, <1>4, <2>2
    <3> QED BY <1>2, <1>4, <3>1
  <2> QED BY <1>3, <2>1, <2>2
<1> QED BY <1>1, <1>5 DEF a, b

LEMMA KeepsAsked ==
  ASSUME NEW x \in Users, Asked(x), pending'[x] \subseteq pending[x],
         status'[x] = "incoming" => status[x] = "incoming" /\ shown'[x] = shown[x]
  PROVE  Asked(x)'
BY DEF Asked

LEMMA KeepsQueues ==
  ASSUME NEW x \in Users, Joining(x), Rung(x), up'[x] = up[x], wire'[x] = wire[x],
         inbox'[x] = inbox[x]
  PROVE  Joining(x)' /\ Rung(x)'
<1>1. Joining(x)'
  BY DEF Joining
<1>2. Rung(x)'
  BY DEF Rung
<1> QED BY <1>1, <1>2

(* What the handlers have in common.                                        *)
LEMMA HandledRegistered ==
  ASSUME IInv, Registered, NEW u \in Users, NEW type, Handled(u, type),
         NEW ws, wire' = [wire EXCEPT ![u] = ws], Invites(ws),
         UNCHANGED <<inbox, manager, store, mesh, clicks, history>>,
         \A v \in Convs : \A x \in Users \ {u} : x \in calls'[v] <=> x \in calls[v],
         \A v \in Convs : u \in calls'[v] <=>
           IF About(Head(up[u]), v) THEN type = "join" ELSE u \in calls[v]
  PROVE  Registered'
<1>1. UNCHANGED <<inbox, conv, pending, status, shown, rash, crossed>> /\ Typed
  BY DEF manager, store, history, IInv
<1>2. \A x \in Users : Agreed(x) /\ Asked(x) /\ Joining(x) /\ Rung(x)
  BY DEF Registered
<1>3. \A x \in Users : Agreed(x)'
  BY <1>1, <1>2, HandledAgrees
<1>4. \A x \in Users : Asked(x)'
  BY <1>1, <1>2, KeepsAsked
<1>5. \A x \in Users : Joining(x)'
  BY <1>1, <1>2, HandledJoins
<1>6. \A x \in Users : Rung(x)'
  BY <1>1, <1>2, HandledRung
<1> QED BY <1>3, <1>4, <1>5, <1>6 DEF Registered

LEMMA JoinRegistered ==
  ASSUME IInv, Registered, NEW u \in Users, HandleJoin(u)
  PROVE  Registered'
<1> DEFINE h == Head(up[u])
           v == h.conv
           list == MembersOf[v]
           ring == Event("created", v, u, {})
           joined == Event("joined", v, u, calls[v] \cup {u})
           rings == IF calls[v] = {} /\ v \in Direct THEN Without(list, u) ELSE <<>>
           ws == ToEach(rings, ring) \o ToEach(list, joined)
<1>1. Handled(u, "join") /\ UNCHANGED <<inbox, manager, store, mesh, clicks, history>> /\ Typed
  BY DEF HandleJoin, IInv
<1>2. /\ v \in Convs /\ list \in Seq(Users) /\ calls[v] \in SUBSET Users
      /\ \A i \in DOMAIN list : list[i] \in Guests(v)
  <2>1. v \in Convs /\ list \in Seq(Users) /\ calls[v] \in SUBSET Users
    BY <1>1, HeadUp, CallManagerAssumption DEF Typed, Events
  <2>2. ASSUME NEW i \in DOMAIN list PROVE list[i] \in Guests(v)
    <3>1. list[i] \in Users /\ Member(list[i], v)
      BY <2>1 DEF Member
    <3> QED BY <3>1 DEF Guests
  <2> QED BY <2>1, <2>2
<1>3. Member(u, v)
  <2>1. u \in Guests(v)
    BY <1>1, HandledJoins DEF Registered
  <2> QED BY <2>1 DEF Guests
<1>4. calls' = [calls EXCEPT ![v] = @ \cup {u}] /\ wire' = [wire EXCEPT ![u] = ws]
  BY <1>3 DEF HandleJoin
<1>5. /\ ring \in Events /\ ring.type = "created" /\ ring.conv = v
      /\ joined \in Events /\ joined.type = "joined"
  BY <1>2, EventType DEF Types, Event
<1>6. rings \in Seq(Users) /\ \A i \in 1..Len(rings) : rings[i] \in Guests(v)
  <2>0. \A s : s = <<>> => s \in Seq(Users) /\ \A i \in 1..Len(s) : FALSE
    OBVIOUS
  <2>1. CASE rings = <<>>
    <3> HIDE DEF rings
    <3> QED BY <2>0, <2>1
  <2>2. CASE rings = Without(list, u)
    <3>1. \E i \in DOMAIN list : list[i] = u
      BY <1>3 DEF Member
    <3>2. /\ Without(list, u) \in Seq(Users)
          /\ \A i \in 1..Len(Without(list, u)) :
               \E j \in DOMAIN list : Without(list, u)[i] = list[j]
      BY <1>2, <3>1, WithoutType, WithoutEach
    <3> QED BY <1>2, <2>2, <3>2
  <2> QED BY <2>1, <2>2
<1>7. \A c \in Convs : calls'[c] = IF c = v THEN calls[c] \cup {u} ELSE calls[c]
  BY <1>1, <1>2, <1>4 DEF Typed
<1>8. h.type = "join" /\ \A c \in Convs : About(h, c) <=> c = v
  BY <1>1, HeadUp DEF About
<1> HIDE DEF ring, joined, rings, list, h
<1>9. Invites(ws)
  <2>1. Invites(ToEach(rings, ring))
    BY <1>5, <1>6, ToEachInvites
  <2>2. Invites(ToEach(list, joined))
    BY <1>2, <1>5, ToEachInvites
  <2>3. ToEach(rings, ring) \in Seq(Wired) /\ ToEach(list, joined) \in Seq(Wired)
    BY <1>2, <1>5, <1>6, ToEachType DEF Wired
  <2> QED BY <2>1, <2>2, <2>3, ConcatInvites
<1> HIDE DEF ws
<1>10. /\ \A c \in Convs : \A x \in Users \ {u} : x \in calls'[c] <=> x \in calls[c]
       /\ \A c \in Convs :
            u \in calls'[c] <=> IF About(h, c) THEN "join" = "join" ELSE u \in calls[c]
  BY <1>7, <1>8
<1> QED BY <1>1, <1>4, <1>9, <1>10, HandledRegistered DEF h

LEMMA LeaveRegistered ==
  ASSUME IInv, Registered, NEW u \in Users, HandleLeave(u)
  PROVE  Registered'
<1> DEFINE h == Head(up[u])
           v == h.conv
           rest == calls[v] \ {u}
           left == Event(IF rest = {} THEN "ended" ELSE "left", v, u, rest)
           ws == IF calls[v] = {} THEN <<>> ELSE ToEach(MembersOf[v], left)
<1>1. /\ Handled(u, "leave") /\ UNCHANGED <<inbox, manager, store, mesh, clicks, history>>
      /\ calls' = [calls EXCEPT ![v] = rest] /\ Typed
  BY DEF HandleLeave, IInv
<1>2. v \in Convs /\ MembersOf[v] \in Seq(Users) /\ rest \in SUBSET Users
  BY <1>1, HeadUp, CallManagerAssumption DEF IInv, Typed, Events
<1>3. left \in Events /\ left.type # "created"
  <2>1. CASE rest = {}
    BY <1>2, <2>1, EventType DEF Types
  <2>2. CASE rest # {}
    BY <1>2, <2>2, EventType DEF Types
  <2> QED BY <2>1, <2>2
<1>4. wire' = [wire EXCEPT ![u] = ws]
  BY <1>1, HeadUp DEF HandleLeave, IInv, Typed
<1> HIDE DEF left
<1>5. Invites(ws)
  <2>1. Invites(<<>>)
    BY DEF Invites
  <2>2. Invites(ToEach(MembersOf[v], left))
    BY <1>2, <1>3, ToEachInvites
  <2> QED BY <2>1, <2>2
<1>6. \A c \in Convs : calls'[c] = IF c = v THEN calls[c] \ {u} ELSE calls[c]
  BY <1>1, <1>2 DEF Typed
<1>7. h.type = "leave" /\ \A c \in Convs : About(h, c) <=> c = v
  BY <1>1, HeadUp DEF About
<1> HIDE DEF ws, h
<1>8. /\ \A c \in Convs : \A x \in Users \ {u} : x \in calls'[c] <=> x \in calls[c]
      /\ \A c \in Convs :
           u \in calls'[c] <=> IF About(h, c) THEN "leave" = "join" ELSE u \in calls[c]
  BY <1>6, <1>7
<1> QED BY <1>1, <1>4, <1>5, <1>8, HandledRegistered DEF h

LEMMA SignalRegistered ==
  ASSUME IInv, Registered, NEW u \in Users, HandleSignal(u)
  PROVE  Registered'
<1> DEFINE e == Head(up[u])
           back == [e EXCEPT !.other = u]
           ws == IF Member(u, e.conv) /\ Member(e.other, e.conv)
                   THEN ToEach(<<e.other>>, back) ELSE <<>>
<1>1. UNCHANGED <<calls, inbox, manager, store, mesh, clicks, history>>
  BY DEF HandleSignal
<1>2. PICK type \in {"offer", "answer"} : Handled(u, type)
  BY DEF HandleSignal
<1>3. e \in Events /\ wire[u] = <<>> /\ e.type = type
  BY <1>2, HeadUp DEF IInv
<1>4. wire' = [wire EXCEPT ![u] = ws]
  BY <1>3 DEF HandleSignal, IInv, Typed
<1>5. back \in Events /\ back.type = type /\ e.other \in Users
  BY <1>3 DEF Events
<1> HIDE DEF back
<1>6. Invites(ws)
  <2>1. Invites(<<>>)
    BY DEF Invites
  <2>2. Invites(ToEach(<<e.other>>, back))
    <3>1. \A w \in Users : <<w>> \in Seq(Users)
      OBVIOUS
    <3>2. <<e.other>> \in Seq(Users)
      BY <1>5, <3>1
    <3> QED BY <1>2, <1>5, <3>2, ToEachInvites
  <2> QED BY <2>1, <2>2
<1>7. \A v \in Convs : ~About(e, v)
  BY <1>3 DEF About
<1> HIDE DEF ws, e
<1>8. \A v \in Convs : u \in calls'[v] <=> IF About(e, v) THEN type = "join" ELSE u \in calls[v]
  BY <1>1, <1>7
<1> QED BY <1>1, <1>2, <1>4, <1>6, <1>8, HandledRegistered DEF e

LEMMA ServerRegistered ==
  ASSUME IInv, Registered, NEW u \in Users, ServerStep(u)
  PROVE  Registered'
<1>1. CASE Write(u)
  <2>1. UNCHANGED <<calls, up, conv, pending, status, shown, rash, crossed>> /\ Typed
    BY <1>1 DEF Write, manager, store, history, IInv
  <2>2. \A x \in Users : Asked(x)' /\ Agreed(x)'
    BY <2>1, KeepsAsked, KeepsAgreed DEF Registered
  <2>3. \A x \in Users : Joining(x)'
    BY <2>1 DEF Registered, Joining
  <2>4. \A x \in Users : Rung(x)'
    BY <1>1, <2>1, WriteRung DEF Registered
  <2> QED BY <2>2, <2>3, <2>4 DEF Registered
<1> QED BY <1>1, JoinRegistered, LeaveRegistered, SignalRegistered DEF ServerStep

(* The tab.                                                                 *)
LEMMA EnterRegistered ==
  ASSUME IInv, Registered, NEW u \in Users, NEW v \in Convs, NEW kind, Enter(u, kind, v),
         u \in Guests(v), u \notin rash => conv[u] \in {NoConv, v},
         UNCHANGED <<calls, wire, inbox, crossed>>, rash \subseteq rash',
         \A x \in Users : pending'[x] \subseteq pending[x]
  PROVE  Registered'
<1>1. \A x \in Users : Agreed(x)'
  BY EnterAgrees DEF Registered
<1>2. \A x \in Users : Joining(x)'
  <2> DEFINE e == Event("join", v, u, {})
  <2>1. e \in Events /\ e.conv = v /\ Send(u, e) /\ Typed
    BY EventType DEF Types, Event, Enter, IInv
  <2> HIDE DEF e
  <2> QED BY <2>1, SendJoins DEF Registered
<1>3. \A x \in Users : Asked(x)'
  <2>1. \/ UNCHANGED <<status, shown>>
        \/ status' = [status EXCEPT ![u] = "outgoing"] /\ shown' = [shown EXCEPT ![u] = v]
    BY DEF Enter
  <2>2. \A x \in Users : status'[x] = "incoming" => status[x] = "incoming" /\ shown'[x] = shown[x]
    BY <2>1 DEF IInv, Typed
  <2> QED BY <2>2, KeepsAsked DEF Registered
<1>4. \A x \in Users : Rung(x)'
  BY DEF Registered, Rung
<1> QED BY <1>1, <1>2, <1>3, <1>4 DEF Registered

LEMMA AcquireRegistered ==
  ASSUME IInv, Registered, NEW u \in Users, NEW v \in Convs, NEW kind, Acquire(u, kind, v),
         u \in Guests(v), status[u] = "idle" \/ (status[u] = "incoming" /\ shown[u] = v),
         UNCHANGED <<calls, wire, inbox, crossed>>, rash \subseteq rash'
  PROVE  Registered'
<1>1. CASE local[u]
  <2>1. Enter(u, kind, v) /\ pending' = pending
    BY <1>1 DEF Acquire
  <2>2. u \notin rash => conv[u] \in {NoConv, v}
    BY DEF IInv, Careful
  <2> QED BY <2>1, <2>2, EnterRegistered
<1>2. CASE ~local[u]
  <2> DEFINE p == [kind |-> kind, conv |-> v]
  <2>1. /\ pending' = [pending EXCEPT ![u] = @ \cup {p}] /\ UNCHANGED <<up, conv, status, shown>>
        /\ p.conv = v
    BY <1>2 DEF Acquire, store
  <2> HIDE DEF p
  <2>2. \A x \in Users : Joining(x)' /\ Rung(x)'
    BY <2>1, KeepsQueues DEF Registered
  <2>3. \A x \in Users : Agreed(x)'
    BY <2>1, KeepsAgreed DEF Registered
  <2>4. \A x \in Users : pending'[x] = IF x = u THEN pending[x] \cup {p} ELSE pending[x]
    BY <2>1 DEF IInv, Typed
  <2>5. \A x \in Users : Asked(x)'
    BY <2>1, <2>4 DEF Registered, Asked
  <2> QED BY <2>2, <2>3, <2>5 DEF Registered
<1> QED BY <1>1, <1>2

LEMMA ClickRegistered ==
  ASSUME IInv, Registered, NEW u \in Users, ClickStep(u)
  PROVE  Registered'
<1>1. ASSUME NEW v \in Convs, Start(u, v) PROVE Registered'
  <2>1. /\ Acquire(u, "start", v) /\ status[u] = "idle" /\ Member(u, v)
        /\ UNCHANGED <<calls, wire, inbox, crossed>> /\ rash \subseteq rash'
    BY <1>1 DEF Start, MayStart, Rash
  <2>2. u \in Guests(v)
    BY <2>1 DEF Guests
  <2> QED BY <2>1, <2>2, AcquireRegistered
<1>2. CASE Accept(u)
  <2>1. /\ Acquire(u, "accept", shown[u]) /\ status[u] = "incoming"
        /\ UNCHANGED <<calls, wire, inbox, crossed>> /\ rash \subseteq rash'
    BY <1>2 DEF Accept, Ringing, Rash
  <2>2. shown[u] \in Convs /\ u \in Guests(shown[u])
    BY <2>1 DEF IInv, Held, Registered, Asked
  <2> QED BY <2>1, <2>2, AcquireRegistered
<1>3. CASE Decline(u)
  <2>1. /\ UNCHANGED <<calls, up, wire, inbox, conv, pending, crossed>> /\ rash \subseteq rash'
        /\ status' = [status EXCEPT ![u] = "idle"] /\ shown' = [shown EXCEPT ![u] = NoConv]
    BY <1>3 DEF Decline, Rash, server, manager
  <2>2. \A x \in Users : status'[x] = "incoming" => status[x] = "incoming" /\ shown'[x] = shown[x]
    BY <2>1 DEF IInv, Typed
  <2> QED BY <2>1, <2>2, KeepsAsked, KeepsQueues, KeepsAgreed DEF Registered
<1>4. CASE Leave(u)
  <2>1. \A x \in Users : Agreed(x)'
    BY <1>4, LeaveAgrees DEF Registered
  <2>2. /\ UNCHANGED <<wire, inbox, pending>>
        /\ status' = [status EXCEPT ![u] = "idle"] /\ shown' = [shown EXCEPT ![u] = NoConv]
    BY <1>4 DEF Leave, Teardown
  <2>3. \A x \in Users : status'[x] = "incoming" => status[x] = "incoming" /\ shown'[x] = shown[x]
    BY <2>2 DEF IInv, Typed
  <2>4. \A x \in Users : Asked(x)' /\ Rung(x)'
    BY <2>2, <2>3, KeepsAsked DEF Registered, Rung
  <2>5. \A x \in Users : Joining(x)'
    <3> DEFINE v == IF conv[u] # NoConv THEN conv[u] ELSE shown[u]
               e == Event("leave", v, u, {})
    <3>1. CASE v # NoConv
      <4>1. v \in Convs
        BY <3>1 DEF IInv, Typed
      <4>2. e \in Events /\ e.type = "leave" /\ Typed
        BY <4>1, EventType DEF Types, IInv
      <4>3. Send(u, e)
        BY <1>4, <3>1 DEF Leave
      <4> HIDE DEF e
      <4> QED BY <4>2, <4>3, SendJoins DEF Registered
    <3>2. CASE v = NoConv
      BY <1>4, <3>2 DEF Leave, Registered, Joining
    <3> QED BY <3>1, <3>2
  <2> QED BY <2>1, <2>4, <2>5 DEF Registered
<1>5. CASE ToggleMute(u)
  <2>1. UNCHANGED <<calls, up, wire, inbox, conv, pending, status, shown, rash, crossed>>
    BY <1>5 DEF ToggleMute, server, history
  <2> QED BY <2>1, KeepsAsked, KeepsQueues, KeepsAgreed DEF Registered
<1> QED BY <1>1, <1>2, <1>3, <1>4, <1>5 DEF ClickStep

(* An event that is heard rings the tab at most.                            *)
LEMMA HeardRegistered ==
  ASSUME IInv, Registered, NEW u \in Users, NEW type, Heard(u, type),
         UNCHANGED <<calls, up, wire, pending, rash>>, crossed \subseteq crossed',
         conv' = conv \/ (u \in crossed' /\ \A x \in Users \ {u} : conv'[x] = conv[x]),
         \A x \in Users : status'[x] = "incoming" =>
           \/ status[x] = "incoming" /\ shown'[x] = shown[x]
           \/ x \in Guests(shown'[x])
  PROVE  Registered'
<1>1. \A x \in Users : Joining(x)'
  BY DEF Registered, Joining
<1>2. \A x \in Users : Rung(x)'
  BY HeardRung DEF Registered, IInv
<1>3. \A x \in Users : Asked(x)'
  BY DEF Registered, Asked
<1>4. ASSUME NEW x \in Users PROVE Agreed(x)'
  <2>1. CASE conv'[x] = conv[x]
    BY <2>1, KeepsAgreed DEF Registered
  <2>2. CASE conv'[x] # conv[x]
    BY <2>2 DEF Agreed
  <2> QED BY <2>1, <2>2
<1> QED BY <1>1, <1>2, <1>3, <1>4 DEF Registered

LEMMA TabRegistered ==
  ASSUME IInv, Registered, NEW u \in Users, TabStep(u)
  PROVE  Registered'
<1>1. CASE HearCreated(u)
  <2> DEFINE v == Head(inbox[u]).conv
  <2>1. /\ Heard(u, "created") /\ UNCHANGED <<calls, up, wire, conv, pending, rash, crossed>>
        /\ \/ UNCHANGED <<status, shown>>
           \/ status' = [status EXCEPT ![u] = "incoming"] /\ shown' = [shown EXCEPT ![u] = v]
    BY <1>1 DEF HearCreated, manager, history
  <2>2. u \in Guests(v)
    BY <2>1, HeardRung DEF Registered, IInv
  <2>3. \A x \in Users : status'[x] = "incoming" =>
           \/ status[x] = "incoming" /\ shown'[x] = shown[x]
           \/ x \in Guests(shown'[x])
    <3> HIDE DEF v
    <3> QED BY <2>1, <2>2 DEF IInv, Typed
  <2> QED BY <2>1, <2>3, HeardRegistered
<1>2. CASE HearEnded(u)
  <2>1. Heard(u, "ended") /\ UNCHANGED <<calls, up, wire, pending, rash>>
    BY <1>2 DEF HearEnded
  <2>2. CASE InCall(u)
    <3>1. /\ crossed' = crossed \cup {u} /\ conv' = [conv EXCEPT ![u] = NoConv]
          /\ status' = [status EXCEPT ![u] = "idle"] /\ shown' = [shown EXCEPT ![u] = NoConv]
      BY <1>2, <2>2 DEF HearEnded, Teardown
    <3>2. /\ \A x \in Users :
               status'[x] = "incoming" => status[x] = "incoming" /\ shown'[x] = shown[x]
          /\ \A x \in Users \ {u} : conv'[x] = conv[x]
      BY <3>1 DEF IInv, Typed
    <3> QED BY <2>1, <3>1, <3>2, HeardRegistered
  <2>3. CASE ~InCall(u)
    <3>1. UNCHANGED <<conv, crossed, status, shown>>
      BY <1>2, <2>3 DEF HearEnded, store
    <3> QED BY <2>1, <3>1, HeardRegistered
  <2> QED BY <2>2, <2>3
<1>3. ASSUME HearJoined(u) \/ HearLeft(u) \/ HearOffer(u) \/ HearAnswer(u) PROVE Registered'
  <2>1. /\ UNCHANGED <<calls, up, wire, conv, pending, shown, rash, crossed>>
        /\ status' = status \/ status' = [status EXCEPT ![u] = "active"]
    BY <1>3 DEF HearJoined, HearLeft, HearOffer, HearAnswer, manager, store, history
  <2>2. PICK type : Heard(u, type)
    BY <1>3 DEF HearJoined, HearLeft, HearOffer, HearAnswer
  <2>3. \A x \in Users : status'[x] = "incoming" => status[x] = "incoming" /\ shown'[x] = shown[x]
    BY <2>1 DEF IInv, Typed
  <2> QED BY <2>1, <2>2, <2>3, HeardRegistered
<1>4. ASSUME NEW e \in Events, e.type \in {"offer", "answer"}, Send(u, e),
             UNCHANGED <<calls, wire, inbox, conv, pending, status, shown, rash, crossed>>
      PROVE  Registered'
  <2>1. Typed /\ \A v : ~About(e, v)
    BY <1>4 DEF IInv, About
  <2>2. \A x \in Users \ {u} : Agreed(x)'
    BY <1>4, <2>1, SentOthers, KeepsAgreed DEF Registered
  <2>3. Agreed(u)'
    BY <1>4, <2>1, SendAgrees DEF Registered
  <2>4. \A x \in Users : Joining(x)'
    BY <1>4, <2>1, SendJoins DEF Registered
  <2>5. \A x \in Users : Asked(x)' /\ Rung(x)'
    BY <1>4, KeepsAsked DEF Registered, Rung
  <2> QED BY <2>2, <2>3, <2>4, <2>5 DEF Registered
<1>5. ASSUME NEW l \in loops[u], MakeOffer(u, l) PROVE Registered'
  <2> DEFINE e == Event("offer", l.conv, l.on, {})
  <2>1. l.conv \in Convs /\ l.on \in Users
    BY DEF IInv, Typed
  <2>2. /\ e \in Events /\ e.type = "offer" /\ Send(u, e)
        /\ UNCHANGED <<calls, wire, inbox, conv, pending, status, shown, rash, crossed>>
    BY <1>5, <2>1, EventType DEF Types, MakeOffer, manager, store, history
  <2> HIDE DEF e
  <2> QED BY <1>4, <2>2
<1>6. ASSUME NEW a \in answers[u], MakeAnswer(u, a) PROVE Registered'
  <2> DEFINE e == Event("answer", a.conv, a.to, {})
  <2>1. a.conv \in Convs /\ a.to \in Users
    BY DEF IInv, Typed
  <2>2. /\ e \in Events /\ e.type = "answer" /\ Send(u, e)
        /\ UNCHANGED <<calls, wire, inbox, conv, pending, status, shown, rash, crossed>>
    BY <1>6, <2>1, EventType DEF Types, MakeAnswer, manager, store, history
  <2> HIDE DEF e
  <2> QED BY <1>4, <2>2
<1>7. ASSUME NEW p \in pending[u], Granted(u, p) PROVE Registered'
  <2>1. /\ p.conv \in Convs /\ u \in Guests(p.conv)
        /\ u \notin rash => conv[u] = NoConv
    BY DEF IInv, Typed, Waits, Registered, Asked, Held, Careful
  <2>2. /\ Enter(u, p.kind, p.conv) /\ UNCHANGED <<calls, wire, inbox, rash, crossed>>
        /\ pending' = [pending EXCEPT ![u] = @ \ {p}]
    BY <1>7 DEF Granted, history
  <2>3. \A x \in Users : pending'[x] \subseteq pending[x]
    BY <2>2 DEF IInv, Typed
  <2> QED BY <2>1, <2>2, <2>3, EnterRegistered
<1>8. ASSUME NEW p \in pending[u], Refused(u, p) PROVE Registered'
  <2>1. /\ UNCHANGED <<calls, up, wire, inbox, conv, status, shown, rash, crossed>>
        /\ pending' = [pending EXCEPT ![u] = @ \ {p}]
    BY <1>8 DEF Refused, server, store, history
  <2>2. \A x \in Users : pending'[x] \subseteq pending[x]
    BY <2>1 DEF IInv, Typed
  <2> QED BY <2>1, <2>2, KeepsAsked, KeepsQueues, KeepsAgreed DEF Registered
<1> QED BY <1>1, <1>2, <1>3, <1>5, <1>6, <1>7, <1>8 DEF TabStep

LEMMA RegisteredInductive == IInv /\ Registered /\ [Next]_vars => Registered'
<1> SUFFICES ASSUME IInv, Registered, [Next]_vars PROVE Registered'
  OBVIOUS
<1>1. CASE UNCHANGED vars
  <2>1. UNCHANGED <<calls, up, wire, inbox, conv, pending, status, shown, rash, crossed>>
    BY <1>1 DEF vars, server, manager, store, history
  <2> QED BY <2>1, KeepsAsked, KeepsQueues, KeepsAgreed DEF Registered
<1> QED BY <1>1, ServerRegistered, TabRegistered, ClickRegistered DEF Next

LEMMA InitRegistered == Init => Registered
<1> SUFFICES ASSUME Init, NEW u \in Users PROVE Asked(u) /\ Joining(u) /\ Rung(u) /\ Agreed(u)
  BY DEF Registered
<1>1. /\ up[u] = <<>> /\ wire[u] = <<>> /\ inbox[u] = <<>> /\ conv[u] = NoConv
      /\ pending[u] = {} /\ status[u] = "idle" /\ \A v \in Convs : calls[v] = {}
  BY DEF Init
<1>2. \A v \in Convs : Silent(up[u], v)
  BY <1>1 DEF Silent
<1>3. Agreed(u)
  BY <1>1, <1>2, CallManagerAssumption DEF Agreed
<1> QED BY <1>1, <1>3 DEF Asked, Joining, Rung, Invites

(* The registry has a user in the call his manager is in, and in no other,  *)
(* once what he sent is handled: joins and leaves are told in their order,  *)
(* whatever else crosses them.  Two ways out of a call are told to nobody   *)
(* or too late, and the users of those are named apart.                     *)
THEOREM RegistryKnowsTheCallers == Spec => []RegistryAgrees
<1>1. IInv /\ Registered => RegistryAgrees
  <2> SUFFICES ASSUME Registered, Quiet, NEW u \in Users \ (rash \cup crossed), NEW v \in Convs
               PROVE  u \in calls[v] <=> conv[u] = v
    BY DEF RegistryAgrees
  <2>1. ~LastWord(up[u], v, "join") /\ ~LastWord(up[u], v, "leave")
    BY DEF Quiet, LastWord
  <2> QED BY <2>1 DEF Registered, Agreed
<1> QED BY <1>1, Initial, Inductive, InitRegistered, RegisteredInductive, PTL DEF Spec

-----------------------------------------------------------------------------
(* The mesh.  As long as nobody has left, who is in a call is there for     *)
(* good, and so is every connection; it remains to follow one pair of       *)
(* users, of whom u has the smaller id, from the joins to the answer.       *)

In(q) == {q[i] : i \in 1..Len(q)}
Coming(x) ==
  In(inbox[x]) \cup {r.event : r \in {s \in UNION {In(wire[y]) : y \in Users} : s.to = x}}

Steady == rash = {} /\ ~parted
Mates(v) == {x \in Guests(v) : conv[x] = v}

(* What is under way is between people who are in the call it is of.        *)
Apt(u, e) == e.type # "leave" /\ {u, e.other} \subseteq Mates(e.conv)
Heralds(x, e) ==
  /\ e.type \notin {"left", "ended"}
  /\ e.type = "joined" => e.participants \subseteq Mates(e.conv)
  /\ e.type \in {"offer", "answer"} => {x, e.other} \subseteq Mates(e.conv)
Known ==
  /\ \A v \in Convs : calls[v] \subseteq Mates(v)
  /\ \A u \in Users : /\ conv[u] # NoConv => u \in Mates(conv[u])
                      /\ \A e \in In(up[u]) : Apt(u, e)
                      /\ \A e \in Coming(u) : Heralds(u, e)
                      /\ \A l \in loops[u] : {u, l.on} \cup l.rest \subseteq Mates(l.conv)
                      /\ \A a \in answers[u] : {u, a.to} \subseteq Mates(a.conv)

(* A connection that is being made has its loop; one that was offered has   *)
(* the offer, or what became of it, under way; what is answered has its     *)
(* connection.                                                              *)
Bound(type, u, w) ==
  \/ \E e \in In(up[u]) : e.type = type /\ e.other = w
  \/ \E e \in Coming(w) : e.type = type /\ e.other = u
Answering(w, u) == \E a \in answers[w] : a.to = u
Matched(u, w) ==
  /\ peers[u][w] \in {"none", "creating", "offered", "stable"}
  /\ peers[w][u] \in {"none", "new", "answering", "stable"}
  /\ peers[u][w] = "creating" => \E l \in loops[u] : l.on = w
  /\ peers[u][w] = "offered" => Bound("offer", u, w) \/ Answering(w, u) \/ Bound("answer", w, u)
  /\ peers[u][w] = "stable" \/ Answering(w, u) \/ Bound("answer", w, u)
       => peers[w][u] \in {"answering", "stable"}
  /\ peers[w][u] = "answering" => Answering(w, u)

(* Whoever is to make the offer has begun, or is still to hear whom it is   *)
(* for.                                                                     *)
Noticed(u, w) ==
  \A v \in Convs : {u, w} \subseteq calls[v] =>
    \/ peers[u][w] # "none"
    \/ \E l \in loops[u] : w \in l.rest
    \/ \E e \in Coming(u) : e.type = "joined" /\ e.conv = v /\ w \in e.participants

Entangled == Steady => Known /\ \A u, w \in Users : u < w => Matched(u, w) /\ Noticed(u, w)

LEMMA InQueue ==
  ASSUME NEW S, NEW q \in Seq(S)
  PROVE  /\ q # <<>> => In(q) = {Head(q)} \cup In(Tail(q))
         /\ \A e \in S : In(Append(q, e)) = In(q) \cup {e}
         /\ \A r \in Seq(S) : In(q \o r) = In(q) \cup In(r)
         /\ q = <<>> => In(q) = {}
<1>1. ASSUME q # <<>> PROVE In(q) = {Head(q)} \cup In(Tail(q))
  <2>1. /\ Head(q) = q[1] /\ 1 \in 1..Len(q) /\ Len(q) \in Nat /\ Len(Tail(q)) = Len(q) - 1
        /\ \A i \in 1..Len(Tail(q)) : i + 1 \in 1..Len(q) /\ Tail(q)[i] = q[i + 1]
    BY <1>1
  <2>2. \A i \in 1..Len(q) : i = 1 \/ i - 1 \in 1..Len(Tail(q))
    BY <2>1
  <2>3. ASSUME NEW i \in 1..Len(q) PROVE q[i] \in {Head(q)} \cup In(Tail(q))
    <3>1. CASE i = 1
      BY <2>1, <3>1
    <3>2. CASE i # 1
      <4>1. i - 1 \in 1..Len(Tail(q)) /\ Tail(q)[i - 1] = q[(i - 1) + 1] /\ (i - 1) + 1 = i
        BY <2>1, <2>2, <3>2
      <4> QED BY <4>1 DEF In
    <3> QED BY <3>1, <3>2
  <2>4. \A i \in 1..Len(Tail(q)) : Tail(q)[i] \in In(q)
    BY <2>1 DEF In
  <2>5. Head(q) \in In(q)
    BY <2>1 DEF In
  <2> QED BY <2>3, <2>4, <2>5 DEF In
<1>2. ASSUME NEW e \in S PROVE In(Append(q, e)) = In(q) \cup {e}
  <2> DEFINE p == Append(q, e)
  <2>1. /\ Len(q) \in Nat /\ Len(p) = Len(q) + 1 /\ p[Len(q) + 1] = e
        /\ \A i \in 1..Len(q) : i \in 1..Len(p) /\ p[i] = q[i]
    OBVIOUS
  <2> HIDE DEF p
  <2>2. \A i \in 1..Len(p) : i \in 1..Len(q) \/ p[i] = e
    BY <2>1
  <2>3. Len(q) + 1 \in 1..Len(p)
    BY <2>1
  <2> QED BY <2>1, <2>2, <2>3 DEF In, p
<1>3. ASSUME NEW r \in Seq(S) PROVE In(q \o r) = In(q) \cup In(r)
  <2> DEFINE p == q \o r
  <2>1. /\ Len(q) \in Nat /\ Len(r) \in Nat /\ Len(p) = Len(q) + Len(r)
        /\ \A i \in 1..Len(q) : i \in 1..Len(p) /\ p[i] = q[i]
    OBVIOUS
  <2>2. \A i \in 1..Len(r) : p[Len(q) + i] = r[i]
    OBVIOUS
  <2> HIDE DEF p
  <2>3. \A i \in 1..Len(r) : Len(q) + i \in 1..Len(p)
    BY <2>1
  <2>4. ASSUME NEW i \in 1..Len(p) PROVE p[i] \in In(q) \cup In(r)
    <3>1. CASE i \in 1..Len(q)
      BY <2>1, <3>1 DEF In
    <3>2. CASE i \notin 1..Len(q)
      <4>1. i - Len(q) \in 1..Len(r) /\ Len(q) + (i - Len(q)) = i
        BY <2>1, <3>2
      <4> QED BY <2>2, <4>1 DEF In
    <3> QED BY <3>1, <3>2
  <2>5. \A i \in 1..Len(q) : q[i] \in In(p)
    BY <2>1 DEF In
  <2>6. \A i \in 1..Len(r) : r[i] \in In(p)
    BY <2>2, <2>3 DEF In
  <2> QED BY <2>4, <2>5, <2>6 DEF In, p
<1>4. ASSUME q = <<>> PROVE In(q) = {}
  BY <1>4 DEF In
<1> QED BY <1>1, <1>2, <1>3, <1>4

LEMMA InToEach ==
  ASSUME NEW s \in Seq(Users), NEW e
  PROVE  In(ToEach(s, e)) = {[to |-> x, event |-> e] : x \in In(s)}
<1>1. DOMAIN s = 1..Len(s) /\ Len(s) \in Nat
  OBVIOUS
<1>2. ToEach(s, e) = [i \in 1..Len(s) |-> [to |-> s[i], event |-> e]]
  BY <1>1 DEF ToEach
<1>3. Len(ToEach(s, e)) = Len(s)
  BY <1>1, <1>2
<1>4. \A i \in 1..Len(s) : ToEach(s, e)[i] = [to |-> s[i], event |-> e]
  BY <1>2
<1> QED BY <1>3, <1>4 DEF In

(* What is coming to a tab: written to it, or to be written to it.          *)
LEMMA ComingIs ==
  ASSUME NEW x, NEW e
  PROVE  e \in Coming(x) <=> \/ e \in In(inbox[x])
                             \/ \E y \in Users : \E s \in In(wire[y]) : s.to = x /\ s.event = e
BY DEF Coming

LEMMA WriteComing ==
  ASSUME Typed, NEW u \in Users, Write(u), NEW x \in Users
  PROVE  Coming(x)' = Coming(x)
<1> DEFINE w == Head(wire[u])
<1>1. /\ wire[u] \in Seq(Wired) /\ wire[u] # <<>>
      /\ wire' = [wire EXCEPT ![u] = Tail(@)]
      /\ inbox' = [inbox EXCEPT ![w.to] = Append(@, w.event)]
  BY DEF Write, Typed, Wired
<1>2. w \in Wired /\ In(wire[u]) = {w} \cup In(Tail(wire[u]))
  BY <1>1, InQueue, HeadTail
<1>3. w.to \in Users /\ w.event \in Events
  BY <1>2 DEF Wired
<1> HIDE DEF w
<1>4. wire'[u] = Tail(wire[u]) /\ \A y \in Users \ {u} : wire'[y] = wire[y]
  BY <1>1 DEF Typed
<1>5. inbox[w.to] \in Seq(Events) /\ inbox'[w.to] = Append(inbox[w.to], w.event)
  BY <1>1, <1>3 DEF Typed
<1>6. In(inbox'[x]) = IF x = w.to THEN In(inbox[x]) \cup {w.event} ELSE In(inbox[x])
  <2>1. CASE x = w.to
    <3>1. In(Append(inbox[w.to], w.event)) = In(inbox[w.to]) \cup {w.event}
      BY <1>3, <1>5, InQueue
    <3>2. inbox'[x] = Append(inbox[w.to], w.event)
      BY <1>5, <2>1
    <3> QED BY <2>1, <3>1, <3>2
  <2>2. CASE x # w.to
    BY <1>1, <2>2 DEF Typed
  <2> QED BY <2>1, <2>2
<1>7. ASSUME NEW e PROVE e \in Coming(x)' <=> e \in Coming(x)
  <2>1. e \in Coming(x)' <=> \/ e \in In(inbox'[x])
                             \/ \E y \in Users : \E s \in In(wire'[y]) : s.to = x /\ s.event = e
    BY DEF Coming, In
  <2>2. ASSUME e \in Coming(x) PROVE e \in Coming(x)'
    <3>1. CASE e \in In(inbox[x])
      BY <1>6, <2>1, <3>1
    <3>2. ASSUME NEW y \in Users, NEW s \in In(wire[y]), s.to = x, s.event = e
          PROVE  e \in Coming(x)'
      <4>1. CASE y = u /\ s = w
        BY <1>6, <2>1, <3>2, <4>1
      <4>2. CASE ~(y = u /\ s = w)
        <5>1. s \in In(wire'[y])
          BY <1>2, <1>4, <3>2, <4>2
        <5> QED BY <2>1, <3>2, <5>1
      <4> QED BY <4>1, <4>2
    <3> QED BY <2>2, <3>1, <3>2, ComingIs
  <2>3. ASSUME e \in Coming(x)' PROVE e \in Coming(x)
    <3>1. CASE e \in In(inbox'[x])
      <4>1. e \in In(inbox[x]) \/ (x = w.to /\ e = w.event)
        BY <1>6, <3>1
      <4> QED BY <1>2, <4>1, ComingIs
    <3>2. ASSUME NEW y \in Users, NEW s \in In(wire'[y]), s.to = x, s.event = e
          PROVE  e \in Coming(x)
      <4>1. s \in In(wire[y])
        BY <1>2, <1>4, <3>2
      <4> QED BY <3>2, <4>1, ComingIs
    <3> QED BY <2>1, <2>3, <3>1, <3>2
  <2> QED BY <2>2, <2>3
<1> QED BY <1>7

LEMMA HandledComing ==
  ASSUME Typed, NEW u \in Users, NEW type, Handled(u, type), NEW ws,
         wire' = [wire EXCEPT ![u] = ws], inbox' = inbox
  PROVE  /\ \A x, e : e \in Coming(x)' <=>
              e \in Coming(x) \/ \E s \in In(ws) : s.to = x /\ s.event = e
         /\ In(up[u]) = {Head(up[u])} \cup In(up'[u])
         /\ \A x \in Users \ {u} : up'[x] = up[x]
<1>1. /\ up[u] \in Seq(Events) /\ up[u] # <<>> /\ up' = [up EXCEPT ![u] = Tail(@)]
      /\ wire[u] = <<>>
  BY DEF Handled, Typed
<1>2. up'[u] = Tail(up[u]) /\ \A x \in Users \ {u} : up'[x] = up[x]
  BY <1>1 DEF Typed
<1>3. In(up[u]) = {Head(up[u])} \cup In(up'[u])
  BY <1>1, <1>2, InQueue
<1>4. wire'[u] = ws /\ \A y \in Users \ {u} : wire'[y] = wire[y]
  BY DEF Typed
<1>5. In(wire[u]) = {}
  BY <1>1 DEF In
<1>6. ASSUME NEW x, NEW e
      PROVE  e \in Coming(x)' <=> e \in Coming(x) \/ \E s \in In(ws) : s.to = x /\ s.event = e
  <2>1. e \in Coming(x)' <=> \/ e \in In(inbox'[x])
                             \/ \E y \in Users : \E s \in In(wire'[y]) : s.to = x /\ s.event = e
    BY DEF Coming, In
  <2>2. (\E y \in Users : \E s \in In(wire'[y]) : s.to = x /\ s.event = e) <=>
          \/ \E y \in Users : \E s \in In(wire[y]) : s.to = x /\ s.event = e
          \/ \E s \in In(ws) : s.to = x /\ s.event = e
    BY <1>4, <1>5
  <2> QED BY <2>1, <2>2, ComingIs
<1> QED BY <1>2, <1>3, <1>6

LEMMA HeardComing ==
  ASSUME Typed, NEW u \in Users, NEW type, Heard(u, type), wire' = wire
  PROVE  /\ Head(inbox[u]) \in Coming(u) /\ Head(inbox[u]) \in Events
         /\ \A x \in Users : /\ Coming(x)' \subseteq Coming(x)
                             /\ \A e \in Coming(x) :
                                  e \in Coming(x)' \/ (x = u /\ e = Head(inbox[u]))
<1>1. /\ inbox[u] \in Seq(Events) /\ inbox[u] # <<>> /\ inbox' = [inbox EXCEPT ![u] = Tail(@)]
  BY DEF Heard, Typed
<1>2. inbox'[u] = Tail(inbox[u]) /\ \A x \in Users \ {u} : inbox'[x] = inbox[x]
  BY <1>1 DEF Typed
<1>3. In(inbox[u]) = {Head(inbox[u])} \cup In(inbox'[u]) /\ Head(inbox[u]) \in Events
  BY <1>1, <1>2, InQueue, HeadTail
<1>4. Head(inbox[u]) \in Coming(u)
  BY <1>3, ComingIs
<1>5. \A x, e : e \in Coming(x)' <=>
              \/ e \in In(inbox'[x])
              \/ \E y \in Users : \E s \in In(wire[y]) : s.to = x /\ s.event = e
  BY DEF Coming, In
<1> QED BY <1>2, <1>3, <1>4, <1>5, ComingIs

LEMMA SendIn ==
  ASSUME Typed, NEW u \in Users, NEW e \in Events, Send(u, e)
  PROVE  In(up'[u]) = In(up[u]) \cup {e} /\ \A x \in Users \ {u} : up'[x] = up[x]
<1>1. up[u] \in Seq(Events) /\ up'[u] = Append(up[u], e) /\ \A x \in Users \ {u} : up'[x] = up[x]
  BY DEF Send, Typed
<1> QED BY <1>1, InQueue

(* Everything under way is an event.                                        *)
LEMMA ComingEvents ==
  ASSUME Typed, NEW x \in Users
  PROVE  Coming(x) \subseteq Events /\ In(up[x]) \subseteq Events
<1>1. ASSUME NEW y \in Users PROVE In(wire[y]) \subseteq Wired
  <2>1. wire[y] \in Seq(Wired)
    BY DEF Typed, Wired
  <2>2. \A i \in 1..Len(wire[y]) : wire[y][i] \in Wired
    BY <2>1
  <2> QED BY <2>2 DEF In
<1>2. In(inbox[x]) \subseteq Events /\ In(up[x]) \subseteq Events
  BY DEF Typed, In
<1> QED BY <1>1, <1>2, ComingIs DEF Wired

LEMMA MatesStay ==
  ASSUME NEW v \in Convs,
         \A x \in Users : conv'[x] = conv[x] \/ (conv[x] = NoConv /\ x \in Guests(conv'[x]))
  PROVE  Mates(v) \subseteq Mates(v)'
<1>1. v # NoConv
  BY CallManagerAssumption
<1>2. ASSUME NEW x \in Guests(v), conv[x] = v PROVE conv'[x] = v
  BY <1>1, <1>2 DEF Guests
<1> QED BY <1>2 DEF Mates, Guests, Member

LEMMA KnownStep ==
  ASSUME Typed, Known,
         \A x \in Users : conv'[x] = conv[x] \/ (conv[x] = NoConv /\ x \in Guests(conv'[x])),
         \A v \in Convs : calls'[v] \subseteq calls[v] \cup Mates(v)',
         \A x \in Users : \A e \in In(up'[x]) : e \in In(up[x]) \/ Apt(x, e)',
         \A x \in Users : \A e \in Coming(x)' : e \in Coming(x) \/ Heralds(x, e)',
         \A x \in Users : \A l \in loops'[x] :
           l \in loops[x] \/ {x, l.on} \cup l.rest \subseteq Mates(l.conv)',
         \A x \in Users : \A a \in answers'[x] :
           a \in answers[x] \/ {x, a.to} \subseteq Mates(a.conv)'
  PROVE  Known'
<1>1. ASSUME NEW v \in Convs PROVE Mates(v) \subseteq Mates(v)'
  BY MatesStay
<1>2. ASSUME NEW v \in Convs PROVE calls'[v] \subseteq Mates(v)'
  BY <1>1 DEF Known
<1>3. ASSUME NEW x \in Users PROVE \A e \in In(up'[x]) : Apt(x, e)'
  <2>1. ASSUME NEW e \in In(up[x]) PROVE Apt(x, e)'
    <3>1. Apt(x, e) /\ e.conv \in Convs
      BY <2>1, ComingEvents DEF Known, Events
    <3> QED BY <1>1, <3>1 DEF Apt
  <2> QED BY <2>1
<1>4. ASSUME NEW x \in Users PROVE \A e \in Coming(x)' : Heralds(x, e)'
  <2>1. ASSUME NEW e \in Coming(x) PROVE Heralds(x, e)'
    <3>1. Heralds(x, e) /\ e.conv \in Convs
      BY <2>1, ComingEvents DEF Known, Events
    <3> QED BY <1>1, <3>1 DEF Heralds
  <2> QED BY <2>1
<1>5. ASSUME NEW x \in Users, NEW l \in loops'[x]
      PROVE  {x, l.on} \cup l.rest \subseteq Mates(l.conv)'
  <2>1. CASE l \in loops[x]
    <3>1. loops[x] \subseteq Loops
      BY DEF Typed, Loops
    <3>2. l.conv \in Convs
      BY <2>1, <3>1 DEF Loops
    <3>3. {x, l.on} \cup l.rest \subseteq Mates(l.conv)
      BY <2>1 DEF Known
    <3> QED BY <1>1, <3>2, <3>3
  <2> QED BY <2>1
<1>6. ASSUME NEW x \in Users, NEW a \in answers'[x]
      PROVE  {x, a.to} \subseteq Mates(a.conv)'
  <2>1. CASE a \in answers[x]
    <3>1. a.conv \in Convs /\ {x, a.to} \subseteq Mates(a.conv)
      BY <2>1 DEF Typed, Known
    <3> QED BY <1>1, <3>1
  <2> QED BY <2>1
<1>7. \A x \in Users : In(up'[x]) = In(up[x])'
  BY DEF In
<1>8. ASSUME NEW x \in Users, conv'[x] # NoConv PROVE (x \in Mates(conv[x]))'
  <2>1. x \in Guests(conv'[x])
    BY <1>8 DEF Known, Mates
  <2> QED BY <2>1 DEF Mates, Guests, Member
<1> QED BY <1>2, <1>3, <1>4, <1>5, <1>6, <1>7, <1>8 DEF Known

LEMMA MatchedSame ==
  ASSUME NEW u \in Users, NEW w \in Users, Matched(u, w),
         peers'[u][w] = peers[u][w], peers'[w][u] = peers[w][u],
         loops'[u] = loops[u], answers'[w] = answers[w],
         Bound("offer", u, w) => Bound("offer", u, w)',
         Bound("answer", w, u) <=> Bound("answer", w, u)'
  PROVE  Matched(u, w)'
BY DEF Matched, Answering

LEMMA NoticedSame ==
  ASSUME NEW u \in Users, NEW w \in Users, Noticed(u, w), calls' = calls,
         peers[u][w] # "none" => peers'[u][w] # "none", loops'[u] = loops[u],
         \A e \in Coming(u) : e \in Coming(u)' \/ e.type # "joined"
  PROVE  Noticed(u, w)'
BY DEF Noticed

(* Steps that touch no connection: they may send a join, and hear what is   *)
(* no part of a mesh.                                                       *)
LEMMA ApartEntangled ==
  ASSUME IInv, Entangled, Steady' => Steady, UNCHANGED <<calls, peers, loops, answers>>,
         Steady' => \A x \in Users :
           conv'[x] = conv[x] \/ (conv[x] = NoConv /\ x \in Guests(conv'[x])),
         \A x \in Users : In(up[x]) \subseteq In(up'[x]),
         \A x \in Users : \A e \in In(up'[x]) :
           e \in In(up[x]) \/ (e.type = "join" /\ (Steady' => Apt(x, e)')),
         \A x \in Users : /\ Coming(x)' \subseteq Coming(x)
                          /\ \A e \in Coming(x) : e \in Coming(x)' \/ e.type = "created"
  PROVE  Entangled'
<1> SUFFICES ASSUME Steady' PROVE (Known /\ \A u, w \in Users : u < w => Matched(u, w) /\ Noticed(u, w))'
  BY DEF Entangled
<1>1. Typed /\ Known
  BY DEF Entangled, IInv
<1>2. Known'
  BY <1>1, KnownStep
<1>3. ASSUME NEW type \in {"offer", "answer"}, NEW x \in Users, NEW y \in Users
      PROVE  Bound(type, x, y) <=> Bound(type, x, y)'
  <2>1. Bound(type, x, y)' <=> \/ \E e \in In(up'[x]) : e.type = type /\ e.other = y
                               \/ \E e \in Coming(y)' : e.type = type /\ e.other = x
    BY DEF Bound, In
  <2> QED BY <2>1 DEF Bound
<1>4. ASSUME NEW u \in Users, NEW w \in Users, u < w PROVE Matched(u, w)' /\ Noticed(u, w)'
  <2>1. Matched(u, w) /\ Noticed(u, w)
    BY <1>4 DEF Entangled
  <2>2. Matched(u, w)'
    BY <1>3, <2>1, MatchedSame
  <2>3. \A e \in Coming(u) : e \in Coming(u)' \/ e.type # "joined"
    OBVIOUS
  <2> QED BY <2>1, <2>2, <2>3, NoticedSame
<1> QED BY <1>2, <1>4

LEMMA SameComing ==
  ASSUME UNCHANGED <<wire, inbox>>, NEW x PROVE Coming(x)' = Coming(x)
BY DEF Coming, In

LEMMA EnterEntangled ==
  ASSUME IInv, Entangled, NEW u \in Users, NEW v \in Convs, NEW kind, Enter(u, kind, v),
         u \in Guests(v), u \notin rash => conv[u] \in {NoConv, v},
         rash \subseteq rash', parted' = parted,
         UNCHANGED <<calls, wire, inbox, peers, loops, answers>>
  PROVE  Entangled'
<1> DEFINE e == Event("join", v, u, {})
<1>1. e \in Events /\ e.type = "join" /\ e.conv = v /\ e.other = u
  BY EventType DEF Types, Event
<1>2. Send(u, e) /\ conv' = [conv EXCEPT ![u] = v]
  BY DEF Enter
<1> HIDE DEF e
<1>3. In(up'[u]) = In(up[u]) \cup {e} /\ \A x \in Users \ {u} : up'[x] = up[x]
  BY <1>1, <1>2, SendIn DEF IInv
<1>4. Steady' => Steady
  BY DEF Steady
<1>5. conv'[u] = v /\ \A x \in Users \ {u} : conv'[x] = conv[x]
  BY <1>2 DEF IInv, Typed
<1>6. Steady' => \A x \in Users :
        conv'[x] = conv[x] \/ (conv[x] = NoConv /\ x \in Guests(conv'[x]))
  BY <1>4, <1>5 DEF Steady
<1>7. Apt(u, e)'
  BY <1>1, <1>5 DEF Apt, Mates, Guests
<1>8. /\ \A x \in Users : In(up[x]) \subseteq In(up'[x])
      /\ \A x \in Users : \A d \in In(up'[x]) :
           d \in In(up[x]) \/ (d.type = "join" /\ (Steady' => Apt(x, d)'))
  BY <1>1, <1>3, <1>7
<1> QED BY <1>4, <1>6, <1>8, SameComing, ApartEntangled

LEMMA AcquireEntangled ==
  ASSUME IInv, Entangled, NEW u \in Users, NEW v \in Convs, NEW kind, Acquire(u, kind, v),
         u \in Guests(v), status[u] = "idle" \/ (status[u] = "incoming" /\ shown[u] = v),
         rash \subseteq rash', parted' = parted,
         UNCHANGED <<calls, wire, inbox, peers, loops, answers>>
  PROVE  Entangled'
<1>1. CASE local[u]
  <2>1. Enter(u, kind, v)
    BY <1>1 DEF Acquire
  <2>2. u \notin rash => conv[u] \in {NoConv, v}
    BY DEF IInv, Careful
  <2> QED BY <2>1, <2>2, EnterEntangled
<1>2. CASE ~local[u]
  <2>1. UNCHANGED <<up, conv>>
    BY <1>2 DEF Acquire
  <2>2. Steady' => Steady
    BY DEF Steady
  <2> QED BY <2>1, <2>2, SameComing, ApartEntangled
<1> QED BY <1>1, <1>2

LEMMA ClickEntangled ==
  ASSUME IInv, Registered, Entangled, NEW u \in Users, ClickStep(u)
  PROVE  Entangled'
<1>1. ASSUME NEW v \in Convs, Start(u, v) PROVE Entangled'
  <2>1. /\ Acquire(u, "start", v) /\ status[u] = "idle" /\ Member(u, v)
        /\ UNCHANGED <<calls, wire, inbox, peers, loops, answers, parted>> /\ rash \subseteq rash'
    BY <1>1 DEF Start, MayStart, Rash, mesh
  <2>2. u \in Guests(v)
    BY <2>1 DEF Guests
  <2> QED BY <2>1, <2>2, AcquireEntangled
<1>2. CASE Accept(u)
  <2>1. /\ Acquire(u, "accept", shown[u]) /\ status[u] = "incoming"
        /\ UNCHANGED <<calls, wire, inbox, peers, loops, answers, parted>> /\ rash \subseteq rash'
    BY <1>2 DEF Accept, Ringing, Rash, mesh
  <2>2. shown[u] \in Convs /\ u \in Guests(shown[u])
    BY <2>1 DEF IInv, Held, Registered, Asked
  <2> QED BY <2>1, <2>2, AcquireEntangled
<1>3. CASE Decline(u) \/ ToggleMute(u)
  <2>1. /\ UNCHANGED <<calls, up, wire, inbox, conv, peers, loops, answers, parted>>
        /\ rash \subseteq rash'
    BY <1>3 DEF Decline, ToggleMute, Rash, server, manager, mesh, history
  <2>2. Steady' => Steady
    BY <2>1 DEF Steady
  <2> QED BY <2>1, <2>2, SameComing, ApartEntangled
<1>4. CASE Leave(u)
  <2>1. ~Steady'
    BY <1>4 DEF Leave, Steady
  <2> QED BY <2>1 DEF Entangled
<1> QED BY <1>1, <1>2, <1>3, <1>4 DEF ClickStep

(* The server's steps.                                                      *)
LEMMA JoinEntangled ==
  ASSUME IInv, Entangled, NEW u \in Users, HandleJoin(u)
  PROVE  Entangled'
<1> PICK h \in {Head(up[u])} : TRUE
  OBVIOUS
<1> PICK news \in {Event("joined", h.conv, u, calls[h.conv] \cup {u})} : TRUE
  OBVIOUS
<1> DEFINE v == h.conv
           list == MembersOf[v]
           ring == Event("created", v, u, {})
           rings == IF calls[v] = {} /\ v \in Direct THEN Without(list, u) ELSE <<>>
           ws == ToEach(rings, ring) \o ToEach(list, news)
<1>1. /\ Handled(u, "join") /\ Typed
      /\ UNCHANGED <<inbox, conv, peers, loops, answers, rash, parted>>
  BY DEF HandleJoin, IInv, manager, mesh, history
<1> SUFFICES ASSUME Steady' PROVE (Known /\ \A x, y \in Users : x < y => Matched(x, y) /\ Noticed(x, y))'
  BY DEF Entangled
<1>2. Known /\ \A x, y \in Users : x < y => Matched(x, y) /\ Noticed(x, y)
  BY <1>1 DEF Entangled, Steady
<1>3. /\ h \in Events /\ h.type = "join" /\ h \in In(up[u])
      /\ v \in Convs /\ list \in Seq(Users) /\ calls[v] \in SUBSET Users
  <2>1. h \in Events /\ h.type = "join" /\ h \in In(up[u])
    BY <1>1, HeadUp DEF In
  <2> QED BY <1>1, <2>1, CallManagerAssumption DEF Typed, Events
<1>4. u \in Mates(v) /\ Member(u, v)
  BY <1>2, <1>3 DEF Known, Apt, Mates, Guests
<1>5. calls' = [calls EXCEPT ![v] = @ \cup {u}] /\ wire' = [wire EXCEPT ![u] = ws]
  BY <1>4 DEF HandleJoin
<1>6. /\ ring \in Events /\ ring.type = "created"
      /\ news \in Events /\ news.type = "joined" /\ news.conv = v
      /\ news.participants = calls[v] \cup {u}
  BY <1>3, EventType DEF Types, Event
<1>7. rings \in Seq(Users)
  <2>1. \E i \in DOMAIN list : list[i] = u
    BY <1>4 DEF Member
  <2> QED BY <1>3, <2>1, WithoutType
<1>8. \A x \in Users : x \in Guests(v) => x \in In(list)
  <2>1. DOMAIN list = 1..Len(list)
    BY <1>3
  <2> QED BY <2>1 DEF Guests, Member, In
<1> HIDE DEF ring, rings, list
<1>9. /\ \A s \in In(ws) : s.event = ring \/ s.event = news
      /\ \A x \in In(list) : \E s \in In(ws) : s.to = x /\ s.event = news
  <2>1. ToEach(rings, ring) \in Seq(Wired) /\ ToEach(list, news) \in Seq(Wired)
    BY <1>3, <1>6, <1>7, ToEachType DEF Wired
  <2>2. In(ws) = In(ToEach(rings, ring)) \cup In(ToEach(list, news))
    BY <2>1, InQueue
  <2>3. In(ToEach(rings, ring)) = {[to |-> x, event |-> ring] : x \in In(rings)}
    BY <1>7, InToEach
  <2>4. In(ToEach(list, news)) = {[to |-> x, event |-> news] : x \in In(list)}
    BY <1>3, InToEach
  <2>5. \A s \in In(ToEach(rings, ring)) : s.event = ring
    BY <2>3
  <2>6. \A s \in In(ToEach(list, news)) : s.event = news
    BY <2>4
  <2>7. ASSUME NEW x \in In(list)
        PROVE  \E s \in In(ToEach(list, news)) : s.to = x /\ s.event = news
    <3> DEFINE s == [to |-> x, event |-> news]
    <3>1. s \in In(ToEach(list, news))
      BY <2>4
    <3>2. s.to = x /\ s.event = news
      OBVIOUS
    <3> HIDE DEF s
    <3> QED BY <3>1, <3>2
  <2> QED BY <2>2, <2>5, <2>6, <2>7
<1> HIDE DEF ws
<1>10. /\ \A x, e : e \in Coming(x)' <=>
            e \in Coming(x) \/ \E s \in In(ws) : s.to = x /\ s.event = e
       /\ In(up[u]) = {h} \cup In(up'[u])
       /\ \A x \in Users \ {u} : up'[x] = up[x]
  BY <1>1, <1>5, HandledComing
<1>11. /\ \A x, e : e \in Coming(x)' => e \in Coming(x) \/ e = ring \/ e = news
       /\ \A x, e : e \in Coming(x) => e \in Coming(x)'
       /\ \A x \in Guests(v) : news \in Coming(x)'
  <2>1. ASSUME NEW x, NEW e, e \in Coming(x)' PROVE e \in Coming(x) \/ e = ring \/ e = news
    <3>1. e \in Coming(x) \/ \E s \in In(ws) : s.to = x /\ s.event = e
      BY <1>10, <2>1
    <3> QED BY <1>9, <3>1
  <2>2. ASSUME NEW x \in Guests(v) PROVE news \in Coming(x)'
    <3>1. x \in In(list)
      BY <1>8 DEF Guests
    <3>2. \E s \in In(ws) : s.to = x /\ s.event = news
      BY <1>9, <3>1
    <3> QED BY <1>10, <3>2
  <2> QED BY <1>10, <2>1, <2>2
<1>12. \A c \in Convs : calls'[c] = IF c = v THEN calls[c] \cup {u} ELSE calls[c]
  BY <1>1, <1>3, <1>5 DEF Typed
<1>13. \A c : Mates(c)' = Mates(c)
  BY <1>1 DEF Mates, Guests, Member
<1>14. Known'
  <2>1. \A c \in Convs : calls'[c] \subseteq calls[c] \cup Mates(c)'
    BY <1>4, <1>12, <1>13
  <2>2. \A x \in Users : \A e \in In(up'[x]) : e \in In(up[x]) \/ Apt(x, e)'
    BY <1>10
  <2>3. calls[v] \cup {u} \subseteq Mates(v)
    BY <1>2, <1>3, <1>4 DEF Known
  <2>4. ASSUME NEW x \in Users PROVE Heralds(x, ring)' /\ Heralds(x, news)'
    BY <1>6, <1>13, <2>3 DEF Heralds
  <2>5. \A x \in Users : \A e \in Coming(x)' : e \in Coming(x) \/ Heralds(x, e)'
    BY <1>11, <2>4
  <2> QED BY <1>1, <1>2, <2>1, <2>2, <2>5, KnownStep
<1>15. ASSUME NEW type \in {"offer", "answer"}, NEW x \in Users, NEW y \in Users
       PROVE  Bound(type, x, y) <=> Bound(type, x, y)'
  <2>1. Bound(type, x, y)' <=> \/ \E e \in In(up'[x]) : e.type = type /\ e.other = y
                               \/ \E e \in Coming(y)' : e.type = type /\ e.other = x
    BY DEF Bound, In
  <2>2. /\ \A e \in In(up'[x]) : e \in In(up[x])
        /\ \A e \in In(up[x]) : e \in In(up'[x]) \/ e.type = "join"
    BY <1>3, <1>10
  <2>3. \A e \in Coming(y)' : e \in Coming(y) \/ e.type \in {"created", "joined"}
    BY <1>6, <1>11
  <2> QED BY <1>11, <2>1, <2>2, <2>3 DEF Bound
<1>16. ASSUME NEW x \in Users, NEW y \in Users, x < y PROVE Matched(x, y)' /\ Noticed(x, y)'
  <2>1. Matched(x, y) /\ Noticed(x, y)
    BY <1>2, <1>16
  <2>2. Matched(x, y)'
    BY <1>1, <1>15, <2>1, MatchedSame
  <2>3. ASSUME NEW c \in Convs, {x, y} \subseteq calls'[c]
        PROVE  \/ peers[x][y] # "none"
               \/ \E l \in loops[x] : y \in l.rest
               \/ \E e \in Coming(x)' : e.type = "joined" /\ e.conv = c /\ y \in e.participants
    <3>1. CASE {x, y} \subseteq calls[c]
      BY <1>11, <2>1, <3>1 DEF Noticed
    <3>2. CASE ~({x, y} \subseteq calls[c])
      <4>1. c = v /\ {x, y} \subseteq calls[v] \cup {u}
        BY <1>12, <2>3, <3>2
      <4>2. x \in Guests(v)
        BY <1>2, <1>3, <1>4, <4>1 DEF Known, Mates
      <4>3. news \in Coming(x)'
        BY <1>11, <4>2
      <4> QED BY <1>6, <4>1, <4>3
    <3> QED BY <3>1, <3>2
  <2>4. Noticed(x, y)'
    BY <1>1, <2>3 DEF Noticed
  <2> QED BY <2>2, <2>4
<1> QED BY <1>14, <1>16

LEMMA SignalEntangled ==
  ASSUME IInv, Entangled, NEW u \in Users, HandleSignal(u)
  PROVE  Entangled'
<1> PICK h : h = Head(up[u])
  OBVIOUS
<1> DEFINE back == [h EXCEPT !.other = u]
           ws == ToEach(<<h.other>>, back)
<1>1. Typed /\ UNCHANGED <<calls, inbox, conv, peers, loops, answers, rash, parted>>
  BY DEF HandleSignal, IInv, manager, mesh, history
<1>2. PICK type \in {"offer", "answer"} : Handled(u, type)
  BY DEF HandleSignal
<1> SUFFICES ASSUME Steady' PROVE (Known /\ \A x, y \in Users : x < y => Matched(x, y) /\ Noticed(x, y))'
  BY DEF Entangled
<1>3. Known /\ \A x, y \in Users : x < y => Matched(x, y) /\ Noticed(x, y)
  BY <1>1 DEF Entangled, Steady
<1>4. h \in Events /\ h.type = type /\ h \in In(up[u]) /\ h.other \in Users /\ h.conv \in Convs
  BY <1>1, <1>2, HeadUp DEF Events, In
<1>5. {u, h.other} \subseteq Mates(h.conv)
  BY <1>3, <1>4 DEF Known, Apt
<1>6. wire' = [wire EXCEPT ![u] = ws]
  BY <1>5 DEF HandleSignal, Mates, Guests
<1>7. back \in Events /\ back.type = type /\ back.other = u /\ back.conv = h.conv
  BY <1>4 DEF Events
<1> HIDE DEF back
<1>8. In(ws) = {[to |-> h.other, event |-> back]}
  <2>1. <<h.other>> \in Seq(Users) /\ In(<<h.other>>) = {h.other}
    <3>1. \A w \in Users : <<w>> \in Seq(Users) /\ Len(<<w>>) = 1 /\ <<w>>[1] = w
      OBVIOUS
    <3> QED BY <1>4, <3>1 DEF In
  <2>2. In(ws) = {[to |-> x, event |-> back] : x \in In(<<h.other>>)}
    BY <2>1, InToEach
  <2> QED BY <2>1, <2>2
<1> HIDE DEF ws
<1>9. /\ \A x, e : e \in Coming(x)' <=>
            e \in Coming(x) \/ \E s \in In(ws) : s.to = x /\ s.event = e
      /\ In(up[u]) = {h} \cup In(up'[u])
      /\ \A x \in Users \ {u} : up'[x] = up[x]
  BY <1>1, <1>2, <1>6, HandledComing
<1>10. \A x, e : e \in Coming(x)' <=> e \in Coming(x) \/ (x = h.other /\ e = back)
  BY <1>8, <1>9
<1>11. \A c : Mates(c)' = Mates(c)
  BY <1>1 DEF Mates, Guests, Member
<1>12. Known'
  <2>1. Heralds(h.other, back)'
    BY <1>5, <1>7, <1>11 DEF Heralds
  <2>2. \A x \in Users : \A e \in Coming(x)' : e \in Coming(x) \/ Heralds(x, e)'
    BY <1>10, <2>1
  <2>3. \A x \in Users : \A e \in In(up'[x]) : e \in In(up[x]) \/ Apt(x, e)'
    BY <1>9
  <2> QED BY <1>1, <1>3, <2>2, <2>3, KnownStep
<1>13. ASSUME NEW t, NEW x \in Users, NEW y \in Users
       PROVE  Bound(t, x, y) <=> Bound(t, x, y)'
  <2>1. Bound(t, x, y)' <=> \/ \E e \in In(up'[x]) : e.type = t /\ e.other = y
                            \/ \E e \in Coming(y)' : e.type = t /\ e.other = x
    BY DEF Bound, In
  <2>2. /\ \A e \in In(up'[x]) : e \in In(up[x])
        /\ \A e \in In(up[x]) : e \in In(up'[x]) \/ (x = u /\ e = h)
    BY <1>9
  <2>3. ASSUME Bound(t, x, y) PROVE Bound(t, x, y)'
    <3>1. CASE \E e \in Coming(y) : e.type = t /\ e.other = x
      BY <1>10, <2>1, <3>1
    <3>2. ASSUME NEW e \in In(up[x]), e.type = t, e.other = y PROVE Bound(t, x, y)'
      BY <1>4, <1>7, <1>10, <2>1, <2>2, <3>2
    <3> QED BY <2>3, <3>1, <3>2 DEF Bound
  <2>4. ASSUME Bound(t, x, y)' PROVE Bound(t, x, y)
    BY <1>4, <1>7, <1>10, <2>1, <2>2, <2>4 DEF Bound
  <2> QED BY <2>3, <2>4
<1>14. ASSUME NEW x \in Users, NEW y \in Users, x < y PROVE Matched(x, y)' /\ Noticed(x, y)'
  <2>1. Matched(x, y) /\ Noticed(x, y)
    BY <1>3, <1>14
  <2>2. Matched(x, y)'
    BY <1>1, <1>13, <2>1, MatchedSame
  <2>3. \A e \in Coming(x) : e \in Coming(x)' \/ e.type # "joined"
    BY <1>10
  <2> QED BY <1>1, <2>1, <2>2, <2>3, NoticedSame
<1> QED BY <1>12, <1>14

LEMMA ServerEntangled ==
  ASSUME IInv, Entangled, NEW u \in Users, ServerStep(u)
  PROVE  Entangled'
<1>1. CASE Write(u)
  <2>1. Typed /\ UNCHANGED <<calls, up, conv, peers, loops, answers, rash, parted>>
    BY <1>1 DEF Write, IInv, manager, mesh, history
  <2>2. Steady' => Steady
    BY <2>1 DEF Steady
  <2> QED BY <1>1, <2>1, <2>2, WriteComing, ApartEntangled
<1>2. CASE HandleLeave(u)
  <2>1. Handled(u, "leave") /\ UNCHANGED <<rash, parted>> /\ Typed
    BY <1>2 DEF HandleLeave, history, IInv
  <2>2. Head(up[u]) \in In(up[u]) /\ Head(up[u]).type = "leave"
    BY <2>1, HeadUp DEF In
  <2>3. ~Known
    BY <2>2 DEF Known, Apt
  <2> QED BY <2>1, <2>3 DEF Entangled, Steady
<1> QED BY <1>1, <1>2, JoinEntangled, SignalEntangled DEF ServerStep

(* The tab's steps.                                                         *)
LEMMA ConnectMesh ==
  ASSUME Typed, NEW u \in Users, NEW v \in Convs, NEW ps \in [Users -> Stages],
         NEW rest \in SUBSET Users, NEW others, Connect(u, v, ps, rest, others)
  PROVE  /\ \A w \in Users :
              \/ peers'[u][w] = ps[w]
              \/ ps[w] = "none" /\ peers'[u][w] = "new" /\ ~(u < w)
              \/ /\ ps[w] = "none" /\ peers'[u][w] = "creating" /\ u < w
                 /\ \E l \in loops'[u] : l.on = w
         /\ others \subseteq loops'[u]
         /\ \A l \in loops'[u] :
              l \in others \/ (l.conv = v /\ l.on \in rest /\ l.rest \subseteq rest)
         /\ \A w \in rest : u < w => peers'[u][w] # "none" \/ \E l \in loops'[u] : w \in l.rest
         /\ \A x \in Users \ {u} : peers'[x] = peers[x] /\ loops'[x] = loops[x]
<1> DEFINE fresh == {w \in rest : ps[w] = "none"}
           larger == {w \in fresh : u < w}
           Opened(done) == [w \in Users |-> IF w \in done \cap fresh THEN "new" ELSE ps[w]]
<1>1. CASE larger = {}
  <2>1. peers' = [peers EXCEPT ![u] = Opened(rest)] /\ loops' = [loops EXCEPT ![u] = others]
    BY <1>1 DEF Connect
  <2>2. /\ peers'[u] = Opened(rest) /\ loops'[u] = others
        /\ \A x \in Users \ {u} : peers'[x] = peers[x] /\ loops'[x] = loops[x]
    BY <2>1 DEF Typed
  <2>3. \A w \in Users : Opened(rest)[w] = IF w \in fresh THEN "new" ELSE ps[w]
    OBVIOUS
  <2>4. \A w \in fresh : ~(u < w)
    BY <1>1
  <2>5. \A w \in Users : peers'[u][w] = IF w \in fresh THEN "new" ELSE ps[w]
    BY <2>2, <2>3
  <2> QED BY <2>2, <2>4, <2>5
<1>2. CASE larger # {}
  <2>1. PICK w0 \in larger, done \in SUBSET (rest \ larger) :
          /\ peers' = [peers EXCEPT ![u] = [Opened(done) EXCEPT ![w0] = "creating"]]
          /\ loops' = [loops EXCEPT ![u] = others \cup
               {[conv |-> v, on |-> w0, rest |-> rest \ (done \cup {w0})]}]
    BY <1>2 DEF Connect
  <2> DEFINE l0 == [conv |-> v, on |-> w0, rest |-> rest \ (done \cup {w0})]
             ps1 == [Opened(done) EXCEPT ![w0] = "creating"]
  <2>2. l0.conv = v /\ l0.on = w0 /\ l0.rest = rest \ (done \cup {w0})
    OBVIOUS
  <2>3. \A w \in Users :
          ps1[w] = IF w = w0 THEN "creating" ELSE IF w \in done \cap fresh THEN "new" ELSE ps[w]
    OBVIOUS
  <2> HIDE DEF l0, ps1
  <2>4. /\ peers'[u] = ps1 /\ loops'[u] = others \cup {l0}
        /\ \A x \in Users \ {u} : peers'[x] = peers[x] /\ loops'[x] = loops[x]
    BY <2>1 DEF Typed, l0, ps1
  <2>5. w0 \in Users /\ w0 \in rest /\ ps[w0] = "none" /\ u < w0
    OBVIOUS
  <2>6. \A w \in done : w \in fresh => ~(u < w)
    OBVIOUS
  <2>7. \A w \in Users :
          peers'[u][w] = IF w = w0 THEN "creating" ELSE IF w \in done \cap fresh THEN "new" ELSE ps[w]
    BY <2>3, <2>4
  <2>8. ASSUME NEW w \in rest, u < w, peers'[u][w] = "none" PROVE w \in l0.rest
    <3>1. w \in larger /\ w # w0
      BY <2>7, <2>8
    <3> QED BY <2>2, <3>1
  <2>9. ASSUME NEW w \in Users
        PROVE  \/ peers'[u][w] = ps[w]
               \/ ps[w] = "none" /\ peers'[u][w] = "new" /\ ~(u < w)
               \/ /\ ps[w] = "none" /\ peers'[u][w] = "creating" /\ u < w
                  /\ \E l \in loops'[u] : l.on = w
    <3>1. CASE w = w0
      BY <2>2, <2>4, <2>5, <2>7, <3>1
    <3>2. CASE w # w0 /\ w \in done \cap fresh
      BY <2>6, <2>7, <3>2
    <3>3. CASE w # w0 /\ w \notin done \cap fresh
      BY <2>7, <3>3
    <3> QED BY <3>1, <3>2, <3>3
  <2>10. \A l \in loops'[u] :
           l \in others \/ (l.conv = v /\ l.on \in rest /\ l.rest \subseteq rest)
    BY <2>2, <2>4, <2>5
  <2>11. \A w \in rest : u < w => peers'[u][w] # "none" \/ \E l \in loops'[u] : w \in l.rest
    BY <2>4, <2>8
  <2> QED BY <2>4, <2>9, <2>10, <2>11
<1> QED BY <1>1, <1>2

LEMMA HeardBound ==
  ASSUME Typed, NEW u \in Users, NEW type, Heard(u, type), UNCHANGED <<up, wire>>,
         NEW t, NEW x \in Users, NEW y \in Users
  PROVE  /\ Bound(t, x, y)' => Bound(t, x, y)
         /\ Bound(t, x, y) => \/ Bound(t, x, y)'
                              \/ y = u /\ type = t /\ x = Head(inbox[u]).other
<1>1. Bound(t, x, y)' <=> \/ \E e \in In(up[x]) : e.type = t /\ e.other = y
                          \/ \E e \in Coming(y)' : e.type = t /\ e.other = x
  BY DEF Bound, In
<1>2. /\ Coming(y)' \subseteq Coming(y)
      /\ \A e \in Coming(y) : e \in Coming(y)' \/ (y = u /\ e = Head(inbox[u]))
  BY HeardComing
<1>3. Head(inbox[u]).type = type
  BY DEF Heard
<1> QED BY <1>1, <1>2, <1>3 DEF Bound

(* What is heard is known, and tells the people of the call.                *)
LEMMA HeardKnown ==
  ASSUME Typed, Known, NEW u \in Users, NEW type, Heard(u, type), wire' = wire
  PROVE  /\ Heralds(u, Head(inbox[u])) /\ Head(inbox[u]).type = type
         /\ Head(inbox[u]) \in Events
BY HeardComing DEF Known, Heard

LEMMA HearJoinedEntangled ==
  ASSUME IInv, Entangled, NEW u \in Users, HearJoined(u)
  PROVE  Entangled'
<1> PICK e \in {Head(inbox[u])} : TRUE
  OBVIOUS
<1>1. /\ Heard(u, "joined") /\ Typed
      /\ UNCHANGED <<calls, up, wire, conv, answers, rash, parted>>
      /\ e \in Events
  BY HeardComing DEF HearJoined, IInv, manager, history
<1> SUFFICES ASSUME Steady' PROVE (Known /\ \A x, y \in Users : x < y => Matched(x, y) /\ Noticed(x, y))'
  BY DEF Entangled
<1>2. Known /\ \A x, y \in Users : x < y => Matched(x, y) /\ Noticed(x, y)
  BY <1>1 DEF Entangled, Steady
<1>3. e.participants \subseteq Mates(e.conv) /\ e.type = "joined" /\ e.conv \in Convs
  <2>1. Heralds(u, e) /\ e.type = "joined"
    BY <1>1, <1>2, HeardKnown
  <2> QED BY <1>1, <2>1 DEF Heralds, Events
<1>4. \A c : Mates(c)' = Mates(c)
  BY <1>1 DEF Mates, Guests, Member
<1>5. \A t, x, y : x \in Users /\ y \in Users /\ t \in {"offer", "answer"} =>
        (Bound(t, x, y)' <=> Bound(t, x, y))
  BY <1>1, HeardBound
<1>6. \A x \in Users : /\ Coming(x)' \subseteq Coming(x)
                       /\ \A d \in Coming(x) : d \in Coming(x)' \/ (x = u /\ d = e)
  BY <1>1, HeardComing
<1>7. CASE conv[u] = e.conv
  <2> DEFINE rest == e.participants \ {u}
  <2>1. Connect(u, e.conv, peers[u], rest, loops[u])
    BY <1>7 DEF HearJoined, InCall
  <2>2. peers[u] \in [Users -> Stages] /\ rest \in SUBSET Users
    BY <1>1 DEF Typed, Events
  <2> HIDE DEF rest
  <2>3. /\ \A w \in Users :
              \/ peers'[u][w] = peers[u][w]
              \/ peers[u][w] = "none" /\ peers'[u][w] = "new" /\ ~(u < w)
              \/ /\ peers[u][w] = "none" /\ peers'[u][w] = "creating" /\ u < w
                 /\ \E l \in loops'[u] : l.on = w
        /\ loops[u] \subseteq loops'[u]
        /\ \A l \in loops'[u] :
             l \in loops[u] \/ (l.conv = e.conv /\ l.on \in rest /\ l.rest \subseteq rest)
        /\ \A w \in rest : u < w => peers'[u][w] # "none" \/ \E l \in loops'[u] : w \in l.rest
        /\ \A x \in Users \ {u} : peers'[x] = peers[x] /\ loops'[x] = loops[x]
    BY <1>1, <1>3, <2>1, <2>2, ConnectMesh
  <2>4. {u} \cup rest \subseteq Mates(e.conv)
    <3>1. u \in Mates(e.conv)
      BY <1>2, <1>3, <1>7, CallManagerAssumption DEF Known
    <3> QED BY <1>3, <3>1 DEF rest
  <2>5. Known'
    <3>1. ASSUME NEW x \in Users, NEW l \in loops'[x]
          PROVE  l \in loops[x] \/ {x, l.on} \cup l.rest \subseteq Mates(l.conv)'
      <4>1. CASE x # u
        BY <2>3, <4>1
      <4>2. CASE x = u /\ l \notin loops[u]
        <5>1. l.conv = e.conv /\ l.on \in rest /\ l.rest \subseteq rest
          BY <2>3, <4>2
        <5>2. {u, l.on} \cup l.rest \subseteq Mates(l.conv)
          BY <2>4, <5>1
        <5> QED BY <1>4, <4>2, <5>2
      <4> QED BY <4>1, <4>2
    <3>2. \A x \in Users : \A d \in Coming(x)' : d \in Coming(x) \/ Heralds(x, d)'
      BY <1>6
    <3> QED BY <1>1, <1>2, <3>1, <3>2, KnownStep
  <2>6. ASSUME NEW x \in Users, NEW y \in Users, x < y PROVE Matched(x, y)' /\ Noticed(x, y)'
    <3>1. Matched(x, y) /\ Noticed(x, y) /\ x # y
      BY <1>2, <2>6, CallManagerAssumption
    <3>2. /\ Bound("offer", x, y)' <=> Bound("offer", x, y)
          /\ Bound("answer", y, x)' <=> Bound("answer", y, x)
          /\ Answering(y, x)' <=> Answering(y, x)
      BY <1>1, <1>5 DEF Answering
    <3>3. CASE x = u
      <4>1. peers'[y][x] = peers[y][x] /\ y # u
        BY <2>3, <3>1, <3>3
      <4>2. \/ peers'[x][y] = peers[x][y]
            \/ /\ peers[x][y] = "none" /\ peers'[x][y] = "creating"
               /\ \E l \in loops'[x] : l.on = y
        BY <2>3, <2>6, <3>3
      <4>3. Matched(x, y)'
        BY <2>3, <3>1, <3>2, <3>3, <4>1, <4>2 DEF Matched
      <4>4. ASSUME NEW c \in Convs, {x, y} \subseteq calls[c]
            PROVE  \/ peers'[x][y] # "none"
                   \/ \E l \in loops'[x] : y \in l.rest
                   \/ \E d \in Coming(x)' : d.type = "joined" /\ d.conv = c /\ y \in d.participants
        <5>1. CASE peers[x][y] # "none"
          BY <4>2, <5>1
        <5>2. CASE \E l \in loops[x] : y \in l.rest
          BY <2>3, <3>3, <5>2
        <5>3. ASSUME NEW d \in Coming(x), d.type = "joined", d.conv = c, y \in d.participants
              PROVE  \/ peers'[x][y] # "none"
                     \/ \E l \in loops'[x] : y \in l.rest
                     \/ d \in Coming(x)'
          <6>1. CASE d = e
            <7>1. y \in rest
              BY <4>1, <5>3, <6>1 DEF rest
            <7> QED BY <2>3, <2>6, <3>3, <7>1
          <6>2. CASE d # e
            BY <1>6, <6>2
          <6> QED BY <6>1, <6>2
        <5> QED BY <3>1, <4>4, <5>1, <5>2, <5>3 DEF Noticed
      <4>5. Noticed(x, y)'
        BY <1>1, <4>4 DEF Noticed
      <4> QED BY <4>3, <4>5
    <3>4. CASE x # u
      <4>1. /\ peers'[x][y] = peers[x][y] /\ loops'[x] = loops[x]
            /\ \A d \in Coming(x) : d \in Coming(x)'
        BY <1>6, <2>3, <3>4
      <4>2. peers'[y][x] = peers[y][x] \/ (peers[y][x] = "none" /\ peers'[y][x] = "new")
        <5>1. ~(y < x)
          BY <2>6, CallManagerAssumption
        <5> QED BY <2>3, <5>1
      <4>3. Matched(x, y)'
        BY <3>1, <3>2, <4>1, <4>2 DEF Matched
      <4>4. Noticed(x, y)'
        BY <1>1, <3>1, <4>1, NoticedSame
      <4> QED BY <4>3, <4>4
    <3> QED BY <3>3, <3>4
  <2> QED BY <2>5, <2>6
<1>8. CASE conv[u] # e.conv
  <2>1. UNCHANGED <<peers, loops>>
    BY <1>8 DEF HearJoined, InCall
  <2>2. \A x \in Users : \A d \in Coming(x)' : d \in Coming(x) \/ Heralds(x, d)'
    BY <1>6
  <2>3. Known'
    BY <1>1, <1>2, <2>1, <2>2, KnownStep
  <2>4. ASSUME NEW x \in Users, NEW y \in Users, x < y PROVE Matched(x, y)' /\ Noticed(x, y)'
    <3>1. Matched(x, y) /\ Noticed(x, y)
      BY <1>2, <2>4
    <3>2. Matched(x, y)'
      BY <1>1, <1>5, <2>1, <3>1, MatchedSame
    <3>3. ASSUME NEW c \in Convs, {x, y} \subseteq calls[c],
                 NEW d \in Coming(x), d.type = "joined", d.conv = c
          PROVE  d \in Coming(x)'
      <4>1. conv[x] = c
        BY <1>2, <3>3 DEF Known, Mates
      <4> QED BY <1>6, <1>8, <3>3, <4>1
    <3>4. Noticed(x, y)'
      BY <1>1, <2>1, <3>1, <3>3 DEF Noticed
    <3> QED BY <3>2, <3>4
  <2> QED BY <2>3, <2>4
<1> QED BY <1>7, <1>8

LEMMA OnePeer ==
  ASSUME Typed, NEW u \in Users, NEW w \in Users, NEW s, peers' = [peers EXCEPT ![u][w] = s]
  PROVE  /\ peers'[u][w] = s /\ \A z \in Users \ {w} : peers'[u][z] = peers[u][z]
         /\ \A x \in Users \ {u} : peers'[x] = peers[x]
<1>1. peers[u] \in [Users -> Stages] /\ peers' = [peers EXCEPT ![u] = [peers[u] EXCEPT ![w] = s]]
  BY DEF Typed
<1>2. peers'[u] = [peers[u] EXCEPT ![w] = s] /\ \A x \in Users \ {u} : peers'[x] = peers[x]
  BY <1>1 DEF Typed
<1> QED BY <1>1, <1>2

LEMMA MatchedAlike ==
  ASSUME NEW u \in Users, NEW w \in Users, Matched(u, w),
         peers'[u][w] = peers[u][w], peers'[w][u] = peers[w][u],
         \A l \in loops[u] : l.on = w => l \in loops'[u],
         Answering(w, u)' <=> Answering(w, u),
         Bound("offer", u, w) => Bound("offer", u, w)',
         Bound("answer", w, u) <=> Bound("answer", w, u)'
  PROVE  Matched(u, w)'
BY DEF Matched

LEMMA MatchedBegun ==
  ASSUME NEW u \in Users, NEW w \in Users, Matched(u, w),
         peers'[u][w] = peers[u][w], loops'[u] = loops[u],
         peers'[w][u] = "answering", Answering(w, u)'
  PROVE  Matched(u, w)'
BY DEF Matched

LEMMA MatchedDone ==
  ASSUME NEW u \in Users, NEW w \in Users, Matched(u, w), loops'[u] = loops[u],
         peers'[u][w] = IF peers[u][w] = "offered" THEN "stable" ELSE peers[u][w],
         peers'[w][u] = peers[w][u], peers[w][u] \in {"answering", "stable"},
         Answering(w, u)' <=> Answering(w, u)
  PROVE  Matched(u, w)'
BY DEF Matched

LEMMA HearOfferEntangled ==
  ASSUME IInv, Entangled, NEW u \in Users, HearOffer(u)
  PROVE  Entangled'
<1> PICK e \in {Head(inbox[u])} : TRUE
  OBVIOUS
<1>1. /\ Heard(u, "offer") /\ Typed
      /\ UNCHANGED <<calls, up, wire, conv, loops, rash, parted>>
      /\ e \in Events /\ e.other < u
  BY HeardComing, HeardInv DEF HearOffer, IInv, manager, history
<1> SUFFICES ASSUME Steady' PROVE (Known /\ \A x, y \in Users : x < y => Matched(x, y) /\ Noticed(x, y))'
  BY DEF Entangled
<1>2. Known /\ \A x, y \in Users : x < y => Matched(x, y) /\ Noticed(x, y)
  BY <1>1 DEF Entangled, Steady
<1> DEFINE w == e.other
           a0 == [conv |-> e.conv, to |-> w]
<1>3. {u, w} \subseteq Mates(e.conv) /\ w \in Users /\ e.conv \in Convs
  <2>1. Heralds(u, e) /\ e.type = "offer"
    BY <1>1, <1>2, HeardKnown
  <2> QED BY <1>1, <2>1 DEF Heralds, Events
<1>4. InCall(u)
  BY <1>3 DEF InCall, Mates
<1>5. /\ peers' = [peers EXCEPT ![u][w] = "answering"]
      /\ answers' = [answers EXCEPT ![u] = @ \cup {a0}]
  BY <1>4 DEF HearOffer
<1>6. a0.conv = e.conv /\ a0.to = w
  OBVIOUS
<1> HIDE DEF a0
<1>7. /\ peers'[u][w] = "answering" /\ \A z \in Users \ {w} : peers'[u][z] = peers[u][z]
      /\ \A x \in Users \ {u} : peers'[x] = peers[x]
  BY <1>1, <1>3, <1>5, OnePeer
<1>8. answers'[u] = answers[u] \cup {a0} /\ \A x \in Users \ {u} : answers'[x] = answers[x]
  BY <1>1, <1>5 DEF Typed
<1>9. \A c : Mates(c)' = Mates(c)
  BY <1>1 DEF Mates, Guests, Member
<1>10. \A x, y \in Users : /\ Bound("answer", x, y)' <=> Bound("answer", x, y)
                           /\ Bound("offer", x, y) => Bound("offer", x, y)' \/ (y = u /\ x = w)
  BY <1>1, HeardBound
<1>11. \A x \in Users : /\ Coming(x)' \subseteq Coming(x)
                        /\ \A d \in Coming(x) : d \in Coming(x)' \/ d.type = "offer"
  BY <1>1, HeardComing DEF Heard
<1>12. Known'
  <2>1. ASSUME NEW x \in Users, NEW a \in answers'[x]
        PROVE  a \in answers[x] \/ {x, a.to} \subseteq Mates(a.conv)'
    BY <1>3, <1>6, <1>8, <1>9
  <2>2. \A x \in Users : \A d \in Coming(x)' : d \in Coming(x) \/ Heralds(x, d)'
    BY <1>11
  <2> QED BY <1>1, <1>2, <2>1, <2>2, KnownStep
<1>13. ASSUME NEW x \in Users, NEW y \in Users, x < y PROVE Matched(x, y)' /\ Noticed(x, y)'
  <2>1. Matched(x, y) /\ Noticed(x, y) /\ x # y /\ ~(y < x)
    BY <1>2, <1>13, CallManagerAssumption
  <2>2. peers'[x][y] = peers[x][y]
    BY <1>1, <1>7, <1>13, <2>1
  <2>3. ASSUME x = w /\ y = u PROVE Matched(x, y)'
    <3>1. Answering(y, x)' /\ peers'[y][x] = "answering"
      BY <1>6, <1>7, <1>8, <2>3 DEF Answering
    <3> QED BY <1>1, <2>1, <2>2, <2>3, <3>1, MatchedBegun
  <2>4. ASSUME ~(x = w /\ y = u) PROVE Matched(x, y)'
    <3>1. peers'[y][x] = peers[y][x]
      BY <1>7, <2>4
    <3>2. Answering(y, x)' <=> Answering(y, x)
      BY <1>6, <1>8, <2>4 DEF Answering
    <3>3. Bound("offer", x, y) => Bound("offer", x, y)'
      BY <1>10, <2>4
    <3>4. Bound("answer", y, x) <=> Bound("answer", y, x)'
      BY <1>10
    <3>5. \A l \in loops[x] : l.on = y => l \in loops'[x]
      BY <1>1
    <3> QED BY <2>1, <2>2, <3>1, <3>2, <3>3, <3>4, <3>5, MatchedAlike
  <2>5. \A d \in Coming(x) : d \in Coming(x)' \/ d.type # "joined"
    BY <1>11
  <2>6. Noticed(x, y)'
    BY <1>1, <2>1, <2>2, <2>5, NoticedSame
  <2> QED BY <2>3, <2>4, <2>6
<1> QED BY <1>12, <1>13

LEMMA HearAnswerEntangled ==
  ASSUME IInv, Entangled, NEW u \in Users, HearAnswer(u)
  PROVE  Entangled'
<1> PICK e \in {Head(inbox[u])} : TRUE
  OBVIOUS
<1>1. /\ Heard(u, "answer") /\ Typed
      /\ UNCHANGED <<calls, up, wire, conv, loops, answers, rash, parted>>
      /\ e \in Events
  BY HeardComing DEF HearAnswer, IInv, manager, history
<1> SUFFICES ASSUME Steady' PROVE (Known /\ \A x, y \in Users : x < y => Matched(x, y) /\ Noticed(x, y))'
  BY DEF Entangled
<1>2. Known /\ \A x, y \in Users : x < y => Matched(x, y) /\ Noticed(x, y)
  BY <1>1 DEF Entangled, Steady
<1> DEFINE w == e.other
<1>3. {u, w} \subseteq Mates(e.conv) /\ w \in Users /\ e.type = "answer" /\ e \in Coming(u)
  <2>1. Heralds(u, e) /\ e.type = "answer" /\ e \in Coming(u)
    BY <1>1, <1>2, HeardKnown, HeardComing
  <2> QED BY <1>1, <2>1 DEF Heralds, Events
<1>4. InCall(u)
  BY <1>3 DEF InCall, Mates
<1>5. peers' = [peers EXCEPT ![u][w] = IF peers[u][w] = "offered" THEN "stable" ELSE peers[u][w]]
  BY <1>1, <1>3, <1>4 DEF HearAnswer, Typed
<1>6. /\ peers'[u][w] = IF peers[u][w] = "offered" THEN "stable" ELSE peers[u][w]
      /\ \A z \in Users \ {w} : peers'[u][z] = peers[u][z]
      /\ \A x \in Users \ {u} : peers'[x] = peers[x]
  <2> PICK s \in {IF peers[u][w] = "offered" THEN "stable" ELSE peers[u][w]} : TRUE
    OBVIOUS
  <2>1. peers' = [peers EXCEPT ![u][w] = s]
    BY <1>5
  <2>2. /\ peers'[u][w] = s /\ \A z \in Users \ {w} : peers'[u][z] = peers[u][z]
        /\ \A x \in Users \ {u} : peers'[x] = peers[x]
    BY <1>1, <1>3, <2>1, OnePeer
  <2> QED BY <2>2
<1>7. \A x, y \in Users : /\ Bound("offer", x, y)' <=> Bound("offer", x, y)
                          /\ Bound("answer", y, x)' => Bound("answer", y, x)
                          /\ Bound("answer", y, x) => Bound("answer", y, x)' \/ (x = u /\ y = w)
  BY <1>1, HeardBound
<1>8. Bound("answer", w, u)
  BY <1>3 DEF Bound
<1>9. \A x \in Users : /\ Coming(x)' \subseteq Coming(x)
                       /\ \A d \in Coming(x) : d \in Coming(x)' \/ d.type = "answer"
  BY <1>1, HeardComing DEF Heard
<1>10. Known'
  <2>1. \A x \in Users : \A d \in Coming(x)' : d \in Coming(x) \/ Heralds(x, d)'
    BY <1>9
  <2> QED BY <1>1, <1>2, <2>1, KnownStep
<1>11. ASSUME NEW x \in Users, NEW y \in Users, x < y PROVE Matched(x, y)' /\ Noticed(x, y)'
  <2>1. Matched(x, y) /\ Noticed(x, y) /\ x # y
    BY <1>2, <1>11, CallManagerAssumption
  <2>2. peers'[y][x] = peers[y][x]
    <3>1. peers[y][x] # "offered"
      BY <2>1 DEF Matched
    <3> QED BY <1>6, <3>1
  <2>3. ASSUME x = u /\ y = w PROVE Matched(x, y)'
    <3>1. peers[y][x] \in {"answering", "stable"}
      BY <1>8, <2>1, <2>3 DEF Matched
    <3>2. Answering(y, x)' <=> Answering(y, x)
      BY <1>1 DEF Answering
    <3>3. peers'[x][y] = IF peers[x][y] = "offered" THEN "stable" ELSE peers[x][y]
      BY <1>6, <2>3
    <3> QED BY <1>1, <2>1, <2>2, <3>1, <3>2, <3>3, MatchedDone
  <2>4. ASSUME ~(x = u /\ y = w) PROVE Matched(x, y)'
    <3>1. peers'[x][y] = peers[x][y]
      BY <1>6, <2>4
    <3>2. Answering(y, x)' <=> Answering(y, x)
      BY <1>1 DEF Answering
    <3>3. /\ Bound("offer", x, y) => Bound("offer", x, y)'
          /\ Bound("answer", y, x) <=> Bound("answer", y, x)'
      BY <1>7, <2>4
    <3>4. \A l \in loops[x] : l.on = y => l \in loops'[x]
      BY <1>1
    <3> QED BY <2>1, <2>2, <3>1, <3>2, <3>3, <3>4, MatchedAlike
  <2>5. \A d \in Coming(x) : d \in Coming(x)' \/ d.type # "joined"
    BY <1>9
  <2>6. peers[x][y] # "none" => peers'[x][y] # "none"
    BY <1>6
  <2>7. Noticed(x, y)'
    BY <1>1, <2>1, <2>5, <2>6, NoticedSame
  <2> QED BY <2>3, <2>4, <2>7
<1> QED BY <1>10, <1>11

(* What one tab sends.                                                      *)
LEMMA SentBound ==
  ASSUME Typed, NEW u \in Users, NEW e \in Events, Send(u, e), UNCHANGED <<wire, inbox>>,
         NEW t, NEW x \in Users, NEW y \in Users
  PROVE  Bound(t, x, y)' <=> Bound(t, x, y) \/ (x = u /\ e.type = t /\ e.other = y)
<1>1. Bound(t, x, y)' <=> \/ \E d \in In(up'[x]) : d.type = t /\ d.other = y
                          \/ \E d \in Coming(y)' : d.type = t /\ d.other = x
  BY DEF Bound, In
<1>2. Coming(y)' = Coming(y)
  BY SameComing
<1>3. In(up'[u]) = In(up[u]) \cup {e} /\ \A z \in Users \ {u} : up'[z] = up[z]
  BY SendIn
<1> QED BY <1>1, <1>2, <1>3 DEF Bound

LEMMA MatchedOffered ==
  ASSUME NEW u \in Users, NEW w \in Users, Matched(u, w),
         peers[u][w] # "stable", peers'[u][w] = "offered", peers'[w][u] = peers[w][u],
         Bound("offer", u, w)', Answering(w, u)' <=> Answering(w, u),
         Bound("answer", w, u)' <=> Bound("answer", w, u)
  PROVE  Matched(u, w)'
BY DEF Matched

LEMMA MatchedOffering ==
  ASSUME NEW u \in Users, NEW w \in Users, Matched(u, w),
         \/ peers'[u][w] = peers[u][w]
         \/ /\ peers[u][w] = "none" /\ peers'[u][w] = "creating"
            /\ \E l \in loops'[u] : l.on = w,
         peers'[w][u] = peers[w][u] \/ (peers[w][u] = "none" /\ peers'[w][u] = "new"),
         \A l \in loops[u] : l.on = w => l \in loops'[u],
         Answering(w, u)' <=> Answering(w, u),
         Bound("offer", u, w) => Bound("offer", u, w)',
         Bound("answer", w, u)' <=> Bound("answer", w, u)
  PROVE  Matched(u, w)'
BY DEF Matched

LEMMA MatchedAnswered ==
  ASSUME NEW u \in Users, NEW w \in Users, Matched(u, w),
         peers'[u][w] = peers[u][w], loops'[u] = loops[u],
         peers'[w][u] = "stable", Bound("answer", w, u)'
  PROVE  Matched(u, w)'
BY DEF Matched

LEMMA MakeOfferEntangled ==
  ASSUME IInv, Entangled, NEW u \in Users, NEW l \in loops[u], MakeOffer(u, l)
  PROVE  Entangled'
<1> DEFINE w == l.on
           e == Event("offer", l.conv, w, {})
<1>1. /\ Typed /\ UNCHANGED <<calls, wire, inbox, conv, answers, rash, parted>>
      /\ Send(u, e)
  BY DEF MakeOffer, IInv, manager, history
<1> SUFFICES ASSUME Steady' PROVE (Known /\ \A x, y \in Users : x < y => Matched(x, y) /\ Noticed(x, y))'
  BY DEF Entangled
<1>2. Known /\ \A x, y \in Users : x < y => Matched(x, y) /\ Noticed(x, y)
  BY <1>1 DEF Entangled, Steady
<1>3. /\ l.conv \in Convs /\ w \in Users /\ l.rest \in SUBSET Users
      /\ peers[u][w] = "creating" /\ u < w /\ peers[u] \in [Users -> Stages]
  <2>1. l \in Loops
    BY <1>1 DEF Typed, Loops
  <2> QED BY <1>1, <2>1 DEF IInv, Typed, Loops, Meshed
<1>4. e \in Events /\ e.type = "offer" /\ e.other = w /\ e.conv = l.conv
  BY <1>3, EventType DEF Types, Event
<1>5. {u, w} \cup l.rest \subseteq Mates(l.conv)
  BY <1>2 DEF Known
<1> PICK ps \in {[peers[u] EXCEPT ![w] = "offered"]} : TRUE
  OBVIOUS
<1> PICK others \in {loops[u] \ {l}} : TRUE
  OBVIOUS
<1>6. Connect(u, l.conv, ps, l.rest, others)
  BY DEF MakeOffer
<1>7. /\ ps \in [Users -> Stages] /\ ps[w] = "offered"
      /\ \A z \in Users \ {w} : ps[z] = peers[u][z]
  BY <1>3 DEF Stages
<1> HIDE DEF e, w
<1>8. /\ \A z \in Users :
            \/ peers'[u][z] = ps[z]
            \/ ps[z] = "none" /\ peers'[u][z] = "new" /\ ~(u < z)
            \/ /\ ps[z] = "none" /\ peers'[u][z] = "creating" /\ u < z
               /\ \E k \in loops'[u] : k.on = z
      /\ others \subseteq loops'[u]
      /\ \A k \in loops'[u] :
           k \in others \/ (k.conv = l.conv /\ k.on \in l.rest /\ k.rest \subseteq l.rest)
      /\ \A z \in l.rest : u < z => peers'[u][z] # "none" \/ \E k \in loops'[u] : z \in k.rest
      /\ \A x \in Users \ {u} : peers'[x] = peers[x] /\ loops'[x] = loops[x]
  <2> PICK v \in {l.conv} : TRUE
    OBVIOUS
  <2> PICK rest \in {l.rest} : TRUE
    OBVIOUS
  <2>1. Typed /\ v \in Convs /\ rest \in SUBSET Users /\ ps \in [Users -> Stages]
    BY <1>1, <1>3, <1>7
  <2>2. Connect(u, v, ps, rest, others)
    BY <1>6
  <2>3. /\ \A z \in Users :
              \/ peers'[u][z] = ps[z]
              \/ ps[z] = "none" /\ peers'[u][z] = "new" /\ ~(u < z)
              \/ /\ ps[z] = "none" /\ peers'[u][z] = "creating" /\ u < z
                 /\ \E k \in loops'[u] : k.on = z
        /\ others \subseteq loops'[u]
        /\ \A k \in loops'[u] :
             k \in others \/ (k.conv = v /\ k.on \in rest /\ k.rest \subseteq rest)
        /\ \A z \in rest : u < z => peers'[u][z] # "none" \/ \E k \in loops'[u] : z \in k.rest
        /\ \A x \in Users \ {u} : peers'[x] = peers[x] /\ loops'[x] = loops[x]
    BY <2>1, <2>2, ConnectMesh
  <2> QED BY <2>3
<1>9. \A c : Mates(c)' = Mates(c)
  BY <1>1 DEF Mates, Guests, Member
<1>10. \A x : Coming(x)' = Coming(x)
  BY <1>1, SameComing
<1>11. Known'
  <2>1. ASSUME NEW x \in Users, NEW d \in In(up'[x]) PROVE d \in In(up[x]) \/ Apt(x, d)'
    <3>1. d \in In(up[x]) \/ (x = u /\ d = e)
      BY <1>1, <1>4, SendIn
    <3>2. Apt(u, d)' \/ d # e
      BY <1>4, <1>5, <1>9 DEF Apt, w
    <3> QED BY <3>1, <3>2
  <2>2. ASSUME NEW x \in Users, NEW k \in loops'[x]
        PROVE  k \in loops[x] \/ {x, k.on} \cup k.rest \subseteq Mates(k.conv)'
    <3>1. CASE x # u
      BY <1>8, <3>1
    <3>2. CASE x = u /\ k \notin loops[u]
      <4>1. k.conv = l.conv /\ k.on \in l.rest /\ k.rest \subseteq l.rest
        BY <1>8, <3>2
      <4>2. {u, k.on} \cup k.rest \subseteq Mates(k.conv)
        BY <1>5, <4>1
      <4> QED BY <1>9, <3>2, <4>2
    <3> QED BY <3>1, <3>2
  <2> QED BY <1>1, <1>2, <1>10, <2>1, <2>2, KnownStep
<1>12. ASSUME NEW x \in Users, NEW y \in Users, NEW t
       PROVE  Bound(t, x, y)' <=> Bound(t, x, y) \/ (x = u /\ t = "offer" /\ y = w)
  <2>1. Bound(t, x, y)' <=> Bound(t, x, y) \/ (x = u /\ e.type = t /\ e.other = y)
    BY <1>1, <1>4, SentBound
  <2> QED BY <1>4, <2>1
<1>13. ASSUME NEW x \in Users, NEW y \in Users, x < y PROVE Matched(x, y)' /\ Noticed(x, y)'
  <2>1. Matched(x, y) /\ Noticed(x, y) /\ x # y /\ ~(y < x)
    BY <1>2, <1>13, CallManagerAssumption
  <2>2. /\ Answering(y, x)' <=> Answering(y, x)
        /\ Bound("offer", x, y) => Bound("offer", x, y)'
        /\ Bound("answer", y, x)' <=> Bound("answer", y, x)
    BY <1>1, <1>12 DEF Answering
  <2>3. ASSUME x = u /\ y = w PROVE Matched(x, y)'
    <3>1. Bound("offer", x, y)' /\ peers'[x][y] = "offered" /\ peers[x][y] # "stable"
      BY <1>3, <1>7, <1>8, <1>12, <2>3
    <3>2. peers'[y][x] = peers[y][x]
      BY <1>8, <2>1, <2>3
    <3> QED BY <2>1, <2>2, <3>1, <3>2, MatchedOffered
  <2>4. ASSUME ~(x = u /\ y = w) PROVE Matched(x, y)'
    <3>1. \/ peers'[x][y] = peers[x][y]
          \/ /\ peers[x][y] = "none" /\ peers'[x][y] = "creating"
             /\ \E k \in loops'[x] : k.on = y
      BY <1>7, <1>8, <1>13, <2>4
    <3>2. peers'[y][x] = peers[y][x] \/ (peers[y][x] = "none" /\ peers'[y][x] = "new")
      <4>1. CASE y = u
        <5>1. x # w
          BY <1>3, <1>13, <4>1, CallManagerAssumption
        <5> QED BY <1>7, <1>8, <2>1, <4>1, <5>1
      <4>2. CASE y # u
        BY <1>8, <4>2
      <4> QED BY <4>1, <4>2
    <3>3. \A k \in loops[x] : k.on = y => k \in loops'[x]
      BY <1>8, <2>4 DEF w
    <3> QED BY <2>1, <2>2, <3>1, <3>2, <3>3, MatchedOffering
  <2>5. peers[x][y] # "none" => peers'[x][y] # "none"
    BY <1>7, <1>8
  <2>6. ASSUME NEW k \in loops[x], y \in k.rest
        PROVE  peers'[x][y] # "none" \/ \E m \in loops'[x] : y \in m.rest
    BY <1>8, <1>13, <2>6
  <2>7. Noticed(x, y)'
    BY <1>1, <1>10, <2>1, <2>5, <2>6 DEF Noticed
  <2> QED BY <2>3, <2>4, <2>7
<1> QED BY <1>11, <1>13

LEMMA MakeAnswerEntangled ==
  ASSUME IInv, Entangled, NEW u \in Users, NEW a \in answers[u], MakeAnswer(u, a)
  PROVE  Entangled'
<1> DEFINE w == a.to
           e == Event("answer", a.conv, w, {})
<1>1. /\ Typed /\ UNCHANGED <<calls, wire, inbox, conv, loops, rash, parted>>
      /\ Send(u, e)
      /\ answers' = [answers EXCEPT ![u] = @ \ {a}] /\ peers' = [peers EXCEPT ![u][w] = "stable"]
  BY DEF MakeAnswer, IInv, manager, history
<1> SUFFICES ASSUME Steady' PROVE (Known /\ \A x, y \in Users : x < y => Matched(x, y) /\ Noticed(x, y))'
  BY DEF Entangled
<1>2. Known /\ \A x, y \in Users : x < y => Matched(x, y) /\ Noticed(x, y)
  BY <1>1 DEF Entangled, Steady
<1>3. a.conv \in Convs /\ w \in Users /\ w < u
  <2>1. a \in Answers
    BY <1>1 DEF Typed, Answers
  <2> QED BY <2>1 DEF IInv, Answers, Meshed
<1>4. e \in Events /\ e.type = "answer" /\ e.other = w /\ e.conv = a.conv
  BY <1>3, EventType DEF Types, Event
<1>5. {u, w} \subseteq Mates(a.conv)
  BY <1>2 DEF Known
<1>6. /\ peers'[u][w] = "stable" /\ \A z \in Users \ {w} : peers'[u][z] = peers[u][z]
      /\ \A x \in Users \ {u} : peers'[x] = peers[x]
  BY <1>1, <1>3, OnePeer
<1>7. answers'[u] = answers[u] \ {a} /\ \A x \in Users \ {u} : answers'[x] = answers[x]
  BY <1>1 DEF Typed
<1> HIDE DEF e, w
<1>8. \A c : Mates(c)' = Mates(c)
  BY <1>1 DEF Mates, Guests, Member
<1>9. \A x : Coming(x)' = Coming(x)
  BY <1>1, SameComing
<1>10. Known'
  <2>1. ASSUME NEW x \in Users, NEW d \in In(up'[x]) PROVE d \in In(up[x]) \/ Apt(x, d)'
    <3>1. d \in In(up[x]) \/ (x = u /\ d = e)
      BY <1>1, <1>4, SendIn
    <3>2. Apt(u, d)' \/ d # e
      BY <1>4, <1>5, <1>8 DEF Apt
    <3> QED BY <3>1, <3>2
  <2>2. \A x \in Users : answers'[x] \subseteq answers[x]
    BY <1>7
  <2> QED BY <1>1, <1>2, <1>9, <2>1, <2>2, KnownStep
<1>11. ASSUME NEW x \in Users, NEW y \in Users, NEW t
       PROVE  Bound(t, x, y)' <=> Bound(t, x, y) \/ (x = u /\ t = "answer" /\ y = w)
  <2>1. Typed /\ Send(u, e) /\ UNCHANGED <<wire, inbox>> /\ e \in Events
    BY <1>1, <1>4
  <2>2. Bound(t, x, y)' <=> Bound(t, x, y) \/ (x = u /\ e.type = t /\ e.other = y)
    BY <2>1, SentBound
  <2> QED BY <1>4, <2>2
<1>12. ASSUME NEW x \in Users, NEW y \in Users, x < y PROVE Matched(x, y)' /\ Noticed(x, y)'
  <2>1. Matched(x, y) /\ Noticed(x, y) /\ x # y
    <3>1. x # y
      BY <1>12, CallManagerAssumption
    <3> QED BY <1>2, <1>12, <3>1
  <2>2. peers'[x][y] = peers[x][y] /\ loops'[x] = loops[x]
    <3>1. ~(x = u /\ y = w)
      BY <1>3, <1>12, CallManagerAssumption
    <3> QED BY <1>1, <1>6, <3>1
  <2>3. ASSUME x = w /\ y = u PROVE Matched(x, y)'
    <3>1. peers'[y][x] = "stable" /\ Bound("answer", y, x)'
      BY <1>6, <1>11, <2>3
    <3> QED BY <2>1, <2>2, <3>1, MatchedAnswered
  <2>4. ASSUME ~(x = w /\ y = u) PROVE Matched(x, y)'
    <3>1. peers'[y][x] = peers[y][x]
      BY <1>6, <2>4
    <3>2. Answering(y, x)' <=> Answering(y, x)
      BY <1>7, <2>4 DEF Answering, w
    <3>3. /\ Bound("offer", x, y) => Bound("offer", x, y)'
          /\ Bound("answer", y, x) <=> Bound("answer", y, x)'
      BY <1>11, <2>4
    <3>4. \A l \in loops[x] : l.on = y => l \in loops'[x]
      BY <2>2
    <3> QED BY <2>1, <2>2, <3>1, <3>2, <3>3, <3>4, MatchedAlike
  <2>5. Noticed(x, y)'
    BY <1>1, <1>9, <2>1, <2>2, NoticedSame
  <2> QED BY <2>3, <2>4, <2>5
<1> QED BY <1>10, <1>12

LEMMA TabEntangled ==
  ASSUME IInv, Registered, Entangled, NEW u \in Users, TabStep(u)
  PROVE  Entangled'
<1>1. CASE HearCreated(u)
  <2>1. /\ Heard(u, "created") /\ Typed
        /\ UNCHANGED <<calls, up, wire, conv, peers, loops, answers, rash, parted>>
    BY <1>1 DEF HearCreated, IInv, manager, mesh, history
  <2>2. \A x \in Users : /\ Coming(x)' \subseteq Coming(x)
                         /\ \A e \in Coming(x) : e \in Coming(x)' \/ e.type = "created"
    BY <2>1, HeardComing DEF Heard
  <2>3. Steady' => Steady
    BY <2>1 DEF Steady
  <2> QED BY <2>1, <2>2, <2>3, ApartEntangled
<1>2. ASSUME HearEnded(u) \/ HearLeft(u) PROVE Entangled'
  <2>1. PICK type \in {"left", "ended"} : Heard(u, type)
    BY <1>2 DEF HearEnded, HearLeft
  <2>2. UNCHANGED <<wire, rash, parted>> /\ Typed
    BY <1>2 DEF HearEnded, HearLeft, IInv, history
  <2>3. ~Known
    BY <2>1, <2>2, HeardKnown DEF Heralds
  <2> QED BY <2>2, <2>3 DEF Entangled, Steady
<1>3. ASSUME NEW p \in pending[u], Granted(u, p) PROVE Entangled'
  <2>1. /\ p.conv \in Convs /\ u \in Guests(p.conv)
        /\ u \notin rash => conv[u] = NoConv
    BY DEF IInv, Typed, Waits, Registered, Asked, Held, Careful
  <2>2. /\ Enter(u, p.kind, p.conv)
        /\ UNCHANGED <<calls, wire, inbox, peers, loops, answers, rash, parted>>
    BY <1>3 DEF Granted, mesh, history
  <2> QED BY <2>1, <2>2, EnterEntangled
<1>4. ASSUME NEW p \in pending[u], Refused(u, p) PROVE Entangled'
  <2>1. UNCHANGED <<calls, up, wire, inbox, conv, peers, loops, answers, rash, parted>>
    BY <1>4 DEF Refused, server, mesh, history
  <2>2. Steady' => Steady
    BY <2>1 DEF Steady
  <2> QED BY <2>1, <2>2, SameComing, ApartEntangled
<1> QED BY <1>1, <1>2, <1>3, <1>4, HearJoinedEntangled, HearOfferEntangled, HearAnswerEntangled,
           MakeOfferEntangled, MakeAnswerEntangled DEF TabStep

LEMMA EntangledInductive == IInv /\ Registered /\ Entangled /\ [Next]_vars => Entangled'
<1> SUFFICES ASSUME IInv, Registered, Entangled, [Next]_vars PROVE Entangled'
  OBVIOUS
<1>1. CASE UNCHANGED vars
  <2>1. UNCHANGED <<calls, up, wire, inbox, conv, peers, loops, answers, rash, parted>>
    BY <1>1 DEF vars, server, manager, mesh, history
  <2>2. Steady' => Steady
    BY <2>1 DEF Steady
  <2> QED BY <2>1, <2>2, SameComing, ApartEntangled
<1> QED BY <1>1, ServerEntangled, TabEntangled, ClickEntangled DEF Next

(* Everybody in a call is connected to everybody else, in whatever order    *)
(* they joined and however their offers and answers crossed, as long as     *)
(* nobody has left: whoever must make the offer of a pair hears that it     *)
(* must, and an offer made is answered.                                     *)
THEOREM EverybodyIsConnected == Spec => []MeshComplete
<1>1. Init => Entangled
  <2> SUFFICES ASSUME Init PROVE Known /\ \A u, w \in Users : u < w => Matched(u, w) /\ Noticed(u, w)
    BY DEF Entangled
  <2>1. /\ \A x \in Users : /\ In(up[x]) = {} /\ In(wire[x]) = {} /\ In(inbox[x]) = {}
                            /\ conv[x] = NoConv /\ loops[x] = {} /\ answers[x] = {}
                            /\ \A y \in Users : peers[x][y] = "none"
        /\ \A v \in Convs : calls[v] = {}
    BY DEF Init, In
  <2>2. \A x \in Users : Coming(x) = {}
    BY <2>1 DEF Coming
  <2>3. Known
    BY <2>1, <2>2 DEF Known
  <2>4. ASSUME NEW u \in Users, NEW w \in Users PROVE Matched(u, w) /\ Noticed(u, w)
    <3>1. ~Answering(w, u) /\ ~Bound("answer", w, u)
      BY <2>1, <2>2 DEF Answering, Bound
    <3> QED BY <2>1, <3>1 DEF Matched, Noticed
  <2> QED BY <2>3, <2>4
<1>2. IInv /\ Entangled => MeshComplete
  <2> SUFFICES ASSUME IInv, Entangled, Quiet, rash = {}, ~parted, NEW v \in Convs,
                      NEW x \in calls[v], NEW y \in calls[v], x # y
               PROVE  peers[x][y] = "stable"
    BY DEF MeshComplete
  <2>1. x \in Users /\ y \in Users
    BY DEF IInv, Typed
  <2>2. \A z \in Users : /\ In(up[z]) = {} /\ Coming(z) = {}
                         /\ loops[z] = {} /\ answers[z] = {}
    BY DEF Quiet, Coming, In
  <2>3. ASSUME NEW u \in Users, NEW w \in Users, u < w, {u, w} \subseteq calls[v]
        PROVE  peers[u][w] = "stable" /\ peers[w][u] = "stable"
    <3>1. Matched(u, w) /\ Noticed(u, w)
      BY <2>3 DEF Entangled, Steady
    <3>2. ~Answering(w, u) /\ ~Bound("answer", w, u) /\ ~Bound("offer", u, w)
      BY <2>2 DEF Answering, Bound
    <3>3. peers[u][w] # "none"
      BY <2>2, <2>3, <3>1 DEF Noticed
    <3> QED BY <2>2, <3>1, <3>2, <3>3 DEF Matched
  <2> QED BY <2>1, <2>3, CallManagerAssumption
<1> QED BY <1>1, <1>2, Initial, Inductive, InitRegistered, RegisteredInductive, EntangledInductive, PTL DEF Spec
=============================================================================
