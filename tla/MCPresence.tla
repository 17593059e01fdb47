----------------------------- MODULE MCPresence -----------------------------
(* Small instances of Presence, told apart by which goroutines ever start:  *)
(* ann reconnects from two tabs with sockets and Redis failing, or ann's    *)
(* two tabs and bob's one meet while bob is added to the conversation.      *)
EXTENDS Presence, TLC

CONSTANTS ann, bob, a1, a2, a3, b1, annTab, annTab2, bobTab, room

AllConns == {a1, a2, a3, b1}
UserOfAll == a1 :> ann @@ a2 :> ann @@ a3 :> ann @@ b1 :> bob
TabOfAll == a1 :> annTab @@ a2 :> annTab @@ a3 :> annTab2 @@ b1 :> bobTab

ThreeConns == {a1, a2, b1}
ThreeConnsUser == a1 :> ann @@ a2 :> ann @@ b1 :> bob
OneTabEach == a1 :> annTab @@ a2 :> annTab @@ b1 :> bobTab
BothFound == room :> {ann, bob}

Reconnecting == [start |-> {a1, a2, a3}, members |-> BothFound, drops |-> 0, faults |-> 0]
Joining == [start |-> {a1, a3, b1} \cup Notifiers, members |-> room :> {ann},
            drops |-> MaxDrops, faults |-> MaxFaults]

Begin(s) ==
  /\ HubInit(OnlineEvent({}))
  /\ pc = [g \in Goroutines |-> IF g \in s.start THEN "new" ELSE "done"]
  /\ up = {} /\ key = {}
  /\ members = s.members
  /\ probe = [g \in Goroutines |-> [left |-> {}, found |-> {}]]
  /\ target \in [Notifiers -> [user: {bob}, conv: Convs, others: {{}}]]
  /\ view = [t \in Tabs |-> {}]
  /\ drops = s.drops /\ faults = s.faults

MCSpec ==
  (Begin(Reconnecting) \/ Begin(Joining)) /\ [][Next]_vars /\ Fairness
=============================================================================
