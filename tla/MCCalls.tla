------------------------------ MODULE MCCalls ------------------------------
(* Small instances of Calls: ann and bob share a direct conversation and a  *)
(* voice channel.  Either both are used and a query fails; or ann's tab     *)
(* reconnects, alone and joining twice, or beside bob with one join to make.*)
EXTENDS Calls, TLC

CONSTANTS ann, bob, a1, a2, b1, annTab, bobTab, dm, channel

UserOfConn == [c \in Conns |-> IF c = b1 THEN bob ELSE ann]
TabOfConn == [c \in Conns |-> IF c = b1 THEN bobTab ELSE annTab]
BothEverywhere == [v \in Convs |-> Users]

DirectOnly == dm :> Users @@ channel :> {}
Talking == [up |-> {a1, b1}, later |-> {}, members |-> BothEverywhere,
            requests |-> 0, faults |-> 0]
ReturningAlone == [up |-> {a1}, later |-> {a2}, members |-> DirectOnly,
                   requests |-> 0, faults |-> MaxFaults]
Returning == [up |-> {a1, b1}, later |-> {a2}, members |-> DirectOnly,
              requests |-> 1, faults |-> MaxFaults]

Begin(s) ==
  /\ clients = [u \in Users |-> {c \in s.up : UserOf[c] = u}]
  /\ sending = [g \in Goroutines |-> [event |-> NoEvent, users |-> {}, conns |-> {}]]
  /\ pc = [c \in Conns |-> CASE c \in s.up -> "reading" [] c \in s.later -> "new"
                             [] OTHER -> "done"]
  /\ up = s.up
  /\ stored = {} /\ calls = [v \in Convs |-> {}]
  /\ members = s.members
  /\ join = [c \in Conns |-> NoJoin] /\ left = [c \in Conns |-> {}]
  /\ voice = [t \in Tabs |-> [v \in Convs |-> {}]]
  /\ rung = [t \in Tabs |-> {}] /\ at = [t \in Tabs |-> {}]
  /\ requests = s.requests /\ faults = s.faults

MCSpec ==
  /\ \E s \in {Talking, ReturningAlone, Returning} : Begin(s)
  /\ [][Next]_vars
  /\ \A c \in Conns : WF_vars(Progress(c))
=============================================================================
