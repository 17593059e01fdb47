----------------------------- MODULE CallBoard -----------------------------
(***************************************************************************)
(* What the call registry promises, apart from goroutines, locks and       *)
(* broadcasts: a board of who is in which voice call.  A user enters a     *)
(* call through an open session and is on the board only while one of      *)
(* its sessions is open; nobody is ever taken off by somebody else.        *)
(***************************************************************************)
CONSTANTS Users, Convs, Sessions, UserOf

VARIABLES
  open,     \* the sessions that can put their user in a call
  talking   \* talking[v]: the users in the call of conversation v

boardVars == <<open, talking>>

BoardInit ==
  /\ open \in SUBSET Sessions
  /\ talking = [v \in Convs |-> {}]

Open(s) ==
  /\ s \notin open
  /\ open' = open \cup {s}
  /\ UNCHANGED talking

Enter(s, v) ==
  /\ s \in open
  /\ talking' = [talking EXCEPT ![v] = @ \cup {UserOf[s]}]
  /\ UNCHANGED open

Quit(s, v) ==
  /\ s \in open
  /\ talking' = [talking EXCEPT ![v] = @ \ {UserOf[s]}]
  /\ UNCHANGED open

Close(s) ==
  /\ s \in open
  /\ open' = open \ {s}
  /\ talking' = [v \in Convs |-> talking[v] \ {UserOf[s]}]

BoardNext ==
  \E s \in Sessions :
    \/ Open(s) \/ Close(s)
    \/ \E v \in Convs : Enter(s, v) \/ Quit(s, v)

BoardSpec == BoardInit /\ [][BoardNext]_boardVars
=============================================================================
