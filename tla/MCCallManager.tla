--------------------------- MODULE MCCallManager ---------------------------
(* A direct conversation of two users and a voice channel of three.  Either *)
(* nobody is in a call, or user 3 is alone in the voice channel and all of  *)
(* that has been heard, a state Init leads to.                              *)
EXTENDS CallManager

CONSTANTS dm, room

AnnBob == {dm}
Lists == [v \in {dm, room} |-> IF v = dm THEN <<1, 2>> ELSE <<2, 1, 3>>]
Clicks == {<<3, 1, 0>>, <<1, 2, 0>>, <<1, 1, 0>>, <<4, 0, 0>>}

Occupied ==
  /\ calls = [v \in Convs |-> IF v = room THEN {3} ELSE {}]
  /\ up = [u \in Users |-> <<>>]
  /\ wire = [u \in Users |-> <<>>]
  /\ inbox = [u \in Users |-> <<>>]
  /\ conv = [u \in Users |-> IF u = 3 THEN room ELSE NoConv]
  /\ local = [u \in Users |-> u = 3]
  /\ audible = local
  /\ mics = [u \in Users |-> IF u = 3 THEN 1 ELSE 0]
  /\ pending = [u \in Users |-> {}]
  /\ status = [u \in Users |-> IF u = 3 THEN "active" ELSE "idle"]
  /\ shown = [u \in Users |-> IF u = 3 THEN room ELSE NoConv]
  /\ muted = [u \in Users |-> FALSE]
  /\ peers = [u \in Users |-> [w \in Users |-> "none"]]
  /\ loops = [u \in Users |-> {}]
  /\ answers = [u \in Users |-> {}]
  /\ clicks = <<1, 1, 0>>
  /\ rash = {} /\ crossed = {} /\ parted = FALSE

MCSpec == (Init \/ Occupied) /\ [][Next]_vars
=============================================================================
