----------------------------- MODULE MCSignals -----------------------------
(* Two members and a third who may be added.  Each scene is about one of:   *)
(* typing, reading what is opened, sent or deleted, reacting beside edits,  *)
(* fetches and failures, adding a member, a request that fails and a socket *)
(* that does.                                                               *)
EXTENDS Signals

CONSTANTS ann, bob, cat

Scene(open, some) ==
  [open |-> open, left |-> [what \in Spent |-> IF what \in DOMAIN some THEN some[what] ELSE 0]]
Several ==
  {Scene({ann, bob}, [talk |-> 2, look |-> 1, fail |-> 1]),
   Scene({}, [look |-> 2, delete |-> 1]),
   Scene({}, [look |-> 2, fail |-> 1]),
   Scene({ann, bob}, [send |-> 1, delete |-> 1]),
   Scene({ann, bob}, [send |-> 1, look |-> 1]),
   Scene({ann, bob}, [react |-> 2, look |-> 1]),
   Scene({ann, bob}, [react |-> 2, edit |-> 1]),
   Scene({ann, bob}, [react |-> 1, delete |-> 1]),
   Scene({ann}, [react |-> 1, edit |-> 2]),
   Scene({ann, bob}, [react |-> 1, look |-> 1, edit |-> 1]),
   Scene({bob}, [react |-> 1, look |-> 2, fail |-> 1]),
   Scene({ann, bob}, [send |-> 1, add |-> 1]),
   Scene({bob}, [send |-> 1, look |-> 1, fail |-> 1]),
   Scene({bob}, [send |-> 1, look |-> 1, drop |-> 1]),
   Scene({ann, bob}, [talk |-> 1, drop |-> 1]),
   Scene({bob}, [react |-> 1, look |-> 1, drop |-> 1])}
=============================================================================
