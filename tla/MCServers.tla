----------------------------- MODULE MCServers -----------------------------
(* Small instances of Servers: ann owns the server, bob has a role that may *)
(* do all but change its settings, cat is a plain member or none yet.       *)
EXTENDS Servers, TLC

CONSTANTS ann, bob, cat, plain, mod, other, general, rooms, fresh, q1, q2

Staff == {"roles", "channels", "kick"}
NoGrants == [r \in Roles |-> {}]
Unmade == [server |-> "unmade", owner |-> NoUser, rank |-> [u \in Users |-> Absent],
           roles |-> {}, grants |-> NoGrants, channels |-> {},
           position |-> [c \in Channels |-> 0]]
WithCat(r) ==
  [server |-> "live", owner |-> ann,
   rank |-> [u \in Users |-> CASE u = ann -> NoRole [] u = bob -> mod [] OTHER -> r],
   roles |-> {plain, mod}, grants |-> [NoGrants EXCEPT ![mod] = Staff],
   channels |-> {general, rooms},
   position |-> [c \in Channels |-> IF c = rooms THEN 1 ELSE 0]]
Starts == {Unmade, WithCat(Absent), WithCat(plain)}
TwoInputs == {{}, Staff}
Interchangeable == Permutations(Requests)
=============================================================================
