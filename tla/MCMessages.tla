----------------------------- MODULE MCMessages -----------------------------
(* Small instances of Messages: ann writes from two tabs, or from one while *)
(* bob reads.                                                               *)
EXTENDS Messages, TLC

CONSTANTS ann, bob, t1, t2, note, clip, r1, r2, r3, r4

AnnTwice == [t \in Tabs |-> ann]
AnnAndBob == [t \in Tabs |-> IF t = t1 THEN ann ELSE bob]
AllByAnn == [k \in Keys |-> ann]
(* A text or a clip is there from the start, or either is yet to be sent;   *)
(* requests are about one of them, and an answer is lost only when a        *)
(* message was sent.                                                        *)
L == INSTANCE Messages WITH Seeded <- {note}
C == INSTANCE Messages WITH Seeded <- {clip}
MCSpec == (Init \/ L!Init \/ C!Init) /\ [][Next]_vars
Asked == {req[r].msg.key : r \in {q \in Requests : pc[q] # "free"}}
Posted == \E r \in Requests : pc[r] # "free" /\ req[r].op = "create"
OneMessage == Asked' # {note, clip} /\ (losses' # losses => Posted)

Interchangeable == Permutations(Requests) \cup Permutations(Tabs)
=============================================================================
