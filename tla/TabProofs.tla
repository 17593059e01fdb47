------------------------------ MODULE TabProofs ------------------------------
(* What a tab is told by others (Signals) and the socket through which it   *)
(* hears them (Socket), for any users, messages, jobs under way, sockets and*)
(* timeouts.                                                                *)
(*                                                                          *)
(* Each invariant of Signals speaks of a moment when nothing is under way.  *)
(* The one that is inductive says the same of every moment, with the jobs   *)
(* that still excuse a tab: those that owe it an event.                     *)
EXTENDS Signals, Socket, FiniteSetTheorems, WellFoundedInduction, TLAPS

-----------------------------------------------------------------------------
(* Types: jobs have distinct numbers, a row is its message's only one, and  *)
(* what is done is done by and for members.                                 *)
Ops == {"create", "edit", "delete", "react", "unreact", "add"} \cup OnSocket
About == {"create", "edit", "delete", "react", "unreact", "read"}
Jobs == [n : Nat, op : Ops, by : Users, arg : Message \cup Users \cup {NoMessage},
         version : Nat, line : Nat, stage : {"asked", "written", "telling"}, todo : SUBSET Users]

JobsOK ==
  /\ jobs \subseteq Jobs /\ count \in Nat
  /\ \A j, k \in jobs : j.n = k.n => j = k
  /\ \A j \in jobs : /\ j.n \in 1..count
                     /\ j.todo # {} => j.stage = "telling"
                     /\ j.by \in members /\ j.todo \subseteq members
                     /\ j.op \in About => j.arg \in Message
                     /\ j.op = "add" => j.arg \in Users
TablesOK ==
  /\ rows \subseteq Copy /\ IsFiniteSet(rows)
  /\ receipts \subseteq Message \X Users
  /\ Founders \subseteq members /\ members \subseteq Users
  /\ \A r, q \in rows : r.m = q.m => r = q
TabsOK ==
  /\ look \in [Users -> {"open", "hidden", "away"}]
  /\ \A u \in Users : cache[u] \subseteq Copy /\ page[u] \subseteq Copy
  /\ fetching \in [Users -> {"no", "asked", "listed", "loaded"}]
  /\ list \in [Users -> Nat] /\ answer \in [Users -> Nat]
  /\ asking \in [Users -> {"no", "asked", "answered"}]
  /\ typing \in [Users -> BOOLEAN]
  /\ shown \in [Users -> SUBSET Users] /\ expiry \in [Users -> SUBSET Users]
  /\ left \in [Spent -> Nat]
  /\ cache \in [Users -> SUBSET Copy] /\ page \in [Users -> SUBSET Copy]
ReadOK ==
  /\ marked \in [Users -> Message \cup {NoMessage}]
  /\ lastRead \in [Users -> [Users -> Message \cup {NoMessage}]]
(* Who is no member has nothing yet.                                        *)
Strangers ==
  \A u \in Users \ members :
    /\ cache[u] = {} /\ fetching[u] = "no" /\ look[u] = "away" /\ u \in behind
    /\ ~typing[u]
LinesOK == line \in [Users -> 0..count] /\ \A j \in jobs : j.line \in 0..count
Typed == JobsOK /\ TablesOK /\ TabsOK /\ ReadOK /\ Strangers /\ LinesOK

(* A message that is still to be made is nowhere.                           *)
Made(m) == m.at <= count /\ \A j \in jobs : j.op = "create" /\ j.stage = "asked" => j.arg # m
Fresh ==
  /\ \A j \in jobs : j.op = "create" => j.arg.at = j.n
  /\ \A j \in jobs : j.op \in About /\ ~(j.op = "create" /\ j.stage = "asked") => Made(j.arg)
  /\ \A r \in rows : Made(r.m)
  /\ \A u \in Users : /\ \A c \in cache[u] \cup page[u] : Made(c.m)
                      /\ marked[u] # NoMessage => Made(marked[u])
                      /\ \A w \in Users : lastRead[u][w] # NoMessage => Made(lastRead[u][w])

(* A job that has yet to tell u what it wrote.                              *)
Owes(j, u) == j.stage = "written" \/ u \in j.todo

(* The typing events of w that u has still to hear, and what the last of    *)
(* them, or else the indicator, says.  Those of one socket are handled in   *)
(* order; those of an earlier one may have been lost.                       *)
Sayings(w) == {j \in jobs : j.by = w /\ j.op \in Typing}
Owing(u, w) == {j \in Sayings(w) : j.stage # "telling" \/ u \in j.todo}
Leading ==
  \A j, k \in jobs :
    /\ j.op \in OnSocket /\ k.op \in OnSocket /\ k.by = j.by /\ k.line = j.line
    /\ j.stage # "asked"
    => k.n >= j.n
Current ==
  \A j \in jobs : j.op \in Typing =>
    \/ j.line = line[j.by] /\ j.line # 0
    \/ {j.by} \X Users \subseteq dropped
Followed(u, w) ==
  /\ Owing(u, w) = {} => /\ w \in shown[u] => typing[w]
                         /\ typing[w] /\ ~expired => w \in shown[u]
  /\ \A j \in Owing(u, w) : (\A k \in Owing(u, w) : k.n <= j.n) => (j.op = "start" <=> typing[w])
Heeded ==
  Leading /\ Current /\ \A u, w \in Founders : u # w /\ <<w, u>> \notin dropped => Followed(u, w)

(* What was marked has its receipt, is asked for or was lost; what is told  *)
(* has it.                                                                  *)
Receipted(m, u) == RowOf(m) = {} \/ <<m, u>> \in receipts
Noted ==
  /\ \A j \in jobs : j.op = "read" /\ j.stage # "asked" => Receipted(j.arg, j.by)
  /\ \A u, w \in Users : Receipted(lastRead[u][w], w)
  /\ \A u \in Users :
       \/ Receipted(marked[u], u) \/ <<marked[u], u>> \in unmarked
       \/ \E j \in jobs : j.op = "read" /\ j.stage = "asked" /\ j.by = u /\ j.arg = marked[u]

(* A badge is right, or is being asked for, or a message is to be told of.  *)
Created(m, u) == \E j \in jobs : j.op = "create" /\ j.arg = m /\ Owes(j, u)
Counted ==
  \A u \in members \ untold :
    \/ asking[u] = "asked"
    \/ \E j \in jobs : j.op = "create" /\ Owes(j, u)
    \/ asking[u] = "answered" /\ answer[u] >= Unread(u)
    \/ asking[u] = "no" /\ list[u] >= Unread(u)

(* The reactions stored, and those in a tab's copies or in the page it      *)
(* fetches: the copies are of the rows there are (Placed) with the reactions*)
(* they have (Shows), but for what is owed, or just asked for by the tab.   *)
IsToggle(j, w, m) == j.op \in {"react", "unreact"} /\ j.by = w /\ j.arg = m
Stored ==
  /\ \A j, k \in jobs : \A w \in Users \ raced :
       IsToggle(j, w, j.arg) /\ IsToggle(k, w, j.arg) => j = k
  /\ \A j \in jobs : \A w \in Users \ raced : \A r \in rows :
       IsToggle(j, w, r.m) /\ j.stage # "asked" => (w \in r.reacted <=> j.op = "react")
  /\ \A j \in jobs : j.op = "delete" /\ j.stage # "asked" => RowOf(j.arg) = {}

Placed(u, copies) ==
  /\ \A c \in copies :
       RowOf(c.m) # {} \/ \E j \in jobs : j.op = "delete" /\ j.arg = c.m /\ Owes(j, u)
  /\ \A r \in rows :
       \/ \E c \in copies : c.m = r.m
       \/ /\ Created(r.m, u)
          /\ \A w \in r.reacted \ raced : \E j \in jobs : IsToggle(j, w, r.m) /\ Owes(j, u)
Excused(u, w, c) ==
  \E j \in jobs :
    /\ IsToggle(j, w, c.m)
    /\ Owes(j, u) \/ (j.stage = "asked" /\ w = u /\ (w \in c.reacted <=> j.op = "react"))
Shows(u, copies) ==
  \A c \in copies, r \in rows : r.m = c.m =>
    \A w \in Users \ raced : (w \in c.reacted <=> w \in r.reacted) \/ Excused(u, w, c)
Fine(u) ==
  /\ fetching[u] = "no" /\ u \notin behind => Placed(u, cache[u]) /\ Shows(u, cache[u])
  /\ fetching[u] = "listed" /\ u \notin dirty => Placed(u, page[u])
  /\ fetching[u] = "loaded" /\ u \notin dirty => Placed(u, page[u]) /\ Shows(u, page[u])
Settled == Stored /\ \A u \in Users : Fine(u)

-----------------------------------------------------------------------------
(* The operators.                                                           *)

LEMMA FirstMessage == First \in Message /\ First.at = 0 /\ First.from \in Founders
<1>1. \E u \in Founders : TRUE
  BY SignalsAssumption
<1>2. (CHOOSE u \in Founders : TRUE) \in Founders
  BY <1>1
<1> QED BY <1>2, SignalsAssumption DEF First, Message

LEMMA RowIs ==
  ASSUME NEW m
  PROVE  /\ Row(m).m = m /\ Row(m).reacted = {} /\ Row(m).version = 1
         /\ m \in Message => Row(m) \in Copy
BY DEF Row, Copy

LEMMA JobIs ==
  ASSUME NEW n \in Nat, NEW op \in Ops, NEW u \in Users,
         NEW arg \in Message \cup Users \cup {NoMessage}, NEW version \in Nat, line[u] \in Nat
  PROVE  /\ Job(n, op, u, arg, version) \in Jobs
         /\ Job(n, op, u, arg, version).n = n /\ Job(n, op, u, arg, version).op = op
         /\ Job(n, op, u, arg, version).by = u /\ Job(n, op, u, arg, version).arg = arg
         /\ Job(n, op, u, arg, version).stage = "asked"
         /\ Job(n, op, u, arg, version).line = line[u]
         /\ Job(n, op, u, arg, version).todo = {}
BY DEF Job, Jobs

(* There is a greatest number among those of a set below a bound.           *)
LEMMA Greatest ==
  ASSUME NEW bound \in Nat, NEW S, S # {}, \A m \in S : m.at \in Nat /\ m.at <= bound
  PROVE  \E m \in S : \A k \in S : k.at <= m.at
<1> DEFINE above(m) == 1..(bound - m.at)
           T == {above(m) : m \in S}
<1>1. \A m \in S : above(m) \in FiniteSubsetsOf(Nat)
  <2> TAKE m \in S
  <2>1. IsFiniteSet(above(m))
    BY FS_Interval
  <2> QED BY <2>1 DEF FiniteSubsetsOf
<1>2. \E x \in T : \A y \in T : <<y, x>> \notin StrictSubsetOrdering(Nat)
  <2> HIDE DEF above
  <2>1. T \subseteq FiniteSubsetsOf(Nat) /\ T # {}
    BY <1>1
  <2> HIDE DEF T
  <2>2. IsWellFoundedOn(StrictSubsetOrdering(Nat), FiniteSubsetsOf(Nat))
    BY FS_StrictSubsetOrderingWellFounded
  <2> QED BY <2>1, <2>2, WFMin
<1>3. PICK m \in S : \A k \in S : <<above(k), above(m)>> \notin StrictSubsetOrdering(Nat)
  <2> HIDE DEF above
  <2> QED BY <1>2
<1>4. ASSUME NEW k \in S PROVE k.at <= m.at
  <2> SUFFICES ASSUME m.at < k.at PROVE FALSE
    OBVIOUS
  <2>1. above(k) \subseteq above(m) /\ bound - m.at \in above(m) /\ bound - m.at \notin above(k)
    OBVIOUS
  <2>2. above(k) \in SUBSET Nat /\ above(m) \in SUBSET Nat
    OBVIOUS
  <2> HIDE DEF above
  <2>3. <<above(k), above(m)>> \in StrictSubsetOrdering(Nat)
    BY <2>1, <2>2 DEF StrictSubsetOrdering
  <2> QED BY <1>3, <2>3
<1> QED BY <1>4

LEMMA LatestIncoming ==
  ASSUME NEW u \in Users, count \in Nat, cache[u] \subseteq Copy,
         \A c \in cache[u] : c.m.at <= count, Incoming(u) # {}
  PROVE  Latest(u) \in Incoming(u) /\ Incoming(u) \subseteq {c.m : c \in cache[u]}
<1>1. Incoming(u) \subseteq {c.m : c \in cache[u]}
  BY DEF Incoming
<1>2. \A m \in Incoming(u) : m.at \in Nat /\ m.at <= count
  BY <1>1 DEF Copy, Message
<1>3. \E m \in Incoming(u) : \A k \in Incoming(u) : k.at <= m.at
  BY <1>2, Greatest
<1> QED BY <1>1, <1>3 DEF Latest

(* What an event makes of the copies.                                       *)
LEMMA AppliedIs ==
  ASSUME NEW copies \in SUBSET Copy, NEW j \in Jobs, j.op \in About => j.arg \in Message
  PROVE  /\ Applied(copies, j) \subseteq Copy
         /\ \A c \in Applied(copies, j) :
              (\E d \in copies : c.m = d.m) \/ (j.op = "create" /\ c.m = j.arg)
<1>1. CASE j.op = "create"
  BY <1>1, RowIs DEF Applied, About
<1>2. CASE j.op = "edit"
  <2> DEFINE new(c) == IF c.m = j.arg /\ j.version >= c.version
                         THEN [Row(c.m) EXCEPT !.version = j.version] ELSE c
  <2>1. ASSUME NEW c \in copies PROVE new(c) \in Copy /\ new(c).m = c.m
    BY DEF Row, Copy, Jobs
  <2>2. Applied(copies, j) = {new(c) : c \in copies}
    BY <1>2 DEF Applied
  <2> HIDE DEF new
  <2> QED BY <2>1, <2>2
<1>3. CASE j.op = "delete"
  BY <1>3 DEF Applied
<1>4. CASE j.op = "react"
  <2> DEFINE new(c) == IF c.m = j.arg THEN [c EXCEPT !.reacted = @ \cup {j.by}] ELSE c
  <2>1. ASSUME NEW c \in copies PROVE new(c) \in Copy /\ new(c).m = c.m
    BY DEF Copy, Jobs
  <2>2. Applied(copies, j) = {new(c) : c \in copies}
    BY <1>4 DEF Applied
  <2> HIDE DEF new
  <2> QED BY <2>1, <2>2
<1>5. CASE j.op = "unreact"
  <2> DEFINE new(c) == IF c.m = j.arg THEN [c EXCEPT !.reacted = @ \ {j.by}] ELSE c
  <2>1. ASSUME NEW c \in copies PROVE new(c) \in Copy /\ new(c).m = c.m
    BY DEF Copy, Jobs
  <2>2. Applied(copies, j) = {new(c) : c \in copies}
    BY <1>5 DEF Applied
  <2> HIDE DEF new
  <2> QED BY <2>1, <2>2
<1>6. CASE j.op \notin {"create", "edit", "delete", "react", "unreact"}
  BY <1>6 DEF Applied
<1> QED BY <1>1, <1>2, <1>3, <1>4, <1>5, <1>6

LEMMA SetIs ==
  ASSUME NEW copies \in SUBSET Copy, NEW m, NEW users \in SUBSET Users
  PROVE  /\ Set(copies, m, users) \subseteq Copy
         /\ \A c \in Set(copies, m, users) : \E d \in copies :
              c.m = d.m /\ IF c.m = m THEN c.reacted = users ELSE c = d
         /\ \A d \in copies : \E c \in Set(copies, m, users) : c.m = d.m
<1> DEFINE new(c) == IF c.m = m THEN [c EXCEPT !.reacted = users] ELSE c
<1>1. ASSUME NEW c \in copies
      PROVE  new(c) \in Copy /\ new(c).m = c.m /\ IF c.m = m THEN new(c).reacted = users ELSE new(c) = c
  BY DEF Copy
<1>2. Set(copies, m, users) = {new(c) : c \in copies}
  BY DEF Set
<1> HIDE DEF new
<1> QED BY <1>1, <1>2

-----------------------------------------------------------------------------
(* The jobs.                                                                *)

LEMMA BeginJobs ==
  ASSUME JobsOK, TablesOK, members' = members, NEW op \in Ops, NEW u \in members, line[u] \in Nat,
         NEW arg \in Message \cup Users \cup {NoMessage}, NEW version \in Nat,
         op \in About => arg \in Message, op = "add" => arg \in Users,
         Begin(op, u, arg, version)
  PROVE  JobsOK'
<1> DEFINE new == Job(count + 1, op, u, arg, version)
<1>1. u \in Users /\ count \in Nat
  BY DEF JobsOK, TablesOK
<1>2. /\ new \in Jobs /\ new.n = count + 1 /\ new.op = op /\ new.by = u
      /\ new.arg = arg /\ new.todo = {}
  BY <1>1, JobIs
<1>3. jobs' = jobs \cup {new} /\ count' = count + 1
  BY DEF Begin
<1> HIDE DEF new
<1>4. ASSUME NEW j \in jobs' PROVE j \in jobs \/ j = new
  BY <1>3
<1>5. ASSUME NEW j \in jobs PROVE j.n < count + 1 /\ j.n \in 1..count'
  BY <1>1, <1>3 DEF JobsOK
<1>6. \A j, k \in jobs' : j.n = k.n => j = k
  BY <1>1, <1>2, <1>4, <1>5 DEF JobsOK
<1>7. new.n \in 1..count'
  BY <1>1, <1>2, <1>3
<1> QED BY <1>1, <1>2, <1>3, <1>4, <1>5, <1>6, <1>7 DEF JobsOK

LEMMA DropJobs ==
  ASSUME JobsOK, jobs' \subseteq jobs, count' = count, members \subseteq members'
  PROVE  JobsOK'
BY DEF JobsOK

LEMMA ChangeJobs ==
  ASSUME JobsOK, NEW j \in jobs, NEW k \in Jobs, Change(j, k), count' = count,
         members \subseteq members', k.n = j.n, k.op = j.op, k.by = j.by, k.arg = j.arg,
         k.todo # {} => k.stage = "telling", k.todo \subseteq members'
  PROVE  JobsOK'
<1>1. ASSUME NEW i \in jobs' PROVE (i \in jobs /\ i # j) \/ i = k
  BY DEF Change
<1>2. \A i, l \in jobs' : i.n = l.n => i = l
  BY <1>1 DEF JobsOK
<1>3. jobs' \subseteq Jobs /\ count' \in Nat
  BY <1>1 DEF JobsOK
<1>4. ASSUME NEW i \in jobs'
      PROVE  /\ i.n \in 1..count'
             /\ i.todo # {} => i.stage = "telling"
             /\ i.by \in members' /\ i.todo \subseteq members'
             /\ i.op \in About => i.arg \in Message
             /\ i.op = "add" => i.arg \in Users
  <2>1. CASE i \in jobs
    BY <2>1 DEF JobsOK
  <2>2. CASE i = k
    BY <2>2 DEF JobsOK
  <2> QED BY <1>1, <2>1, <2>2
<1> QED BY <1>2, <1>3, <1>4, Zenon DEF JobsOK

LEMMA CarriedIs ==
  ASSUME NEW j \in Jobs, j.stage = "asked",
         NEW k, k = [j EXCEPT !.stage = "written",
                              !.version = IF j.op = "edit" THEN @ + 1 ELSE @]
  PROVE  /\ k \in Jobs /\ k.stage = "written" /\ k.todo = j.todo
         /\ k.n = j.n /\ k.op = j.op /\ k.by = j.by /\ k.arg = j.arg /\ k.line = j.line
<1> PICK version \in {IF j.op = "edit" THEN j.version + 1 ELSE j.version} : TRUE
  OBVIOUS
<1>1. version \in Nat
  <2>1. j.version \in Nat
    BY DEF Jobs
  <2> QED BY <2>1
<1>2. k = [j EXCEPT !.stage = "written", !.version = version]
  OBVIOUS
<1> QED BY <1>1, <1>2 DEF Jobs

LEMMA AddressStep ==
  ASSUME NEW j \in Jobs, members \subseteq Users, Address(j)
  PROVE  \E k \in Jobs :
           /\ Change(j, k) /\ k.stage = "telling"
           /\ k.todo = IF j.op = "add" THEN {}
                       ELSE IF j.op \in OnSocket THEN members \ {j.by} ELSE members
           /\ k.n = j.n /\ k.op = j.op /\ k.by = j.by /\ k.arg = j.arg /\ k.line = j.line
<1> PICK todo \in {IF j.op = "add" THEN {}
                   ELSE IF j.op \in OnSocket THEN members \ {j.by} ELSE members} : TRUE
  OBVIOUS
<1>1. todo \in SUBSET Users
  OBVIOUS
<1> PICK k \in {[j EXCEPT !.stage = "telling", !.todo = todo]} : TRUE
  OBVIOUS
<1>2. Change(j, k)
  BY DEF Address
<1>3. /\ k \in Jobs /\ k.stage = "telling" /\ k.todo = todo
      /\ k.n = j.n /\ k.op = j.op /\ k.by = j.by /\ k.arg = j.arg /\ k.line = j.line
  BY <1>1 DEF Jobs
<1> QED BY <1>2, <1>3

LEMMA MuteStep ==
  ASSUME NEW j \in Jobs, TellNobody(j)
  PROVE  \E k \in Jobs :
           /\ Change(j, k) /\ k.stage = "telling" /\ k.todo = j.todo
           /\ k.n = j.n /\ k.op = j.op /\ k.by = j.by /\ k.arg = j.arg /\ k.line = j.line
<1> PICK k \in {[j EXCEPT !.stage = "telling"]} : TRUE
  OBVIOUS
<1>1. Change(j, k)
  BY DEF TellNobody
<1>2. /\ k \in Jobs /\ k.stage = "telling" /\ k.todo = j.todo
      /\ k.n = j.n /\ k.op = j.op /\ k.by = j.by /\ k.arg = j.arg /\ k.line = j.line
  BY DEF Jobs
<1> QED BY <1>1, <1>2

LEMMA ToldIs ==
  ASSUME NEW j \in Jobs, NEW u, NEW k, k = [j EXCEPT !.todo = @ \ {u}]
  PROVE  /\ k \in Jobs /\ k.todo = j.todo \ {u}
         /\ k.n = j.n /\ k.op = j.op /\ k.by = j.by /\ k.arg = j.arg /\ k.stage = j.stage
         /\ k.line = j.line
BY DEF Jobs

(* What a statement does to the rows: one message's row is replaced, in the *)
(* way of the request.                                                      *)
LEMMA WrittenIs ==
  ASSUME TablesOK, NEW j \in Jobs, Written(j), j.op \in About => j.arg \in Message
  PROVE  /\ \A r \in rows' : r.m # j.arg => r \in rows
         /\ \A r \in rows : r.m # j.arg => r \in rows'
         /\ \A r \in rows' : r.m = j.arg =>
              \/ j.op = "create" /\ r = Row(j.arg)
              \/ \E q \in rows :
                   /\ q.m = j.arg /\ j.op \notin {"create", "delete"}
                   /\ r = [m |-> q.m,
                           version |-> IF j.op = "edit" THEN q.version + 1 ELSE q.version,
                           reacted |-> IF j.op = "react" THEN q.reacted \cup {j.by}
                                       ELSE IF j.op = "unreact" THEN q.reacted \ {j.by}
                                       ELSE q.reacted]
         /\ j.op = "create" => Row(j.arg) \in rows'
         /\ \A q \in rows : q.m = j.arg /\ j.op \notin {"create", "delete"} =>
              \E r \in rows' : r.m = q.m
<1> DEFINE new(q) == [m |-> q.m,
                      version |-> IF j.op = "edit" THEN q.version + 1 ELSE q.version,
                      reacted |-> IF j.op = "react" THEN q.reacted \cup {j.by}
                                  ELSE IF j.op = "unreact" THEN q.reacted \ {j.by}
                                  ELSE q.reacted]
           put == CASE j.op = "create"  -> {Row(j.arg)}
                    [] j.op = "edit"    -> {[r EXCEPT !.version = @ + 1] : r \in RowOf(j.arg)}
                    [] j.op = "delete"  -> {}
                    [] j.op = "react"   -> {[r EXCEPT !.reacted = @ \cup {j.by}] : r \in RowOf(j.arg)}
                    [] j.op = "unreact" -> {[r EXCEPT !.reacted = @ \ {j.by}] : r \in RowOf(j.arg)}
                    [] OTHER            -> RowOf(j.arg)
<1>1. rows' = (rows \ RowOf(j.arg)) \cup put
  BY DEF Written
<1>2. RowOf(j.arg) \subseteq rows /\ \A r \in rows : r \in RowOf(j.arg) <=> r.m = j.arg
  BY DEF RowOf
<1>3. \A q \in RowOf(j.arg) : q = [m |-> q.m, version |-> q.version, reacted |-> q.reacted]
  BY <1>2 DEF TablesOK, Copy
<1>4. CASE j.op = "create"
  <2>1. put = {Row(j.arg)}
    BY <1>4
  <2> HIDE DEF put
  <2> QED BY <1>1, <1>2, <1>4, <2>1, RowIs
<1>5. CASE j.op = "delete"
  <2>1. put = {}
    BY <1>5
  <2> HIDE DEF put
  <2> QED BY <1>1, <1>2, <1>5, <2>1
<1>6. CASE j.op \notin {"create", "delete"}
  <2>1. put = {new(q) : q \in RowOf(j.arg)}
    <3>1. CASE j.op = "edit"
      <4>1. \A q \in RowOf(j.arg) : [q EXCEPT !.version = @ + 1] = new(q)
        BY <1>2, <3>1 DEF TablesOK, Copy
      <4> HIDE DEF new
      <4> QED BY <3>1, <4>1
    <3>2. CASE j.op = "react"
      <4>1. \A q \in RowOf(j.arg) : [q EXCEPT !.reacted = @ \cup {j.by}] = new(q)
        BY <1>2, <3>2 DEF TablesOK, Copy
      <4> HIDE DEF new
      <4> QED BY <3>2, <4>1
    <3>3. CASE j.op = "unreact"
      <4>1. \A q \in RowOf(j.arg) : [q EXCEPT !.reacted = @ \ {j.by}] = new(q)
        BY <1>2, <3>3 DEF TablesOK, Copy
      <4> HIDE DEF new
      <4> QED BY <3>3, <4>1
    <3>4. CASE j.op \notin {"edit", "react", "unreact"}
      <4>1. \A q \in RowOf(j.arg) : q = new(q)
        BY <1>3, <3>4
      <4>2. put = RowOf(j.arg)
        BY <1>6, <3>4
      <4> HIDE DEF new, put
      <4> QED BY <4>1, <4>2
    <3> QED BY <3>1, <3>2, <3>3, <3>4
  <2> HIDE DEF put
  <2>2. \A q : new(q).m = q.m
    OBVIOUS
  <2>3. \A r \in rows' : r.m = j.arg => \E q \in RowOf(j.arg) : r = new(q)
    <3> HIDE DEF new
    <3> QED BY <1>1, <1>2, <2>1, <2>2
  <2>4. /\ \A r \in rows' : r.m # j.arg => r \in rows
        /\ \A r \in rows : r.m # j.arg => r \in rows'
        /\ \A q \in rows : q.m = j.arg => new(q) \in rows'
    <3> HIDE DEF new
    <3> QED BY <1>1, <1>2, <2>1, <2>2
  <2> QED BY <1>2, <1>6, <2>2, <2>3, <2>4
<1> QED BY <1>4, <1>5, <1>6

LEMMA WrittenTables ==
  ASSUME JobsOK, TablesOK, NEW j \in jobs, Written(j)
  PROVE  TablesOK' /\ members \subseteq members'
<1>1. j \in Jobs /\ (j.op \in About => j.arg \in Message) /\ (j.op = "add" => j.arg \in Users)
  BY DEF JobsOK
<1>2. rows' \subseteq Copy
  <2>1. ASSUME NEW r \in rows', r.m = j.arg PROVE r \in Copy
    <3>1. CASE j.op = "create" /\ r = Row(j.arg)
      BY <1>1, <3>1, RowIs DEF About
    <3>2. CASE ~(j.op = "create" /\ r = Row(j.arg))
      <4>1. PICK q \in rows : r = [m |-> q.m,
                           version |-> IF j.op = "edit" THEN q.version + 1 ELSE q.version,
                           reacted |-> IF j.op = "react" THEN q.reacted \cup {j.by}
                                       ELSE IF j.op = "unreact" THEN q.reacted \ {j.by}
                                       ELSE q.reacted]
        BY <1>1, <2>1, <3>2, WrittenIs
      <4>2. q.m \in Message /\ q.version \in Nat /\ q.reacted \in SUBSET Users /\ j.by \in Users
        BY <1>1 DEF TablesOK, Copy, Jobs
      <4> QED BY <4>1, <4>2 DEF Copy
    <3> QED BY <3>1, <3>2
  <2> QED BY <1>1, <2>1, WrittenIs DEF TablesOK
<1>3. \A r, q \in rows' : r.m = q.m => r = q
  <2> SUFFICES ASSUME NEW r \in rows', NEW q \in rows', r.m = q.m PROVE r = q
    OBVIOUS
  <2>1. CASE r.m # j.arg
    BY <1>1, <2>1, WrittenIs DEF TablesOK
  <2>2. CASE r.m = j.arg
    <3>1. CASE j.op = "create"
      BY <1>1, <2>2, <3>1, WrittenIs
    <3>2. CASE j.op # "create"
      <4> DEFINE new(p) == [m |-> p.m,
                           version |-> IF j.op = "edit" THEN p.version + 1 ELSE p.version,
                           reacted |-> IF j.op = "react" THEN p.reacted \cup {j.by}
                                       ELSE IF j.op = "unreact" THEN p.reacted \ {j.by}
                                       ELSE p.reacted]
      <4>1. \E p \in rows : p.m = j.arg /\ r = new(p)
        BY <1>1, <2>2, <3>2, WrittenIs
      <4>2. \E p \in rows : p.m = j.arg /\ q = new(p)
        BY <1>1, <2>2, <3>2, WrittenIs
      <4> HIDE DEF new
      <4> QED BY <4>1, <4>2 DEF TablesOK
    <3> QED BY <3>1, <3>2
  <2> QED BY <2>1, <2>2
<1>4. IsFiniteSet(rows')
  <2>1. rows' \subseteq (rows \ RowOf(j.arg)) \cup {r \in rows' : r.m = j.arg}
    BY <1>1, WrittenIs DEF RowOf
  <2>2. IsFiniteSet(rows \ RowOf(j.arg))
    BY FS_Subset DEF TablesOK
  <2>3. \E x : {r \in rows' : r.m = j.arg} \subseteq {x}
    BY <1>3
  <2>4. IsFiniteSet({r \in rows' : r.m = j.arg})
    BY <2>3, FS_Singleton, FS_Subset
  <2>5. IsFiniteSet((rows \ RowOf(j.arg)) \cup {r \in rows' : r.m = j.arg})
    BY <2>2, <2>4, FS_Union
  <2> QED BY <2>1, <2>5, FS_Subset
<1>5. receipts' \subseteq Message \X Users
  <2>1. CASE j.op = "delete"
    BY <2>1 DEF Written, TablesOK
  <2>2. CASE j.op = "read"
    <3>1. receipts' = receipts \cup {<<j.arg, j.by>>}
      BY <2>2 DEF Written
    <3>2. j.arg \in Message /\ j.by \in Users
      BY <1>1, <2>2 DEF About, Jobs
    <3> QED BY <3>1, <3>2 DEF TablesOK
  <2>3. CASE j.op \notin {"delete", "read"}
    BY <2>3 DEF Written, TablesOK
  <2> QED BY <2>1, <2>2, <2>3
<1>6. members \subseteq members' /\ members' \subseteq Users /\ Founders \subseteq members'
  BY <1>1 DEF Written, TablesOK
<1> QED BY <1>2, <1>3, <1>4, <1>5, <1>6 DEF TablesOK

-----------------------------------------------------------------------------
(* Every variable keeps its type.                                           *)

LEMMA SendJobs ==
  ASSUME JobsOK, TablesOK, NEW u \in members, line[u] \in Nat, Send(u)
  PROVE  JobsOK'
<1> DEFINE m == [at |-> count + 1, from |-> u]
           new == Job(count + 1, "create", u, m, 1)
           stop == Job(count + 2, "stop", u, NoMessage, 0)
<1>1. u \in Users /\ count \in Nat
  BY DEF JobsOK, TablesOK
<1>2. m \in Message
  BY <1>1 DEF Message
<1>3. /\ new \in Jobs /\ new.n = count + 1 /\ new.op = "create" /\ new.by = u
      /\ new.arg = m /\ new.todo = {}
  <2>1. "create" \in Ops /\ count + 1 \in Nat /\ 1 \in Nat
    BY <1>1 DEF Ops
  <2> HIDE DEF m
  <2> QED BY <1>1, <1>2, <2>1, JobIs
<1>4. /\ stop \in Jobs /\ stop.n = count + 2 /\ stop.op = "stop" /\ stop.by = u /\ stop.todo = {}
  <2>1. "stop" \in Ops
    BY DEF Ops, OnSocket, Typing
  <2>2. PICK n \in {count + 2} : TRUE
    OBVIOUS
  <2>3. n \in Nat /\ n = count + 2
    BY <1>1
  <2>4. PICK none \in {NoMessage} : TRUE
    OBVIOUS
  <2>5. none \in Message \cup Users \cup {NoMessage} /\ none = NoMessage
    OBVIOUS
  <2> HIDE DEF m, new
  <2> QED BY <1>1, <2>1, <2>3, <2>5, JobIs
<1>5. \/ jobs' = jobs \cup {new} \cup {} /\ count' = count + 1
      \/ jobs' = jobs \cup {new} \cup {stop} /\ count' = count + 2
  <2>1. \E stops \in {{stop}, {}} :
          jobs' = jobs \cup {new} \cup stops /\ count' = count + 1 + Cardinality(stops)
    BY DEF Send
  <2>2. Cardinality({}) = 0 /\ Cardinality({stop}) = 1
    BY FS_EmptySet, FS_Singleton
  <2>3. count + 1 + 0 = count + 1 /\ count + 1 + 1 = count + 2
    BY <1>1
  <2> HIDE DEF new, stop
  <2>4. PICK stops \in {{stop}, {}} :
          jobs' = jobs \cup {new} \cup stops /\ count' = count + 1 + Cardinality(stops)
    BY <2>1
  <2>5. CASE stops = {stop}
    BY <2>2, <2>3, <2>4, <2>5
  <2>6. CASE stops = {}
    BY <2>2, <2>3, <2>4, <2>6
  <2> QED BY <2>4, <2>5, <2>6
<1> HIDE DEF new, stop, m
<1>6. \A j \in jobs' : j \in jobs \/ j = new \/ (j = stop /\ count' = count + 2)
  BY <1>5
<1>7. \A j \in jobs : j.n < count + 1 /\ j.n \in 1..count'
  BY <1>1, <1>5 DEF JobsOK
<1>8. \A j, k \in jobs' : j.n = k.n => j = k
  BY <1>1, <1>3, <1>4, <1>6, <1>7 DEF JobsOK
<1>9. count' \in Nat /\ \A j \in jobs' : j.n \in 1..count'
  BY <1>1, <1>3, <1>4, <1>5, <1>6, <1>7
<1>10. jobs' \subseteq Jobs /\ members' = members
  BY <1>3, <1>4, <1>6 DEF JobsOK, Send, tables
<1>11. ASSUME NEW j \in jobs'
       PROVE  /\ j.todo # {} => j.stage = "telling"
              /\ j.by \in members' /\ j.todo \subseteq members'
              /\ j.op \in About => j.arg \in Message
              /\ j.op = "add" => j.arg \in Users
  <2>1. CASE j \in jobs
    BY <1>10, <2>1 DEF JobsOK
  <2>2. CASE j = new
    BY <1>2, <1>3, <1>10, <2>2
  <2>3. CASE j = stop
    BY <1>4, <1>10, <2>3 DEF About
  <2> QED BY <1>6, <2>1, <2>2, <2>3
<1> QED BY <1>8, <1>9, <1>10, <1>11 DEF JobsOK

LEMMA CacheIs ==
  ASSUME TabsOK, NEW u \in Users
  PROVE  cache[u] \subseteq Copy /\ page[u] \subseteq Copy
         /\ \A c \in cache[u] \cup page[u] :
              c.m \in Message /\ c.version \in Nat /\ c.reacted \in SUBSET Users
BY DEF TabsOK, Copy

LEMMA Bounded ==
  ASSUME Typed, Fresh, NEW u \in Users
  PROVE  /\ \A c \in cache[u] : c.m.at <= count
         /\ Incoming(u) # {} => Latest(u) \in {c.m : c \in cache[u]} /\ Latest(u) \in Message
<1>1. \A c \in cache[u] : c.m.at <= count
  BY DEF Fresh, Made
<1>2. ASSUME Incoming(u) # {} PROVE Latest(u) \in {c.m : c \in cache[u]}
  BY <1>1, <1>2, CacheIs, LatestIncoming DEF Typed, JobsOK
<1> QED BY <1>1, <1>2, CacheIs DEF Typed

LEMMA MemberOpen ==
  ASSUME Strangers, NEW u \in Users
  PROVE  /\ look[u] # "away" => u \in members
         /\ typing[u] => u \in members
         /\ fetching[u] # "no" => u \in members
BY DEF Strangers

(* What the server does of a job.                                           *)
Handled(j) ==
  \/ Carry(j) \/ Address(j) \/ TellNobody(j) \/ Finish(j) \/ Fail(j) \/ GiveUp(j)
  \/ \E u \in Users : Tell(j, u)

LEMMA ServerJobs ==
  ASSUME Typed, NEW j \in jobs, Handled(j)
  PROVE  JobsOK' /\ TablesOK'
<1>1. j \in Jobs /\ members \subseteq Users /\ JobsOK /\ TablesOK
      /\ j.todo \subseteq members /\ (j.todo # {} => j.stage = "telling")
  BY DEF Typed, JobsOK, TablesOK
<1>2. CASE Carry(j)
  <2>1. j.stage = "asked" /\ count' = count
    BY <1>2 DEF Carry
  <2>2. CASE Allowed(j)
    <3> PICK k \in {[j EXCEPT !.stage = "written",
                              !.version = IF j.op = "edit" THEN @ + 1 ELSE @]} : TRUE
      OBVIOUS
    <3>1. Written(j) /\ Change(j, k)
      BY <1>2, <2>2 DEF Carry
    <3>2. /\ k \in Jobs /\ k.stage = "written" /\ k.todo = j.todo
          /\ k.n = j.n /\ k.op = j.op /\ k.by = j.by /\ k.arg = j.arg
      BY <1>1, <2>1, CarriedIs
    <3>3. TablesOK' /\ members \subseteq members'
      BY <1>1, <3>1, WrittenTables
    <3>4. k.todo = {}
      BY <1>1, <2>1, <3>2
    <3>5. JobsOK'
      BY <1>1, <2>1, <3>1, <3>2, <3>3, <3>4, ChangeJobs
    <3> QED BY <3>3, <3>5
  <2>3. CASE ~Allowed(j)
    <3>1. jobs' = jobs \ {j} /\ UNCHANGED tables
      BY <1>2, <2>3 DEF Carry
    <3>2. JobsOK'
      BY <1>1, <2>1, <3>1, DropJobs DEF tables
    <3> QED BY <1>1, <3>1, <3>2 DEF tables, TablesOK
  <2> QED BY <2>2, <2>3
<1>3. CASE Address(j)
  <2>1. PICK k \in Jobs :
           /\ Change(j, k) /\ k.stage = "telling" /\ k.todo \subseteq members
           /\ k.n = j.n /\ k.op = j.op /\ k.by = j.by /\ k.arg = j.arg
    BY <1>1, <1>3, AddressStep
  <2>2. UNCHANGED <<tables, count>>
    BY <1>3 DEF Address
  <2>3. members' = members /\ count' = count
    BY <2>2 DEF tables
  <2>4. JobsOK'
    BY <1>1, <2>1, <2>2, <2>3, ChangeJobs
  <2> QED BY <1>1, <2>2, <2>4 DEF tables, TablesOK
<1>4. CASE Finish(j) \/ Fail(j) \/ GiveUp(j)
  <2>1. jobs' = jobs \ {j} /\ count' = count /\ UNCHANGED tables
    BY <1>4 DEF Finish, Fail, GiveUp
  <2>2. JobsOK'
    BY <1>1, <2>1, DropJobs DEF tables
  <2> QED BY <1>1, <2>1, <2>2 DEF tables, TablesOK
<1>5. ASSUME NEW u \in Users, Tell(j, u) PROVE JobsOK' /\ TablesOK'
  <2> PICK k \in {[j EXCEPT !.todo = @ \ {u}]} : TRUE
    OBVIOUS
  <2>1. Change(j, k) /\ UNCHANGED <<tables, count>> /\ u \in j.todo
    BY <1>5 DEF Tell
  <2>2. /\ k \in Jobs /\ k.todo = j.todo \ {u} /\ k.stage = j.stage
        /\ k.n = j.n /\ k.op = j.op /\ k.by = j.by /\ k.arg = j.arg
    BY <1>1, ToldIs
  <2>3. members' = members /\ count' = count
    BY <2>1 DEF tables
  <2>4. JobsOK'
    BY <1>1, <2>1, <2>2, <2>3, ChangeJobs
  <2> QED BY <1>1, <2>1, <2>4 DEF tables, TablesOK
<1>6. CASE TellNobody(j)
  <2>1. PICK k \in Jobs :
           /\ Change(j, k) /\ k.stage = "telling" /\ k.todo = j.todo
           /\ k.n = j.n /\ k.op = j.op /\ k.by = j.by /\ k.arg = j.arg
    BY <1>1, <1>6, MuteStep
  <2>2. UNCHANGED <<tables, count>>
    BY <1>6 DEF TellNobody
  <2>3. members' = members /\ count' = count
    BY <2>2 DEF tables
  <2>4. JobsOK'
    BY <1>1, <2>1, <2>3, ChangeJobs
  <2> QED BY <1>1, <2>2, <2>4 DEF tables, TablesOK
<1> QED BY <1>2, <1>3, <1>4, <1>5, <1>6 DEF Handled

LEMMA TabJobs ==
  ASSUME Typed, Fresh, NEW u \in Users, UserStep(u) \/ TabStep(u)
  PROVE  JobsOK' /\ TablesOK'
<1>1. UNCHANGED tables
  BY DEF UserStep, TabStep, Send, Edit, Delete, Toggle, Type, Invite, Open, Close, Hide, Return,
         StopTyping, MarkLatest, Expire, Drop, Reconnect, ShowMessages, ShowList
<1>2. TablesOK' /\ members' = members
  BY <1>1 DEF Typed, TablesOK, tables
<1>3. /\ JobsOK /\ TablesOK /\ members \subseteq Users
      /\ \A c \in cache[u] : c.m \in Message /\ c.version \in Nat
      /\ line[u] \in Nat
  BY CacheIs DEF Typed, TablesOK, JobsOK, LinesOK
<1>4. (\/ look[u] # "away" \/ typing[u]) => u \in members
  BY MemberOpen DEF Typed
<1>5. ASSUME NEW op \in Ops, NEW arg \in Message \cup Users \cup {NoMessage}, NEW version \in Nat,
             op \in About => arg \in Message, op = "add" => arg \in Users,
             u \in members, Begin(op, u, arg, version)
      PROVE  JobsOK'
  BY <1>2, <1>3, <1>5, BeginJobs
<1>6. CASE Send(u)
  <2>1. u \in members
    BY <1>4, <1>6 DEF Send
  <2> QED BY <1>2, <1>3, <1>6, <2>1, SendJobs
<1>7. CASE Edit(u)
  <2>1. PICK c \in cache[u] : Begin("edit", u, c.m, c.version)
    BY <1>7 DEF Edit
  <2>2. u \in members
    BY <1>4, <1>7 DEF Edit
  <2> QED BY <1>2, <1>3, <1>5, <2>1, <2>2 DEF Ops
<1>8. CASE Delete(u)
  <2>1. PICK c \in cache[u] : Begin("delete", u, c.m, 0)
    BY <1>8 DEF Delete
  <2>2. u \in members
    BY <1>4, <1>8 DEF Delete
  <2> QED BY <1>2, <1>3, <1>5, <2>1, <2>2 DEF Ops
<1>9. CASE Toggle(u)
  <2>1. PICK c \in cache[u], op \in {"react", "unreact"} : Begin(op, u, c.m, 0)
    BY <1>9 DEF Toggle
  <2>2. u \in members
    BY <1>4, <1>9 DEF Toggle
  <2> QED BY <1>2, <1>3, <1>5, <2>1, <2>2 DEF Ops
<1>10. ASSUME NEW w \in Users, Invite(u, w) PROVE JobsOK' /\ TablesOK'
  <2>1. u \in members /\ Begin("add", u, w, 0)
    BY <1>10 DEF Invite
  <2> QED BY <1>2, <1>5, <2>1 DEF Ops, About
<1>16. CASE UNCHANGED <<jobs, count>>
  BY <1>2, <1>3, <1>16 DEF JobsOK
<1>11. ASSUME u \in members, NEW op \in Typing, Emit(op, u, NoMessage)
       PROVE JobsOK' /\ TablesOK'
  <2>1. CASE Begin(op, u, NoMessage, 0)
    BY <1>2, <1>5, <1>11, <2>1 DEF Ops, OnSocket, Typing, About
  <2> QED BY <1>11, <1>16, <2>1 DEF Emit
<1>12. CASE Type(u)
  BY <1>4, <1>11, <1>12, <1>16 DEF Type, Typing
<1>13. CASE StopTyping(u)
  BY <1>4, <1>11, <1>13 DEF StopTyping, Typing
<1>14. CASE Close(u)
  BY <1>4, <1>11, <1>14, <1>16 DEF Close, Typing
<1>15. CASE MarkLatest(u)
  <2>1. u \in members /\ Latest(u) \in Message /\ Emit("read", u, Latest(u))
    BY <1>4, <1>15, Bounded DEF MarkLatest
  <2>2. CASE Begin("read", u, Latest(u), 0)
    BY <1>2, <1>5, <2>1, <2>2 DEF Ops, OnSocket
  <2> QED BY <1>16, <2>1, <2>2 DEF Emit
<1>18. CASE Drop(u)
  <2>1. jobs' \subseteq jobs /\ count' = count
    BY <1>18 DEF Drop
  <2> QED BY <1>2, <1>3, <2>1, DropJobs
<1>19. CASE Reconnect(u)
  <2>1. jobs' = jobs /\ count' = count + 1
    BY <1>19 DEF Reconnect
  <2> QED BY <1>2, <1>3, <2>1 DEF JobsOK
<1>17. CASE Open(u) \/ Hide(u) \/ Return(u) \/ (\E w \in Users : Expire(u, w))
            \/ ShowMessages(u) \/ ShowList(u)
  <2>1. UNCHANGED <<jobs, count>>
    BY <1>17 DEF Open, Hide, Return, Expire, ShowMessages, ShowList
  <2> QED BY <1>16, <2>1
<1> QED BY <1>6, <1>7, <1>8, <1>9, <1>10, <1>12, <1>13, <1>14, <1>15, <1>17, <1>18, <1>19
        DEF UserStep, TabStep

(* A socket is numbered when it is opened, and a job by the one it came by. *)
LEMMA LinesSame ==
  ASSUME JobsOK, LinesOK, UNCHANGED line, count' \in {count, count + 1, count + 2}, NEW u \in Users,
         \A k \in jobs' : (\E j \in jobs : k.line = j.line) \/ k.line = line[u]
  PROVE  LinesOK'
<1>1. count \in Nat /\ 0..count \subseteq 0..count'
  BY DEF JobsOK
<1> QED BY <1>1 DEF LinesOK

LEMMA LinesTab ==
  ASSUME Typed, NEW u \in Users, UserStep(u) \/ TabStep(u)
  PROVE  LinesOK'
<1>1. JobsOK /\ LinesOK /\ count \in Nat
  BY DEF Typed, JobsOK
<1>2. ASSUME UNCHANGED <<jobs, count, line>> PROVE LinesOK'
  BY <1>1, <1>2 DEF LinesOK
<1>3. ASSUME NEW op, NEW arg, NEW version, Begin(op, u, arg, version), UNCHANGED line PROVE LinesOK'
  <2>1. Job(count + 1, op, u, arg, version).line = line[u]
    BY DEF Job
  <2> QED BY <1>1, <1>3, <2>1, LinesSame DEF Begin
<1>4. ASSUME NEW op, NEW arg, Emit(op, u, arg), UNCHANGED line PROVE LinesOK'
  BY <1>2, <1>3, <1>4 DEF Emit
<1>5. CASE Send(u)
  <2>1. \A n, op, arg, version : Job(n, op, u, arg, version).line = line[u]
    BY DEF Job
  <2>2. PICK stops \in {{Job(count + 2, "stop", u, NoMessage, 0)}, {}} :
          /\ jobs' = jobs \cup {Job(count + 1, "create", u, [at |-> count + 1, from |-> u], 1)}
                       \cup stops
          /\ count' = count + 1 + Cardinality(stops) /\ UNCHANGED line
    BY <1>5 DEF Send
  <2>3. Cardinality(stops) \in {0, 1}
    BY FS_EmptySet, FS_Singleton
  <2>4. \A k \in jobs' : k \in jobs \/ k.line = line[u]
    BY <2>1, <2>2
  <2>5. count' \in {count, count + 1, count + 2}
    BY <1>1, <2>2, <2>3
  <2> QED BY <1>1, <2>2, <2>4, <2>5, LinesSame
<1>6. CASE Edit(u) \/ Delete(u) \/ Toggle(u) \/ \E w \in Users : Invite(u, w)
  BY <1>3, <1>6 DEF Edit, Delete, Toggle, Invite
<1>7. CASE Type(u) \/ StopTyping(u) \/ Close(u) \/ MarkLatest(u)
  BY <1>2, <1>4, <1>7 DEF Type, StopTyping, Close, MarkLatest
<1>8. CASE Open(u) \/ Hide(u) \/ Return(u) \/ (\E w \in Users : Expire(u, w))
            \/ ShowMessages(u) \/ ShowList(u)
  BY <1>2, <1>8 DEF Open, Hide, Return, Expire, ShowMessages, ShowList
<1>9. CASE Drop(u)
  BY <1>1, <1>9 DEF Drop, LinesOK
<1>10. CASE Reconnect(u)
  <2>1. jobs' = jobs /\ count' = count + 1 /\ line' = [line EXCEPT ![u] = count + 1]
    BY <1>10 DEF Reconnect
  <2> QED BY <1>1, <2>1 DEF LinesOK
<1> QED BY <1>5, <1>6, <1>7, <1>8, <1>9, <1>10 DEF UserStep, TabStep

LEMMA UnreadIs == ASSUME TablesOK, NEW u PROVE Unread(u) \in Nat
<1>1. IsFiniteSet({r \in rows : r.m.from # u /\ <<r.m, u>> \notin receipts})
  BY FS_Subset DEF TablesOK
<1> QED BY <1>1, FS_CardinalityType DEF Unread

LEMMA SpendLeft == ASSUME TabsOK, NEW what \in Spent, Spend(what) PROVE left' \in [Spent -> Nat]
<1>1. left \in [Spent -> Nat] /\ left[what] > 0 /\ left' = [left EXCEPT ![what] = @ - 1]
  BY DEF TabsOK, Spend
<1>2. left[what] - 1 \in Nat
  BY <1>1
<1> QED BY <1>1, <1>2

LEMMA RowsOf == ASSUME TablesOK, NEW m PROVE UNION {r.reacted : r \in RowOf(m)} \in SUBSET Users
BY DEF TablesOK, RowOf, Copy

(* Nothing a tab does, and nothing it hears, breaks the types of its parts. *)
LEMMA UserTabs ==
  ASSUME Typed, NEW u \in Users, UserStep(u)
  PROVE  TabsOK' /\ ReadOK'
<1>1. TabsOK /\ ReadOK
  BY DEF Typed
<1>2. ASSUME NEW what \in Spent, Spend(what), UNCHANGED <<look, cache, queries, receiptTab, shown, expiry>>,
             typing' \in [Users -> BOOLEAN]
      PROVE  TabsOK' /\ ReadOK'
  <2>1. left' \in [Spent -> Nat]
    BY <1>1, <1>2, SpendLeft
  <2> QED BY <1>1, <1>2, <2>1 DEF queries, receiptTab, TabsOK, ReadOK
<1>3. CASE Send(u) \/ Type(u)
  <2>1. \E what \in Spent : Spend(what)
    BY <1>3 DEF Send, Type, Spent
  <2>2. UNCHANGED <<look, cache, queries, receiptTab, shown, expiry>> /\ typing' \in [Users -> BOOLEAN]
    BY <1>1, <1>3 DEF Send, Type, TabsOK
  <2> QED BY <1>2, <2>1, <2>2
<1>4. CASE Edit(u) \/ Delete(u) \/ \E w \in Users : Invite(u, w)
  <2>1. \E what \in Spent : Spend(what)
    BY <1>4 DEF Edit, Delete, Invite, Spent
  <2>2. UNCHANGED <<look, cache, queries, receiptTab, typingTab>>
    BY <1>4 DEF Edit, Delete, Invite
  <2>3. typing' \in [Users -> BOOLEAN] /\ UNCHANGED <<shown, expiry>>
    BY <1>1, <2>2 DEF typingTab, TabsOK
  <2> QED BY <1>2, <2>1, <2>2, <2>3
<1>5. CASE Toggle(u)
  <2>1. left' \in [Spent -> Nat]
    BY <1>1, <1>5, SpendLeft DEF Toggle, Spent
  <2>2. \E c \in cache[u], users \in SUBSET Users : cache' = [cache EXCEPT ![u] = Set(@, c.m, users)]
    <3>1. PICK c \in cache[u] :
            cache' = [cache EXCEPT ![u] =
              Set(@, c.m, IF Reacted(u, c) THEN c.reacted \ {u} ELSE c.reacted \cup {u})]
      BY <1>5 DEF Toggle
    <3>2. (IF Reacted(u, c) THEN c.reacted \ {u} ELSE c.reacted \cup {u}) \in SUBSET Users
      BY <1>1, CacheIs
    <3> QED BY <3>1, <3>2
  <2>3. cache' \in [Users -> SUBSET Copy]
    <3>1. PICK c \in cache[u], users \in SUBSET Users :
            cache' = [cache EXCEPT ![u] = Set(cache[u], c.m, users)]
      BY <2>2
    <3>2. Set(cache[u], c.m, users) \subseteq Copy
      BY <1>1, SetIs, CacheIs
    <3> QED BY <1>1, <3>1, <3>2 DEF TabsOK
  <2>4. UNCHANGED <<look, queries, receiptTab, typingTab>>
    BY <1>5 DEF Toggle
  <2> QED BY <1>1, <2>1, <2>3, <2>4 DEF queries, receiptTab, typingTab, TabsOK, ReadOK
<1>6. CASE Open(u)
  <2>1. left' \in [Spent -> Nat]
    BY <1>1, <1>6, SpendLeft DEF Open, Spent
  <2>2. /\ look' \in [Users -> {"open", "hidden", "away"}]
        /\ marked' \in [Users -> Message \cup {NoMessage}]
        /\ fetching' \in [Users -> {"no", "asked", "listed", "loaded"}]
    BY <1>1, <1>6 DEF Open, Fetch, TabsOK, ReadOK
  <2>3. UNCHANGED <<cache, page, list, asking, answer, lastRead, typingTab>>
    BY <1>6 DEF Open
  <2> QED BY <1>1, <2>1, <2>2, <2>3 DEF typingTab, TabsOK, ReadOK
<1>7. CASE Close(u) \/ Hide(u)
  <2>1. left' \in [Spent -> Nat]
    BY <1>1, <1>7, SpendLeft DEF Close, Hide, Spent
  <2>2. look' \in [Users -> {"open", "hidden", "away"}] /\ typing' \in [Users -> BOOLEAN]
    BY <1>1, <1>7 DEF Close, Hide, typingTab, TabsOK
  <2>3. UNCHANGED <<cache, queries, receiptTab, shown, expiry>>
    BY <1>7 DEF Close, Hide, typingTab
  <2> QED BY <1>1, <2>1, <2>2, <2>3 DEF queries, receiptTab, TabsOK, ReadOK
<1>8. CASE Return(u)
  <2>1. /\ look' \in [Users -> {"open", "hidden", "away"}]
        /\ asking' \in [Users -> {"no", "asked", "answered"}]
        /\ fetching' \in [Users -> {"no", "asked", "listed", "loaded"}]
    BY <1>1, <1>8 DEF Return, Fetch, TabsOK
  <2>2. UNCHANGED <<cache, page, list, answer, receiptTab, typingTab, left>>
    BY <1>8 DEF Return
  <2> QED BY <1>1, <2>1, <2>2 DEF receiptTab, typingTab, TabsOK, ReadOK
<1> QED BY <1>3, <1>4, <1>5, <1>6, <1>7, <1>8 DEF UserStep

LEMMA OwnTabs ==
  ASSUME Typed, Fresh, NEW u \in Users, TabStep(u)
  PROVE  TabsOK' /\ ReadOK'
<1>1. TabsOK /\ ReadOK
  BY DEF Typed
<1>2. CASE StopTyping(u)
  BY <1>1, <1>2 DEF StopTyping, queries, receiptTab, TabsOK, ReadOK
<1>3. CASE MarkLatest(u)
  <2>1. Latest(u) \in Message
    BY <1>3, Bounded DEF MarkLatest
  <2>2. marked' \in [Users -> Message \cup {NoMessage}]
    BY <1>1, <1>3, <2>1 DEF MarkLatest, ReadOK
  <2>3. UNCHANGED <<look, cache, queries, lastRead, typingTab, left>>
    BY <1>3 DEF MarkLatest
  <2> QED BY <1>1, <2>2, <2>3 DEF queries, typingTab, TabsOK, ReadOK
<1>4. CASE \E w \in Users : Expire(u, w)
  <2>1. /\ shown' \in [Users -> SUBSET Users] /\ expiry' \in [Users -> SUBSET Users]
        /\ UNCHANGED <<look, cache, queries, receiptTab, typing, left>>
    BY <1>1, <1>4 DEF Expire, TabsOK
  <2> QED BY <1>1, <2>1 DEF queries, receiptTab, TabsOK, ReadOK
<1>5. CASE ShowMessages(u)
  <2>1. /\ fetching' \in [Users -> {"no", "asked", "listed", "loaded"}]
        /\ cache' \in [Users -> SUBSET Copy] /\ page' \in [Users -> SUBSET Copy]
        /\ UNCHANGED <<look, list, asking, answer, receiptTab, typingTab, left>>
    BY <1>1, <1>5 DEF ShowMessages, TabsOK
  <2> QED BY <1>1, <2>1 DEF receiptTab, typingTab, TabsOK, ReadOK
<1>6. CASE ShowList(u)
  <2>1. /\ asking' \in [Users -> {"no", "asked", "answered"}] /\ list' \in [Users -> Nat]
        /\ UNCHANGED <<look, cache, fetching, page, answer, receiptTab, typingTab, left>>
    BY <1>1, <1>6 DEF ShowList, TabsOK
  <2> QED BY <1>1, <2>1 DEF receiptTab, typingTab, TabsOK, ReadOK
<1>7. CASE Drop(u)
  <2>1. left' \in [Spent -> Nat] /\ UNCHANGED <<look, cache, queries, receiptTab, typingTab>>
    BY <1>1, <1>7, SpendLeft DEF Drop, Spent
  <2> QED BY <1>1, <2>1 DEF queries, receiptTab, typingTab, TabsOK, ReadOK
<1>8. CASE Reconnect(u)
  BY <1>1, <1>8 DEF Reconnect, queries, receiptTab, typingTab, TabsOK, ReadOK
<1> QED BY <1>2, <1>3, <1>4, <1>5, <1>6, <1>7, <1>8 DEF TabStep

LEMMA OnErrorIs ==
  ASSUME TabsOK, NEW j \in Jobs, NEW error, OnError(j, error)
  PROVE  /\ fetching' \in [Users -> {"no", "asked", "listed", "loaded"}]
         /\ \A u \in Users \ {j.by} : fetching'[u] = fetching[u]
         /\ fetching'[j.by] =
              IF /\ j.op \in {"react", "unreact"} \/ (j.op = "edit" /\ error = "conflict")
                 /\ look[j.by] # "away"
                THEN "asked" ELSE fetching[j.by]
<1>1. j.by \in Users /\ fetching \in [Users -> {"no", "asked", "listed", "loaded"}]
  BY DEF Jobs, TabsOK
<1> QED BY <1>1 DEF OnError, Refetch

LEMMA TakeInIs ==
  ASSUME TabsOK, NEW j \in Jobs, NEW u \in Users, j.op \in About => j.arg \in Message, TakeIn(u, j)
  PROVE  /\ cache' \in [Users -> SUBSET Copy]
         /\ cache'[u] = Applied(cache[u], j) /\ \A w \in Users \ {u} : cache'[w] = cache[w]
<1>1. Applied(cache[u], j) \in SUBSET Copy /\ cache \in [Users -> SUBSET Copy]
  BY CacheIs, AppliedIs DEF TabsOK
<1> QED BY <1>1 DEF TakeIn

LEMMA HearIs ==
  ASSUME TabsOK, ReadOK, NEW j \in Jobs, NEW u \in Users, j.op \in About => j.arg \in Message,
         Hear(u, j)
  PROVE  /\ lastRead' \in [Users -> [Users -> Message \cup {NoMessage}]]
         /\ shown' \in [Users -> SUBSET Users] /\ expiry' \in [Users -> SUBSET Users]
         /\ asking' \in [Users -> {"no", "asked", "answered"}]
         /\ \A w \in Users : lastRead'[u][w] = IF j.op = "read" /\ w = j.by THEN j.arg ELSE lastRead[u][w]
         /\ \A x \in Users \ {u} : lastRead'[x] = lastRead[x] /\ shown'[x] = shown[x] /\ asking'[x] = asking[x]
         /\ shown'[u] = IF j.op = "start" THEN shown[u] \cup {j.by}
                        ELSE IF j.op = "stop" THEN shown[u] \ {j.by} ELSE shown[u]
         /\ asking'[u] = IF j.op \in {"create", "delete", "read"} THEN "asked" ELSE asking[u]
<1>1. j.by \in Users /\ (j.op = "read" => j.arg \in Message)
  BY DEF Jobs, About
<1>2. /\ lastRead' \in [Users -> [Users -> Message \cup {NoMessage}]]
      /\ \A w \in Users : lastRead'[u][w] = IF j.op = "read" /\ w = j.by THEN j.arg ELSE lastRead[u][w]
      /\ \A x \in Users \ {u} : lastRead'[x] = lastRead[x]
  <2>1. CASE j.op = "read"
    <3>1. lastRead' = [lastRead EXCEPT ![u] = [lastRead[u] EXCEPT ![j.by] = j.arg]]
      BY <2>1 DEF Hear
    <3>2. lastRead[u] \in [Users -> Message \cup {NoMessage}]
      BY DEF ReadOK
    <3>3. [lastRead[u] EXCEPT ![j.by] = j.arg] \in [Users -> Message \cup {NoMessage}]
      BY <1>1, <2>1, <3>2
    <3> QED BY <1>1, <2>1, <3>1, <3>2, <3>3 DEF ReadOK
  <2>2. CASE j.op # "read"
    BY <2>2 DEF Hear, ReadOK
  <2> QED BY <2>1, <2>2
<1>3. /\ shown' \in [Users -> SUBSET Users] /\ expiry' \in [Users -> SUBSET Users]
      /\ shown'[u] = IF j.op = "start" THEN shown[u] \cup {j.by}
                     ELSE IF j.op = "stop" THEN shown[u] \ {j.by} ELSE shown[u]
      /\ \A x \in Users \ {u} : shown'[x] = shown[x]
  <2> DEFINE Apply(users) == IF j.op = "start" THEN users \cup {j.by}
                             ELSE IF j.op = "stop" THEN users \ {j.by} ELSE users
  <2>1. shown' = [shown EXCEPT ![u] = Apply(shown[u])] /\ expiry' = [expiry EXCEPT ![u] = Apply(expiry[u])]
    BY DEF Hear, SetTyping
  <2>2. shown \in [Users -> SUBSET Users] /\ expiry \in [Users -> SUBSET Users]
    BY DEF TabsOK
  <2>3. Apply(shown[u]) \in SUBSET Users /\ Apply(expiry[u]) \in SUBSET Users
    BY <1>1, <2>2
  <2>4. shown'[u] = Apply(shown[u])
    BY <2>1, <2>2
  <2>5. /\ shown' \in [Users -> SUBSET Users] /\ expiry' \in [Users -> SUBSET Users]
        /\ \A x \in Users \ {u} : shown'[x] = shown[x]
    <3> HIDE DEF Apply
    <3> QED BY <2>1, <2>2, <2>3
  <2> QED BY <2>4, <2>5
<1>4. /\ asking' \in [Users -> {"no", "asked", "answered"}]
      /\ asking'[u] = IF j.op \in {"create", "delete", "read"} THEN "asked" ELSE asking[u]
      /\ \A x \in Users \ {u} : asking'[x] = asking[x]
  BY DEF Hear, InvalidateList, TabsOK
<1> QED BY <1>2, <1>3, <1>4

LEMMA ServerTabs ==
  ASSUME Typed, ServerStep
  PROVE  TabsOK' /\ ReadOK'
<1>1. TabsOK /\ ReadOK /\ TablesOK
  BY DEF Typed
<1>2. ASSUME NEW j \in jobs PROVE j \in Jobs /\ (j.op \in About => j.arg \in Message)
  BY DEF Typed, JobsOK
<1>3. ASSUME NEW j \in jobs, Carry(j) \/ Fail(j) PROVE TabsOK' /\ ReadOK'
  <2>1. fetching' \in [Users -> {"no", "asked", "listed", "loaded"}]
    BY <1>1, <1>2, <1>3, OnErrorIs DEF Carry, Fail, TabsOK
  <2>2. left' \in [Spent -> Nat]
    BY <1>1, <1>3, SpendLeft DEF Carry, Fail, Spent, TabsOK
  <2>3. UNCHANGED <<look, cache, page, list, asking, answer, receiptTab, typingTab>>
    BY <1>3 DEF Carry, Fail
  <2> QED BY <1>1, <2>1, <2>2, <2>3 DEF receiptTab, typingTab, TabsOK, ReadOK
<1>4. ASSUME NEW j \in jobs, Address(j) PROVE TabsOK' /\ ReadOK'
  <2>1. UNCHANGED <<look, cache, queries, receiptTab, typingTab, left>>
    BY <1>4 DEF Address
  <2> QED BY <1>1, <2>1 DEF queries, receiptTab, typingTab, TabsOK, ReadOK
<1>5. ASSUME NEW j \in jobs, Finish(j) PROVE TabsOK' /\ ReadOK'
  <2>1. cache' \in [Users -> SUBSET Copy]
    <3>1. j.by \in Users
      BY <1>2 DEF Jobs
    <3>2. CASE TakeIn(j.by, j)
      BY <1>1, <1>2, <3>1, <3>2, TakeInIs
    <3>3. CASE cache' = cache
      BY <1>1, <3>3 DEF TabsOK
    <3> QED BY <1>5, <3>2, <3>3 DEF Finish
  <2>2. asking' \in [Users -> {"no", "asked", "answered"}]
    BY <1>1, <1>5 DEF Finish, InvalidateList, TabsOK
  <2>3. UNCHANGED <<look, fetching, page, list, answer, receiptTab, typingTab, left>>
    BY <1>5 DEF Finish
  <2> QED BY <1>1, <2>1, <2>2, <2>3 DEF receiptTab, typingTab, TabsOK, ReadOK
<1>8. ASSUME NEW j \in jobs, TellNobody(j) \/ GiveUp(j) PROVE TabsOK' /\ ReadOK'
  <2>1. left' \in [Spent -> Nat]
    BY <1>1, <1>8, SpendLeft DEF TellNobody, GiveUp, Spent
  <2>2. UNCHANGED <<look, cache, queries, receiptTab, typingTab>>
    BY <1>8 DEF TellNobody, GiveUp
  <2> QED BY <1>1, <2>1, <2>2 DEF queries, receiptTab, typingTab, TabsOK, ReadOK
<1>9. ASSUME NEW j \in jobs, NEW u \in Users, Tell(j, u), line[u] = 0 PROVE TabsOK' /\ ReadOK'
  <2>1. UNCHANGED <<look, cache, fetching, page, list, asking, answer, marked, lastRead, typing,
                    shown, expiry, left>>
    BY <1>9 DEF Tell
  <2> QED BY <1>1, <2>1 DEF TabsOK, ReadOK
<1>6. ASSUME NEW j \in jobs, NEW u \in Users, Tell(j, u), line[u] # 0 PROVE TabsOK' /\ ReadOK'
  <2>1. Hear(u, j) /\ TakeIn(u, j)
    BY <1>6 DEF Tell, Hear
  <2>2. cache' \in [Users -> SUBSET Copy]
    BY <1>1, <1>2, <2>1, TakeInIs
  <2>3. /\ lastRead' \in [Users -> [Users -> Message \cup {NoMessage}]]
        /\ shown' \in [Users -> SUBSET Users] /\ expiry' \in [Users -> SUBSET Users]
        /\ asking' \in [Users -> {"no", "asked", "answered"}]
    BY <1>1, <1>2, <2>1, HearIs
  <2>4. UNCHANGED <<look, fetching, page, list, answer, marked, typing, left>>
    BY <1>6 DEF Tell
  <2> QED BY <1>1, <2>2, <2>3, <2>4 DEF TabsOK, ReadOK
<1>7. ASSUME NEW u \in Users, ListMessages(u) \/ AttachReactions(u) \/ ListConversations(u)
      PROVE  TabsOK' /\ ReadOK'
  <2>1. CASE ListMessages(u)
    <3>1. {[r EXCEPT !.reacted = {}] : r \in rows} \subseteq Copy
      <4>1. \A r \in rows : [r EXCEPT !.reacted = {}] \in Copy
        BY <1>1 DEF TablesOK, Copy
      <4> QED BY <4>1
    <3>2. /\ page' \in [Users -> SUBSET Copy]
          /\ fetching' \in [Users -> {"no", "asked", "listed", "loaded"}]
      BY <1>1, <2>1, <3>1 DEF ListMessages, TabsOK
    <3>3. UNCHANGED <<look, cache, list, asking, answer, receiptTab, typingTab, left>>
      BY <2>1 DEF ListMessages
    <3> QED BY <1>1, <3>2, <3>3 DEF receiptTab, typingTab, TabsOK, ReadOK
  <2>2. CASE AttachReactions(u)
    <3>1. {[c EXCEPT !.reacted = UNION {r.reacted : r \in RowOf(c.m)}] : c \in page[u]} \subseteq Copy
      <4>1. ASSUME NEW c \in page[u]
            PROVE  [c EXCEPT !.reacted = UNION {r.reacted : r \in RowOf(c.m)}] \in Copy
        <5>1. PICK all \in SUBSET Users : all = UNION {r.reacted : r \in RowOf(c.m)}
          BY <1>1, RowsOf
        <5>2. c \in Copy
          BY <1>1, CacheIs
        <5>3. [c EXCEPT !.reacted = all] \in Copy
          BY <5>2 DEF Copy
        <5> QED BY <5>1, <5>3
      <4> QED BY <4>1
    <3>2. page' = [page EXCEPT ![u] =
             {[c EXCEPT !.reacted = UNION {r.reacted : r \in RowOf(c.m)}] : c \in page[u]}]
      BY <2>2 DEF AttachReactions
    <3>3. /\ page' \in [Users -> SUBSET Copy]
          /\ fetching' \in [Users -> {"no", "asked", "listed", "loaded"}]
      BY <1>1, <2>2, <3>1, <3>2 DEF AttachReactions, TabsOK
    <3>4. UNCHANGED <<look, cache, list, asking, answer, receiptTab, typingTab, left>>
      BY <2>2 DEF AttachReactions
    <3> QED BY <1>1, <3>3, <3>4 DEF receiptTab, typingTab, TabsOK, ReadOK
  <2>3. CASE ListConversations(u)
    <3>1. /\ answer' \in [Users -> Nat] /\ asking' \in [Users -> {"no", "asked", "answered"}]
      BY <1>1, <2>3, UnreadIs DEF ListConversations, TabsOK
    <3>2. UNCHANGED <<look, cache, fetching, page, list, receiptTab, typingTab, left>>
      BY <2>3 DEF ListConversations
    <3> QED BY <1>1, <3>1, <3>2 DEF receiptTab, typingTab, TabsOK, ReadOK
  <2> QED BY <1>7, <2>1, <2>2, <2>3
<1> QED BY <1>3, <1>4, <1>5, <1>6, <1>7, <1>8, <1>9 DEF ServerStep

(* Who is no member has nothing, and nothing is done for it.                *)
LEMMA StrangersServer ==
  ASSUME Typed, ServerStep
  PROVE  Strangers'
<1> SUFFICES ASSUME NEW x \in Users \ members'
             PROVE /\ cache'[x] = {} /\ fetching'[x] = "no" /\ look'[x] = "away" /\ x \in behind'
                   /\ ~typing'[x]
  BY DEF Strangers
<1>1. ASSUME x \in Users \ members
      PROVE  cache[x] = {} /\ fetching[x] = "no" /\ look[x] = "away" /\ x \in behind /\ ~typing[x]
  BY <1>1 DEF Typed, Strangers
<1>2. TabsOK /\ ReadOK
  BY DEF Typed
<1>3. ASSUME NEW j \in jobs
      PROVE  j \in Jobs /\ (j.op \in About => j.arg \in Message) /\ j.by \in members /\ j.todo \subseteq members
  BY DEF Typed, JobsOK
<1>4. ASSUME NEW j \in jobs, Carry(j) \/ Fail(j) PROVE
                      /\ cache'[x] = {} /\ fetching'[x] = "no" /\ look'[x] = "away" /\ x \in behind'
                      /\ ~typing'[x]
  <2>1. x \notin members
    <3>1. members \subseteq members'
      BY <1>4 DEF Carry, Fail, Written, tables
    <3> QED BY <3>1
  <2>2. UNCHANGED <<look, cache, typing>> /\ behind \subseteq behind'
    BY <1>4 DEF Carry, Fail, Miss, typingTab
  <2>3. fetching'[x] = fetching[x]
    BY <1>2, <1>3, <1>4, <2>1, OnErrorIs DEF Carry, Fail
  <2> QED BY <1>1, <2>1, <2>2, <2>3
<1>5. ASSUME NEW j \in jobs, Address(j) PROVE
                      /\ cache'[x] = {} /\ fetching'[x] = "no" /\ look'[x] = "away" /\ x \in behind'
                      /\ ~typing'[x]
  BY <1>1, <1>5 DEF Address, tables, queries, typingTab, history, views
<1>10. ASSUME NEW j \in jobs, TellNobody(j) \/ GiveUp(j) PROVE
                      /\ cache'[x] = {} /\ fetching'[x] = "no" /\ look'[x] = "away" /\ x \in behind'
                      /\ ~typing'[x]
  <2>1. UNCHANGED <<members, look, cache, fetching, typing>> /\ behind \subseteq behind'
    BY <1>10 DEF TellNobody, GiveUp, Miss, tables, queries, typingTab, views
  <2> QED BY <1>1, <2>1
<1>6. ASSUME NEW j \in jobs, NEW u \in members,
             TakeIn(u, j) \/ (cache' = cache /\ behind \subseteq behind'),
             UNCHANGED <<tables, look, fetching, typing>>
      PROVE
                      /\ cache'[x] = {} /\ fetching'[x] = "no" /\ look'[x] = "away" /\ x \in behind'
                      /\ ~typing'[x]
  <2>1. x \notin members /\ u \in Users
    BY <1>6 DEF tables, Typed, TablesOK
  <2>2. cache'[x] = cache[x] /\ behind \subseteq behind'
    BY <1>2, <1>6, <2>1 DEF TakeIn, TabsOK
  <2> QED BY <1>1, <1>6, <2>1, <2>2
<1>7. ASSUME NEW j \in jobs, Finish(j) PROVE
                      /\ cache'[x] = {} /\ fetching'[x] = "no" /\ look'[x] = "away" /\ x \in behind'
                      /\ ~typing'[x]
  BY <1>3, <1>6, <1>7 DEF Finish, typingTab
<1>8. ASSUME NEW j \in jobs, NEW u \in Users, Tell(j, u) PROVE
                      /\ cache'[x] = {} /\ fetching'[x] = "no" /\ look'[x] = "away" /\ x \in behind'
                      /\ ~typing'[x]
  BY <1>3, <1>6, <1>8 DEF Tell, Hear, Miss
<1>9. ASSUME NEW u \in Users, ListMessages(u) \/ AttachReactions(u) \/ ListConversations(u)
      PROVE
                      /\ cache'[x] = {} /\ fetching'[x] = "no" /\ look'[x] = "away" /\ x \in behind'
                      /\ ~typing'[x]
  <2>1. UNCHANGED <<tables, look, cache, typing, behind>>
    BY <1>9 DEF ListMessages, AttachReactions, ListConversations, typingTab, history, views
  <2>2. x \notin members
    BY <2>1 DEF tables
  <2>3. fetching'[x] = fetching[x]
    BY <1>1, <1>2, <1>9, <2>2 DEF ListMessages, AttachReactions, ListConversations, TabsOK
  <2> QED BY <1>1, <2>1, <2>2, <2>3
<1> QED BY <1>4, <1>5, <1>7, <1>8, <1>9, <1>10 DEF ServerStep

LEMMA StrangersTab ==
  ASSUME Typed, NEW u \in Users, UserStep(u) \/ TabStep(u)
  PROVE  Strangers'
<1> SUFFICES ASSUME NEW x \in Users \ members'
             PROVE /\ cache'[x] = {} /\ fetching'[x] = "no" /\ look'[x] = "away" /\ x \in behind'
                   /\ ~typing'[x]
  BY DEF Strangers
<1>1. UNCHANGED tables
  BY DEF UserStep, TabStep, Send, Edit, Delete, Toggle, Type, Invite, Open, Close, Hide, Return,
         StopTyping, MarkLatest, Expire, Drop, Reconnect, ShowMessages, ShowList
<1>2. x \in Users \ members
  BY <1>1 DEF tables
<1>3. cache[x] = {} /\ fetching[x] = "no" /\ look[x] = "away" /\ x \in behind /\ ~typing[x]
  BY <1>2 DEF Typed, Strangers
<1>4. TabsOK
  BY DEF Typed
<1>5. CASE Send(u) \/ Type(u)
  <2>1. x # u
    BY <1>3, <1>5 DEF Send, Type
  <2> QED BY <1>3, <1>4, <1>5, <2>1 DEF Send, Type, queries, views, TabsOK
<1>6. CASE Edit(u) \/ Delete(u) \/ \E w \in Users : Invite(u, w)
  BY <1>3, <1>6 DEF Edit, Delete, Invite, queries, typingTab, history, views
<1>7. CASE Toggle(u)
  <2>1. x # u
    BY <1>3, <1>7 DEF Toggle
  <2>2. cache'[x] = cache[x]
    BY <1>4, <1>7, <2>1 DEF Toggle, TabsOK
  <2>3. UNCHANGED <<look, fetching, typing, behind>>
    BY <1>7 DEF Toggle, queries, typingTab
  <2> QED BY <1>3, <2>2, <2>3
<1>8. CASE Open(u)
  <2>1. x # u
    BY <1>2, <1>8 DEF Open
  <2> QED BY <1>3, <1>4, <1>8, <2>1 DEF Open, Fetch, typingTab, history, views, TabsOK
<1>9. CASE Close(u) \/ Hide(u)
  <2>1. x # u
    BY <1>3, <1>9 DEF Close, Hide
  <2> QED BY <1>3, <1>4, <1>9, <2>1 DEF Close, Hide, queries, typingTab, history, views, TabsOK
<1>10. CASE Return(u)
  <2>1. x # u
    BY <1>3, <1>10 DEF Return
  <2> QED BY <1>3, <1>4, <1>10, <2>1 DEF Return, Fetch, typingTab, history, views, TabsOK
<1>11. CASE StopTyping(u)
  <2>1. x # u
    BY <1>3, <1>11 DEF StopTyping
  <2> QED BY <1>3, <1>4, <1>11, <2>1 DEF StopTyping, queries, history, views, TabsOK
<1>12. CASE MarkLatest(u) \/ (\E w \in Users : Expire(u, w)) \/ ShowList(u)
  BY <1>3, <1>12 DEF MarkLatest, Expire, ShowList, queries, typingTab, history, views
<1>14. CASE Drop(u) \/ Reconnect(u)
  BY <1>3, <1>14 DEF Drop, Reconnect, queries, typingTab, history, views
<1>13. CASE ShowMessages(u)
  <2>1. x # u
    BY <1>3, <1>13 DEF ShowMessages
  <2> QED BY <1>3, <1>4, <1>13, <2>1 DEF ShowMessages, typingTab, TabsOK
<1> QED BY <1>5, <1>6, <1>7, <1>8, <1>9, <1>10, <1>11, <1>12, <1>13, <1>14 DEF UserStep, TabStep

LEMMA InitTyped == Init => Typed
<1> SUFFICES ASSUME Init PROVE Typed
  OBVIOUS
<1>1. First \in Message /\ First.from \in Founders /\ Founders \subseteq Users
  BY FirstMessage, SignalsAssumption
<1>2. PICK scene \in Scenes : Begins(scene)
  BY DEF Init
<1>3. scene.open \subseteq Founders /\ scene.left \in [Spent -> Nat]
  BY SignalsAssumption
<1>4. JobsOK
  BY DEF Init, JobsOK
<1>5. TablesOK
  <2>1. rows = {Row(First)} /\ members = Founders
    BY DEF Init
  <2>2. Row(First) \in Copy /\ IsFiniteSet(rows)
    BY <1>1, <2>1, RowIs, FS_Singleton
  <2>3. receipts \subseteq Message \X Users
    BY <1>1, <1>2, <1>3 DEF Begins
  <2> QED BY <1>1, <2>1, <2>2, <2>3 DEF TablesOK
<1>6. /\ look \in [Users -> {"open", "hidden", "away"}]
      /\ left \in [Spent -> Nat]
      /\ \A u \in Users \ Founders : look[u] = "away"
  BY <1>2, <1>3 DEF Begins
<1>7. cache \in [Users -> SUBSET Copy] /\ page \in [Users -> SUBSET Copy] /\ list \in [Users -> Nat]
  <2>1. rows \in SUBSET Copy
    BY <1>5 DEF TablesOK
  <2>2. \A u : Unread(u) \in Nat
    BY <1>5, UnreadIs
  <2>3. /\ cache = [u \in Users |-> IF u \in Founders THEN rows ELSE {}]
        /\ page = [u \in Users |-> {}]
        /\ list = [u \in Users |-> IF u \in Founders THEN Unread(u) ELSE 0]
    BY DEF Init
  <2> HIDE DEF Init
  <2> QED BY <2>1, <2>2, <2>3
<1>8. TabsOK
  <2>1. /\ fetching \in [Users -> {"no", "asked", "listed", "loaded"}]
        /\ answer \in [Users -> Nat] /\ asking \in [Users -> {"no", "asked", "answered"}]
        /\ typing \in [Users -> BOOLEAN]
        /\ shown \in [Users -> SUBSET Users] /\ expiry \in [Users -> SUBSET Users]
    BY DEF Init
  <2> QED BY <1>6, <1>7, <2>1 DEF TabsOK
<1>9. ReadOK
  BY <1>1, <1>2 DEF Begins, ReadOK
<1>10. Strangers
  <2>1. \A u \in Users \ Founders : cache[u] = {} /\ fetching[u] = "no" /\ u \in behind /\ ~typing[u]
    BY DEF Init
  <2>2. members = Founders
    BY DEF Init
  <2> QED BY <1>6, <2>1, <2>2 DEF Strangers
<1>11. LinesOK
  BY DEF Init, LinesOK
<1> QED BY <1>4, <1>5, <1>8, <1>9, <1>10, <1>11 DEF Typed

LEMMA QueryTables ==
  ASSUME Typed, NEW u \in Users, ListMessages(u) \/ AttachReactions(u) \/ ListConversations(u)
  PROVE  JobsOK' /\ TablesOK' /\ LinesOK' /\ UNCHANGED <<tables, jobs, count, line>>
<1>1. UNCHANGED <<tables, jobs, count, line>>
  BY DEF ListMessages, AttachReactions, ListConversations
<1> QED BY <1>1 DEF Typed, tables, JobsOK, TablesOK, LinesOK

(* What a step of the server does to the jobs.                              *)
Same(k, j) == k.n = j.n /\ k.op = j.op /\ k.by = j.by /\ k.arg = j.arg /\ k.line = j.line
LEMMA CarryStep ==
  ASSUME Typed, NEW j \in jobs, Carry(j)
  PROVE  /\ count' = count /\ j.stage = "asked" /\ j.todo = {} /\ j \in Jobs /\ Turn(j)
         /\ Allowed(j) => /\ Written(j)
                          /\ \E k \in Jobs : /\ Change(j, k) /\ Same(k, j)
                                             /\ k.stage = "written" /\ k.todo = {}
         /\ ~Allowed(j) => jobs' = jobs \ {j} /\ OnError(j, "conflict") /\ UNCHANGED <<tables, untold>>
<1>1. /\ count' = count /\ j.stage = "asked" /\ j.todo = {} /\ j \in Jobs /\ Turn(j)
      /\ ~Allowed(j) => jobs' = jobs \ {j} /\ OnError(j, "conflict") /\ UNCHANGED <<tables, untold>>
  BY DEF Carry, Typed, JobsOK
<1>2. ASSUME Allowed(j)
      PROVE  Written(j) /\ \E k \in Jobs : /\ Change(j, k) /\ Same(k, j)
                                           /\ k.stage = "written" /\ k.todo = {}
  <2> PICK k \in {[j EXCEPT !.stage = "written",
                            !.version = IF j.op = "edit" THEN @ + 1 ELSE @]} : TRUE
    OBVIOUS
  <2>1. Written(j) /\ Change(j, k)
    BY <1>2 DEF Carry
  <2>2. /\ k \in Jobs /\ k.stage = "written" /\ k.todo = j.todo
        /\ k.n = j.n /\ k.op = j.op /\ k.by = j.by /\ k.arg = j.arg /\ k.line = j.line
    BY <1>1, CarriedIs
  <2> QED BY <1>1, <2>1, <2>2 DEF Same
<1> QED BY <1>1, <1>2

LEMMA TellStep ==
  ASSUME Typed, NEW j \in jobs, NEW u \in Users, Tell(j, u)
  PROVE  /\ count' = count /\ u \in j.todo /\ u \in members /\ j.stage = "telling" /\ j \in Jobs
         /\ line[u] # 0 => Hear(u, j) /\ TakeIn(u, j) /\ UNCHANGED <<untold, dropped>>
         /\ line[u] = 0 => Miss(j, {u}) /\ UNCHANGED <<cache, asking, lastRead, shown>>
         /\ \E k \in Jobs : /\ Change(j, k) /\ Same(k, j) /\ k.stage = "telling"
                            /\ k.todo = j.todo \ {u}
<1>1. /\ count' = count /\ u \in j.todo /\ u \in members /\ j.stage = "telling" /\ j \in Jobs
      /\ line[u] # 0 => Hear(u, j) /\ TakeIn(u, j) /\ UNCHANGED <<untold, dropped>>
      /\ line[u] = 0 => Miss(j, {u}) /\ UNCHANGED <<cache, asking, lastRead, shown>>
  BY DEF Tell, Hear, Typed, JobsOK
<1> PICK k \in {[j EXCEPT !.todo = @ \ {u}]} : TRUE
  OBVIOUS
<1>2. Change(j, k)
  BY DEF Tell
<1>3. /\ k \in Jobs /\ k.todo = j.todo \ {u} /\ k.stage = j.stage /\ Same(k, j)
  BY <1>1, ToldIs DEF Same
<1> QED BY <1>1, <1>2, <1>3

LEMMA Moves ==
  ASSUME Typed, NEW j \in jobs, Handled(j)
  PROVE  /\ count' = count
         /\ \/ jobs' = jobs \ {j}
            \/ \E k \in Jobs : Change(j, k) /\ Same(k, j) /\ k.stage # "asked"
<1>1. j \in Jobs /\ members \subseteq Users
  BY DEF Typed, JobsOK, TablesOK
<1>2. CASE Carry(j)
  BY <1>2, CarryStep
<1>3. CASE Address(j)
  <2>1. count' = count
    BY <1>3 DEF Address
  <2> QED BY <1>1, <1>3, <2>1, AddressStep DEF Same
<1>4. CASE Finish(j) \/ Fail(j) \/ GiveUp(j)
  BY <1>4 DEF Finish, Fail, GiveUp
<1>6. CASE TellNobody(j)
  <2>1. count' = count
    BY <1>6 DEF TellNobody
  <2> QED BY <1>1, <1>6, <2>1, MuteStep DEF Same
<1>5. ASSUME NEW u \in Users, Tell(j, u)
      PROVE  count' = count /\ \E k \in Jobs : Change(j, k) /\ Same(k, j) /\ k.stage # "asked"
  BY <1>5, TellStep
<1> QED BY <1>2, <1>3, <1>4, <1>5, <1>6 DEF Handled

LEMMA LinesServer ==
  ASSUME Typed, NEW j \in jobs, Handled(j)
  PROVE  LinesOK'
<1>1. line' = line
  BY DEF Handled, Carry, Address, TellNobody, Finish, Fail, GiveUp, Tell
<1>2. count' = count /\ \A k \in jobs' : \E i \in jobs : k.line = i.line
  BY Moves DEF Change, Same
<1> QED BY <1>1, <1>2 DEF Typed, LinesOK

LEMMA TypedInductive == Typed /\ Fresh /\ [Next]_vars => Typed'
<1> SUFFICES ASSUME Typed, Fresh, [Next]_vars PROVE Typed'
  OBVIOUS
<1>1. CASE ServerStep
  <2>1. JobsOK' /\ TablesOK' /\ LinesOK'
    BY <1>1, ServerJobs, LinesServer, QueryTables DEF ServerStep, Handled
  <2> QED BY <1>1, <2>1, ServerTabs, StrangersServer DEF Typed
<1>2. ASSUME NEW u \in Users, UserStep(u) \/ TabStep(u) PROVE Typed'
  <2>1. TabsOK' /\ ReadOK'
    BY <1>2, UserTabs, OwnTabs
  <2>2. JobsOK' /\ TablesOK' /\ Strangers' /\ LinesOK'
    BY <1>2, TabJobs, StrangersTab, LinesTab
  <2> QED BY <2>1, <2>2 DEF Typed
<1>3. CASE UNCHANGED vars
  <2>1. JobsOK' /\ TablesOK' /\ LinesOK'
    BY <1>3 DEF Typed, vars, tables, JobsOK, TablesOK, LinesOK
  <2>2. TabsOK' /\ ReadOK' /\ Strangers'
    BY <1>3 DEF Typed, vars, tables, queries, receiptTab, typingTab, history, views, TabsOK, ReadOK,
       Strangers
  <2> QED BY <2>1, <2>2 DEF Typed
<1> QED BY <1>1, <1>2, <1>3 DEF Next

(* What is made stays made.                                                 *)
LEMMA MadeStays ==
  ASSUME count \in Nat, count' \in Nat, count <= count',
         \A j \in jobs' : j.op = "create" /\ j.stage = "asked" => j \in jobs \/ j.arg.at > count,
         NEW m \in Message, Made(m)
  PROVE  Made(m)'
BY DEF Made, Message

LEMMA MadeServer ==
  ASSUME Typed, Fresh, NEW j \in jobs, Handled(j)
  PROVE  /\ \A m \in Message : Made(m) => Made(m)'
         /\ \A i \in jobs' : i.op = "create" => i.arg.at = i.n
         /\ \A i \in jobs' :
              i.op \in About /\ ~(i.op = "create" /\ i.stage = "asked") => Made(i.arg)'
<1>1. /\ count' = count /\ count \in Nat
      /\ \/ jobs' = jobs \ {j}
         \/ \E k \in Jobs : Change(j, k) /\ Same(k, j) /\ k.stage # "asked"
  BY Moves DEF Typed, JobsOK
<1>2. \A i \in jobs' : i \in jobs \/ (Same(i, j) /\ i.stage # "asked" /\ j \notin jobs')
  <2>1. CASE jobs' = jobs \ {j}
    BY <2>1
  <2>2. ASSUME NEW k \in Jobs, Change(j, k), Same(k, j), k.stage # "asked", k # j
        PROVE  \A i \in jobs' : i \in jobs \/ (Same(i, j) /\ i.stage # "asked" /\ j \notin jobs')
    BY <2>2 DEF Change
  <2>3. CASE Change(j, j)
    BY <2>3 DEF Change
  <2> QED BY <1>1, <2>1, <2>2, <2>3
<1>3. \A i \in jobs' : i.op = "create" /\ i.stage = "asked" => i \in jobs
  BY <1>2
<1>4. ASSUME NEW m \in Message, Made(m) PROVE Made(m)'
  BY <1>1, <1>3, <1>4, MadeStays
<1>5. \A i \in jobs : i.op \in About => i.arg \in Message
  BY DEF Typed, JobsOK
<1>6. ASSUME NEW i \in jobs', i.op \in About, ~(i.op = "create" /\ i.stage = "asked")
      PROVE  Made(i.arg)'
  <2>1. CASE i \in jobs
    BY <1>4, <1>5, <1>6, <2>1 DEF Fresh
  <2>2. CASE i \notin jobs
    <3>1. Same(i, j) /\ i.stage # "asked" /\ j \notin jobs'
      BY <1>2, <2>2
    <3>2. CASE ~(j.op = "create" /\ j.stage = "asked")
      BY <1>4, <1>5, <1>6, <3>1, <3>2 DEF Fresh, Same
    <3>3. CASE j.op = "create" /\ j.stage = "asked"
      <4>1. j.arg.at = j.n /\ j.n \in 1..count
        BY <3>3 DEF Fresh, Typed, JobsOK
      <4>2. ASSUME NEW l \in jobs', l.op = "create", l.stage = "asked" PROVE l.arg # j.arg
        <5>1. l \in jobs /\ l # j
          BY <1>3, <3>1, <4>2
        <5>2. l.arg.at = l.n /\ l.n # j.n
          BY <4>2, <5>1 DEF Fresh, Typed, JobsOK
        <5> QED BY <4>1, <5>2
      <4>3. i.arg = j.arg
        BY <3>1 DEF Same
      <4> QED BY <1>1, <4>1, <4>2, <4>3 DEF Made
    <3> QED BY <3>2, <3>3
  <2> QED BY <2>1, <2>2
<1>7. \A i \in jobs' : i.op = "create" => i.arg.at = i.n
  BY <1>2 DEF Fresh, Same
<1> QED BY <1>4, <1>6, <1>7

(* The tables and the tabs hold what is made.                               *)
Held ==
  /\ \A r \in rows : Made(r.m)
  /\ \A u \in Users : /\ \A c \in cache[u] \cup page[u] : Made(c.m)
                      /\ marked[u] # NoMessage => Made(marked[u])
                      /\ \A w \in Users : lastRead[u][w] # NoMessage => Made(lastRead[u][w])

LEMMA HeldStays ==
  ASSUME Typed, Held, \A m \in Message : Made(m) => Made(m)',
         \A r \in rows' : (\E q \in rows : q.m = r.m) \/ Made(r.m)',
         \A u \in Users :
           /\ \A c \in cache'[u] \cup page'[u] :
                (\E d \in cache[u] \cup page[u] \cup rows : d.m = c.m) \/ Made(c.m)'
           /\ marked'[u] # marked[u] /\ marked'[u] # NoMessage => Made(marked[u])'
           /\ \A w \in Users : lastRead'[u][w] # lastRead[u][w] => Made(lastRead[u][w])'
  PROVE  Held'
<1>1. ASSUME NEW r \in rows' PROVE Made(r.m)'
  <2>1. \A q \in rows : q.m \in Message /\ Made(q.m)
    BY DEF Typed, TablesOK, Copy, Held
  <2>2. CASE \E q \in rows : q.m = r.m
    BY <2>1, <2>2
  <2> QED BY <2>2
<1>2. ASSUME NEW u \in Users
      PROVE  /\ \A c \in cache'[u] \cup page'[u] : Made(c.m)'
             /\ marked'[u] # NoMessage => Made(marked[u])'
             /\ \A w \in Users : lastRead'[u][w] # NoMessage => Made(lastRead[u][w])'
  <2>1. \A d \in cache[u] \cup page[u] \cup rows : d.m \in Message /\ Made(d.m)
    BY CacheIs DEF Typed, TablesOK, Copy, Held
  <2>2. ASSUME NEW c \in cache'[u] \cup page'[u] PROVE Made(c.m)'
    <3>1. CASE \E d \in cache[u] \cup page[u] \cup rows : d.m = c.m
      BY <2>1, <3>1
    <3> QED BY <3>1
  <2>3. ASSUME marked'[u] # NoMessage PROVE Made(marked[u])'
    <3>1. marked[u] \in Message \cup {NoMessage}
      BY DEF Typed, ReadOK
    <3>2. CASE marked'[u] = marked[u]
      BY <2>3, <3>1, <3>2 DEF Held
    <3> QED BY <2>3, <3>2
  <2>4. ASSUME NEW w \in Users, lastRead'[u][w] # NoMessage PROVE Made(lastRead[u][w])'
    <3>1. lastRead[u][w] \in Message \cup {NoMessage}
      BY DEF Typed, ReadOK
    <3>2. CASE lastRead'[u][w] = lastRead[u][w]
      BY <2>4, <3>1, <3>2 DEF Held
    <3> QED BY <2>4, <3>2
  <2> QED BY <2>2, <2>3, <2>4
<1> QED BY <1>1, <1>2 DEF Held

LEMMA FreshServer ==
  ASSUME Typed, Fresh, ServerStep
  PROVE  Fresh'
<1>1. Held
  BY DEF Fresh, Held
<1>2. TablesOK /\ TabsOK /\ ReadOK
  BY DEF Typed
<1>3. ASSUME NEW j \in jobs
      PROVE  /\ j \in Jobs /\ (j.op \in About => j.arg \in Message)
             /\ j.op \in About /\ ~(j.op = "create" /\ j.stage = "asked") => Made(j.arg)
  BY DEF Typed, JobsOK, Fresh
<1>4. ASSUME NEW j \in jobs, Handled(j) PROVE Fresh'
  <2>1. /\ \A m \in Message : Made(m) => Made(m)'
        /\ \A i \in jobs' : i.op = "create" => i.arg.at = i.n
        /\ \A i \in jobs' :
             i.op \in About /\ ~(i.op = "create" /\ i.stage = "asked") => Made(i.arg)'
    BY <1>4, MadeServer
  <2>2. \A r \in rows' : (\E q \in rows : q.m = r.m) \/ Made(r.m)'
    <3>1. CASE rows' = rows
      BY <3>1
    <3>2. CASE Carry(j) /\ Allowed(j)
      <4>1. PICK k \in Jobs : Written(j) /\ Change(j, k) /\ Same(k, j) /\ k.stage = "written"
        BY <3>2, CarryStep
      <4>2. \A r \in rows' : (\E q \in rows : q.m = r.m) \/ (j.op = "create" /\ r.m = j.arg)
        BY <1>2, <1>3, <4>1, WrittenIs, RowIs
      <4>3. j.op = "create" => Made(j.arg)'
        BY <2>1, <4>1 DEF Change, Same, About
      <4> QED BY <4>2, <4>3
    <3>3. CASE ~(Carry(j) /\ Allowed(j))
      <4>1. rows' = rows
        BY <1>4, <3>3 DEF Handled, Carry, Address, TellNobody, Finish, Fail, GiveUp, Tell, tables
      <4> QED BY <4>1
    <3> QED BY <3>2, <3>3
  <2>3. ASSUME NEW u \in Users, TakeIn(u, j), j.stage = "telling"
        PROVE  \A x \in Users : \A c \in cache'[x] : (\E d \in cache[x] : d.m = c.m) \/ Made(c.m)'
    <3>1. cache'[u] = Applied(cache[u], j) /\ \A w \in Users \ {u} : cache'[w] = cache[w]
      BY <1>2, <1>3, <2>3, TakeInIs
    <3>2. cache[u] \in SUBSET Copy
      BY <1>2 DEF TabsOK
    <3>3. \A c \in cache'[u] : (\E d \in cache[u] : d.m = c.m) \/ (j.op = "create" /\ c.m = j.arg)
      BY <1>3, <3>1, <3>2, AppliedIs
    <3>4. j.op = "create" => Made(j.arg)'
      BY <1>3, <2>1, <2>3 DEF About
    <3> QED BY <3>1, <3>3, <3>4
  <2>4. /\ page' = page /\ marked' = marked
        /\ \A x \in Users : \A c \in cache'[x] : (\E d \in cache[x] : d.m = c.m) \/ Made(c.m)'
    <3>1. CASE UNCHANGED <<cache, page, marked>>
      BY <3>1
    <3>2. CASE Finish(j)
      <4>1. j.by \in Users /\ j.stage = "telling" /\ UNCHANGED <<page, marked>>
        BY <1>3, <3>2 DEF Finish, Jobs, receiptTab
      <4> QED BY <2>3, <3>1, <3>2, <4>1 DEF Finish
    <3>3. CASE \E u \in Users : Tell(j, u)
      <4>1. PICK u \in Users : Tell(j, u)
        BY <3>3
      <4>2. UNCHANGED <<page, marked>>
        BY <4>1 DEF Tell
      <4> QED BY <2>3, <3>1, <4>1, <4>2, TellStep
    <3> QED BY <1>4, <3>1, <3>2, <3>3
            DEF Handled, Carry, Address, TellNobody, Fail, GiveUp, queries, receiptTab
  <2>5. \A u, w \in Users : lastRead'[u][w] # lastRead[u][w] => Made(lastRead[u][w])'
    <3>1. CASE \E u \in Users : Tell(j, u)
      <4>1. PICK u \in Users : Tell(j, u)
        BY <3>1
      <4>2. Hear(u, j) \/ lastRead' = lastRead
        BY <4>1, TellStep
      <4>3. \/ lastRead' = lastRead
            \/ /\ \A w \in Users : lastRead'[u][w] = IF j.op = "read" /\ w = j.by THEN j.arg
                                                    ELSE lastRead[u][w]
               /\ \A x \in Users \ {u} : lastRead'[x] = lastRead[x]
        BY <1>2, <1>3, <4>2, HearIs
      <4>4. j.op = "read" => Made(j.arg)'
        BY <1>3, <2>1 DEF About
      <4> QED BY <4>3, <4>4
    <3>2. CASE lastRead' = lastRead
      BY <3>2
    <3> QED BY <1>4, <3>1, <3>2
            DEF Handled, Carry, Address, TellNobody, Finish, Fail, GiveUp, receiptTab
  <2>6. Held'
    BY <1>1, <2>1, <2>2, <2>4, <2>5, HeldStays
  <2> QED BY <2>1, <2>6 DEF Held, Fresh
<1>5. ASSUME NEW u \in Users, ListMessages(u) \/ AttachReactions(u) \/ ListConversations(u)
      PROVE  Fresh'
  <2>1. UNCHANGED <<jobs, count, rows, cache, marked, lastRead>>
    BY <1>5 DEF ListMessages, AttachReactions, ListConversations, tables, receiptTab
  <2>2. \A m : Made(m)' <=> Made(m)
    BY <2>1 DEF Made
  <2>3. \A x \in Users : \A c \in page'[x] : \E d \in page[x] \cup rows : d.m = c.m
    <3>1. CASE ListMessages(u)
      <4>1. page' = [page EXCEPT ![u] = {[r EXCEPT !.reacted = {}] : r \in rows}]
        BY <3>1 DEF ListMessages
      <4>2. \A r \in rows : [r EXCEPT !.reacted = {}].m = r.m
        BY <1>2 DEF TablesOK, Copy
      <4>3. /\ page'[u] = {[r EXCEPT !.reacted = {}] : r \in rows}
            /\ \A x \in Users \ {u} : page'[x] = page[x]
        BY <1>2, <4>1 DEF TabsOK
      <4>4. \A c \in page'[u] : \E d \in rows : d.m = c.m
        BY <4>2, <4>3
      <4> QED BY <4>3, <4>4
    <3>2. CASE AttachReactions(u)
      <4> DEFINE new(c) == [c EXCEPT !.reacted = UNION {r.reacted : r \in RowOf(c.m)}]
      <4>1. page' = [page EXCEPT ![u] = {new(c) : c \in page[u]}]
        BY <3>2 DEF AttachReactions
      <4>2. \A c \in page[u] : new(c).m = c.m
        BY <1>2 DEF TabsOK, Copy
      <4> HIDE DEF new
      <4>3. page'[u] = {new(c) : c \in page[u]} /\ \A x \in Users \ {u} : page'[x] = page[x]
        BY <1>2, <4>1 DEF TabsOK
      <4>4. \A c \in page'[u] : \E d \in page[u] : d.m = c.m
        BY <4>2, <4>3
      <4> QED BY <4>3, <4>4
    <3>3. CASE ListConversations(u)
      BY <3>3 DEF ListConversations
    <3> QED BY <1>5, <3>1, <3>2, <3>3
  <2>4. Held'
    BY <1>1, <2>1, <2>2, <2>3, HeldStays
  <2> QED BY <2>1, <2>2, <2>4 DEF Held, Fresh
<1> QED BY <1>4, <1>5 DEF ServerStep, Handled

(* Jobs a tab begins: a new message has a new number.                       *)
LEMMA BeginMade ==
  ASSUME Typed, Fresh, NEW op, op # "create", NEW u, NEW arg, NEW version,
         Begin(op, u, arg, version), op \in About => arg \in Message /\ Made(arg)
  PROVE  /\ \A m \in Message : Made(m) => Made(m)'
         /\ \A i \in jobs' : i.op = "create" => i.arg.at = i.n
         /\ \A i \in jobs' :
              i.op \in About /\ ~(i.op = "create" /\ i.stage = "asked") => Made(i.arg)'
<1> PICK new \in {Job(count + 1, op, u, arg, version)} : TRUE
  OBVIOUS
<1>1. new.op = op /\ new.arg = arg
  BY DEF Job
<1>2. jobs' = jobs \cup {new} /\ count' = count + 1 /\ count \in Nat
  BY DEF Begin, Typed, JobsOK
<1>3. ASSUME NEW m \in Message, Made(m) PROVE Made(m)'
  BY <1>1, <1>2, <1>3, MadeStays
<1>4. \A i \in jobs : i.op \in About => i.arg \in Message
  BY DEF Typed, JobsOK
<1>5. ASSUME NEW i \in jobs', i.op \in About, ~(i.op = "create" /\ i.stage = "asked")
      PROVE  Made(i.arg)'
  BY <1>1, <1>2, <1>3, <1>4, <1>5 DEF Fresh
<1> QED BY <1>1, <1>2, <1>3, <1>5 DEF Fresh

LEMMA SendMade ==
  ASSUME Typed, Fresh, NEW u \in Users, Send(u)
  PROVE  /\ \A m \in Message : Made(m) => Made(m)'
         /\ \A i \in jobs' : i.op = "create" => i.arg.at = i.n
         /\ \A i \in jobs' :
              i.op \in About /\ ~(i.op = "create" /\ i.stage = "asked") => Made(i.arg)'
<1> PICK m \in {[at |-> count + 1, from |-> u]} : TRUE
  OBVIOUS
<1> PICK new \in {Job(count + 1, "create", u, m, 1)} : TRUE
  OBVIOUS
<1> PICK stop \in {Job(count + 2, "stop", u, NoMessage, 0)} : TRUE
  OBVIOUS
<1>1. /\ new.n = count + 1 /\ new.op = "create" /\ new.arg = m /\ new.stage = "asked"
      /\ m.at = count + 1 /\ stop.op = "stop"
  BY DEF Job
<1>2. /\ jobs' = jobs \cup {new} \/ jobs' = jobs \cup {new, stop}
      /\ count \in Nat /\ count' \in Nat /\ count' >= count + 1
  <2>1. \E stops \in {{stop}, {}} :
          jobs' = jobs \cup {new} \cup stops /\ count' = count + 1 + Cardinality(stops)
    BY DEF Send
  <2>2. Cardinality({}) = 0 /\ Cardinality({stop}) = 1
    BY FS_EmptySet, FS_Singleton
  <2>3. count \in Nat
    BY DEF Typed, JobsOK
  <2>4. CASE jobs' = jobs \cup {new} \cup {stop} /\ count' = count + 1 + 1
    BY <2>3, <2>4
  <2>5. CASE jobs' = jobs \cup {new} \cup {} /\ count' = count + 1 + 0
    BY <2>3, <2>5
  <2> QED BY <2>1, <2>2, <2>4, <2>5
<1>3. \A j \in jobs' : j.op = "create" /\ j.stage = "asked" => j \in jobs \/ j.arg.at > count
  BY <1>1, <1>2
<1>4. ASSUME NEW k \in Message, Made(k) PROVE Made(k)'
  BY <1>2, <1>3, <1>4, MadeStays
<1>5. \A i \in jobs : i.op \in About => i.arg \in Message
  BY DEF Typed, JobsOK
<1>6. ASSUME NEW i \in jobs', i.op \in About, ~(i.op = "create" /\ i.stage = "asked")
      PROVE  Made(i.arg)'
  <2>1. i \in jobs
    BY <1>1, <1>2, <1>6 DEF About
  <2> QED BY <1>4, <1>5, <1>6, <2>1 DEF Fresh
<1>7. \A i \in jobs' : i.op = "create" => i.arg.at = i.n
  BY <1>1, <1>2 DEF Fresh
<1> QED BY <1>4, <1>6, <1>7

LEMMA FreshTab ==
  ASSUME Typed, Fresh, NEW u \in Users, UserStep(u) \/ TabStep(u)
  PROVE  Fresh'
<1>1. Held /\ TabsOK /\ ReadOK /\ TablesOK
  BY DEF Typed, Fresh, Held
<1>2. \A c \in cache[u] : c.m \in Message /\ Made(c.m)
  BY <1>1, CacheIs DEF Fresh
<1>3. rows' = rows
  BY DEF UserStep, TabStep, Send, Edit, Delete, Toggle, Type, Invite, Open, Close, Hide, Return,
         StopTyping, MarkLatest, Expire, Drop, Reconnect, ShowMessages, ShowList, tables
<1>4. /\ \A m \in Message : Made(m) => Made(m)'
      /\ \A i \in jobs' : i.op = "create" => i.arg.at = i.n
      /\ \A i \in jobs' :
           i.op \in About /\ ~(i.op = "create" /\ i.stage = "asked") => Made(i.arg)'
  <2>1. CASE Send(u)
    BY <2>1, SendMade
  <2>2. CASE UNCHANGED <<jobs, count>>
    BY <2>2 DEF Made, Fresh
  <2>3. CASE Edit(u) \/ Delete(u)
    <3>1. \E op \in {"edit", "delete"}, c \in cache[u] : \E version : Begin(op, u, c.m, version)
      BY <2>3 DEF Edit, Delete
    <3> QED BY <1>2, <3>1, BeginMade
  <2>4. CASE Toggle(u)
    <3>1. \E op \in {"react", "unreact"}, c \in cache[u] : Begin(op, u, c.m, 0)
      BY <2>4 DEF Toggle
    <3> QED BY <1>2, <3>1, BeginMade
  <2>5. CASE MarkLatest(u)
    <3>1. Latest(u) \in Message /\ Made(Latest(u)) /\ Emit("read", u, Latest(u))
      BY <1>2, <2>5, Bounded DEF MarkLatest
    <3> QED BY <2>2, <3>1, BeginMade DEF Emit
  <2>6. CASE \E op \in {"add", "start", "stop"} : \E arg : Begin(op, u, arg, 0)
    BY <2>6, BeginMade DEF About
  <2>7. CASE Drop(u)
    <3>1. jobs' \subseteq jobs /\ count' = count
      BY <2>7 DEF Drop
    <3>2. \A m : Made(m) => Made(m)'
      BY <3>1 DEF Made
    <3> QED BY <3>1, <3>2 DEF Fresh
  <2>8. CASE Reconnect(u)
    <3>1. jobs' = jobs /\ count' = count + 1 /\ count \in Nat
      BY <2>8 DEF Reconnect, Typed, JobsOK
    <3>2. \A m \in Message : Made(m) => Made(m)'
      BY <3>1 DEF Made, Message
    <3>3. \A i \in jobs : i.op \in About => i.arg \in Message
      BY DEF Typed, JobsOK
    <3> QED BY <3>1, <3>2, <3>3 DEF Fresh
  <2> QED BY <2>1, <2>2, <2>3, <2>4, <2>5, <2>6, <2>7, <2>8
          DEF UserStep, TabStep, Type, Invite, Open, Close, Hide, Return,
              StopTyping, Expire, ShowMessages, ShowList, Emit
<1>5. \A x \in Users : \A c \in cache'[x] \cup page'[x] : \E d \in cache[x] \cup page[x] : d.m = c.m
  <2>1. CASE UNCHANGED <<cache, page>>
    BY <2>1
  <2>2. CASE Toggle(u)
    <3>1. PICK c \in cache[u] :
            cache' = [cache EXCEPT ![u] =
              Set(@, c.m, IF Reacted(u, c) THEN c.reacted \ {u} ELSE c.reacted \cup {u})]
      BY <2>2 DEF Toggle
    <3>2. PICK users \in SUBSET Users : users = IF Reacted(u, c) THEN c.reacted \ {u} ELSE c.reacted \cup {u}
      BY <1>1, CacheIs
    <3>3. cache' = [cache EXCEPT ![u] = Set(cache[u], c.m, users)]
      BY <3>1, <3>2
    <3>4. cache[u] \in SUBSET Copy
      BY <1>1, CacheIs
    <3>5. \A b \in Set(cache[u], c.m, users) : \E d \in cache[u] : b.m = d.m
      BY <3>4, SetIs
    <3>6. page' = page
      BY <2>2 DEF Toggle, queries
    <3> QED BY <1>1, <3>3, <3>5, <3>6 DEF TabsOK
  <2>3. CASE ShowMessages(u)
    <3>1. cache' = [cache EXCEPT ![u] = page[u]] /\ page' = [page EXCEPT ![u] = {}]
      BY <2>3 DEF ShowMessages
    <3> QED BY <1>1, <3>1 DEF TabsOK
  <2> QED BY <2>1, <2>2, <2>3
          DEF UserStep, TabStep, Send, Edit, Delete, Type, Invite, Open, Close, Hide, Return,
              StopTyping, MarkLatest, Expire, Drop, Reconnect, ShowList, queries
<1>6. lastRead' = lastRead
  BY DEF UserStep, TabStep, Send, Edit, Delete, Toggle, Type, Invite, Open, Close, Hide, Return,
         StopTyping, MarkLatest, Expire, Drop, Reconnect, ShowMessages, ShowList, receiptTab
<1>7. \A x \in Users : marked'[x] # marked[x] /\ marked'[x] # NoMessage => Made(marked[x])'
  <2>1. CASE marked' = marked
    BY <2>1
  <2>2. CASE Open(u)
    BY <1>1, <2>2 DEF Open, ReadOK
  <2>3. CASE MarkLatest(u)
    <3>1. Latest(u) \in Message /\ Made(Latest(u))
      BY <1>2, <2>3, Bounded DEF MarkLatest
    <3>2. marked' = [marked EXCEPT ![u] = Latest(u)]
      BY <2>3 DEF MarkLatest
    <3> QED BY <1>1, <1>4, <3>1, <3>2 DEF ReadOK
  <2> QED BY <2>1, <2>2, <2>3
          DEF UserStep, TabStep, Send, Edit, Delete, Toggle, Type, Invite, Close, Hide, Return,
              StopTyping, Expire, Drop, Reconnect, ShowMessages, ShowList, receiptTab
<1>8. Held'
  BY <1>1, <1>3, <1>4, <1>5, <1>6, <1>7, HeldStays
<1> QED BY <1>4, <1>8 DEF Held, Fresh

LEMMA InitFresh == Init => Fresh
<1> SUFFICES ASSUME Init PROVE Fresh
  OBVIOUS
<1>1. First.at = 0 /\ jobs = {} /\ count = 1
  BY FirstMessage DEF Init
<1>2. Made(First)
  BY <1>1 DEF Made
<1>3. rows = {Row(First)} /\ Row(First).m = First
  BY RowIs DEF Init
<1>4. PICK scene \in Scenes : Begins(scene)
  BY DEF Init
<1>5. ASSUME NEW u \in Users
      PROVE  /\ \A c \in cache[u] \cup page[u] : Made(c.m)
             /\ marked[u] # NoMessage => Made(marked[u])
             /\ \A w \in Users : lastRead[u][w] # NoMessage => Made(lastRead[u][w])
  <2>1. cache[u] \cup page[u] \subseteq rows
    BY DEF Init
  <2>2. marked[u] \in {First, NoMessage} /\ \A w \in Users : lastRead[u][w] \in {First, NoMessage}
    BY <1>4 DEF Begins
  <2> QED BY <1>2, <1>3, <2>1, <2>2
<1> QED BY <1>1, <1>2, <1>3, <1>5 DEF Fresh

LEMMA FreshInductive == Typed /\ Fresh /\ [Next]_vars => Fresh'
<1> SUFFICES ASSUME Typed, Fresh, UNCHANGED vars PROVE Fresh'
  BY FreshServer, FreshTab DEF Next
<1> QED BY DEF vars, tables, queries, receiptTab, Fresh, Made

(* Every variable keeps its type, whatever is sent, read and typed: no      *)
(* message is known anywhere before its row is made, and the latest one of  *)
(* a page is one of it.                                                     *)
IInv == Typed /\ Fresh

LEMMA Always == Spec => []IInv
<1>1. Init => IInv
  BY InitTyped, InitFresh DEF IInv
<1>2. IInv /\ [Next]_vars => IInv'
  BY TypedInductive, FreshInductive DEF IInv
<1> QED BY <1>1, <1>2, PTL DEF Spec

(* Every variable keeps its type, whatever is sent, read and typed.         *)
THEOREM TypeCorrect == Spec => []TypeOK
<1>1. IInv => TypeOK
  BY DEF IInv, Typed, JobsOK, TablesOK, TabsOK, ReadOK, LinesOK, TypeOK, Jobs
<1> QED BY <1>1, Always, PTL

-----------------------------------------------------------------------------
(* Typing: the last of the events that somebody has yet to be told of says  *)
(* whether the writer types; if there is none, the indicator does.          *)

LEMMA FollowedSame ==
  ASSUME NEW u, NEW w, Followed(u, w),
         \A i \in Owing(u, w) : \E l \in Owing(u, w)' : l.n = i.n /\ l.op = i.op,
         \A l \in Owing(u, w)' : \E i \in Owing(u, w) : l.n = i.n /\ l.op = i.op,
         typing'[w] <=> typing[w], (w \in shown'[u]) <=> (w \in shown[u]), expired => expired'
  PROVE  Followed(u, w)'
<1>1. ASSUME Owing(u, w)' = {}
      PROVE  (w \in shown'[u] => typing'[w]) /\ (typing'[w] /\ ~expired' => w \in shown'[u])
  <2>1. Owing(u, w) = {}
    BY <1>1
  <2> QED BY <2>1 DEF Followed
<1>2. ASSUME NEW l \in Owing(u, w)', \A k \in Owing(u, w)' : k.n <= l.n
      PROVE  l.op = "start" <=> typing'[w]
  <2>1. PICK i \in Owing(u, w) : l.n = i.n /\ l.op = i.op
    OBVIOUS
  <2>2. \A k \in Owing(u, w) : k.n <= i.n
    BY <1>2, <2>1
  <2> QED BY <2>1, <2>2 DEF Followed
<1> QED BY <1>1, <1>2 DEF Followed

(* A job is begun on the tab's socket, or its event is lost, to everybody.   *)
LEMMA BeginHeeded ==
  ASSUME Typed, Heeded, NEW news, jobs' = jobs \cup news,
         \A i \in news : i.n \in Nat /\ i.n > count /\ i.stage = "asked",
         \A i, k \in news : i.op \in OnSocket /\ k.op \in OnSocket => i = k,
         \A i \in news : i.op \in Typing => i.line = line[i.by] /\ i.line # 0,
         \A w \in Founders :
           \/ /\ \A i \in news : i.by = w => i.op \notin Typing
              /\ typing'[w] <=> typing[w]
           \/ \E i \in news : i.by = w /\ i.op \in Typing /\ (i.op = "start" <=> typing'[w])
           \/ {w} \X Users \subseteq dropped',
         UNCHANGED <<line, shown, expired>>, dropped \subseteq dropped'
  PROVE  Heeded'
<1>1. \A i \in jobs : i.n \in Nat /\ i.n <= count
  BY DEF Typed, JobsOK
<1>2. Leading'
  <2>1. \A i \in jobs, k \in news : k.n >= i.n
    BY <1>1 DEF Typed, JobsOK
  <2> QED BY <2>1 DEF Heeded, Leading
<1>4. Current'
  BY DEF Heeded, Current
<1>3. ASSUME NEW u \in Founders, NEW w \in Founders, u # w, <<w, u>> \notin dropped'
      PROVE  Followed(u, w)'
  <2>1. Followed(u, w) /\ ~({w} \X Users \subseteq dropped')
    BY <1>3, SignalsAssumption DEF Heeded
  <2>2. CASE /\ \A i \in news : i.by = w => i.op \notin Typing
             /\ typing'[w] <=> typing[w]
    <3>1. Owing(u, w)' = Owing(u, w)
      BY <2>2 DEF Owing, Sayings
    <3> QED BY <2>1, <2>2, <3>1, FollowedSame
  <2>3. ASSUME NEW i \in news, i.by = w, i.op \in Typing, i.op = "start" <=> typing'[w]
        PROVE  Followed(u, w)'
    <3>1. i \in Owing(u, w)'
      BY <2>3 DEF Owing, Sayings
    <3>2. \A k \in Owing(u, w)' : k = i \/ k \in jobs
      BY <2>3 DEF Owing, Sayings, OnSocket
    <3>3. ASSUME NEW k \in Owing(u, w)', \A l \in Owing(u, w)' : l.n <= k.n PROVE k = i
      <4>1. i.n <= k.n /\ i.n \in Nat /\ i.n > count
        BY <3>1, <3>3
      <4>2. k \notin jobs
        BY <1>1, <4>1 DEF Typed, JobsOK
      <4> QED BY <3>2, <4>2
    <3> QED BY <2>3, <3>1, <3>3 DEF Followed
  <2> QED BY <2>1, <2>2, <2>3
<1> QED BY <1>2, <1>3, <1>4 DEF Heeded

LEMMA HeededSame ==
  ASSUME Heeded, UNCHANGED <<jobs, line, typing, shown, dropped>>, expired => expired'
  PROVE  Heeded'
<1>1. Leading' /\ Current'
  BY DEF Heeded, Leading, Current
<1>2. ASSUME NEW u \in Founders, NEW w \in Founders, u # w, <<w, u>> \notin dropped'
      PROVE  Followed(u, w)'
  <2>1. Followed(u, w) /\ Owing(u, w)' = Owing(u, w)
    BY <1>2 DEF Heeded, Owing, Sayings
  <2> QED BY <2>1, FollowedSame
<1> QED BY <1>1, <1>2 DEF Heeded

LEMMA HeededTab ==
  ASSUME Typed, Fresh, Heeded, NEW u \in Users, UserStep(u) \/ TabStep(u)
  PROVE  Heeded'
<1>1. TabsOK /\ count \in Nat
  BY DEF Typed, JobsOK
<1>2. ASSUME NEW op, NEW arg, NEW version, Begin(op, u, arg, version),
             UNCHANGED <<line, shown, expired, dropped>>, op \in Typing => line[u] # 0,
             \/ op \notin Typing /\ typing' = typing
             \/ op = "start" /\ typing' = [typing EXCEPT ![u] = TRUE]
             \/ op = "stop" /\ typing' = [typing EXCEPT ![u] = FALSE]
      PROVE  Heeded'
  <2> PICK new \in {Job(count + 1, op, u, arg, version)} : TRUE
    OBVIOUS
  <2>1. new.n = count + 1 /\ new.stage = "asked" /\ new.by = u /\ new.op = op /\ new.line = line[u]
    BY DEF Job
  <2>2. jobs' = jobs \cup {new}
    BY <1>2 DEF Begin
  <2>3. \A w \in Founders :
           \/ /\ \A i \in {new} : i.by = w => i.op \notin Typing
              /\ typing'[w] <=> typing[w]
           \/ \E i \in {new} : i.by = w /\ i.op \in Typing /\ (i.op = "start" <=> typing'[w])
    BY <1>1, <1>2, <2>1, SignalsAssumption DEF TabsOK, Typing
  <2>4. PICK news \in {{new}} : TRUE
    OBVIOUS
  <2>5. jobs' = jobs \cup news
    BY <2>2, <2>4
  <2>6. /\ \A i \in news : i.n \in Nat /\ i.n > count /\ i.stage = "asked"
        /\ \A i \in news : i.op \in Typing => i.line = line[i.by] /\ i.line # 0
    BY <1>1, <1>2, <2>1, <2>4
  <2>7. \A i, k \in news : i.op \in OnSocket /\ k.op \in OnSocket => i = k
    BY <2>4
  <2>8. \A w \in Founders :
           \/ /\ \A i \in news : i.by = w => i.op \notin Typing
              /\ typing'[w] <=> typing[w]
           \/ \E i \in news : i.by = w /\ i.op \in Typing /\ (i.op = "start" <=> typing'[w])
           \/ {w} \X Users \subseteq dropped'
    BY <2>3, <2>4
  <2>9. UNCHANGED <<line, shown, expired>> /\ dropped \subseteq dropped'
    BY <1>2
  <2> QED BY <2>5, <2>6, <2>7, <2>8, <2>9, BeginHeeded
<1>10. ASSUME UNCHANGED <<jobs, line, shown, expired>>, dropped' = dropped \cup ({u} \X Users),
              \A w \in Users \ {u} : typing'[w] = typing[w]
       PROVE  Heeded'
  <2>1. \A w \in Founders : typing'[w] = typing[w] \/ {w} \X Users \subseteq dropped'
    BY <1>10, SignalsAssumption
  <2>2. PICK none \in {{}} : TRUE
    OBVIOUS
  <2>3. jobs' = jobs \cup none
    BY <1>10, <2>2
  <2> QED BY <1>10, <2>1, <2>2, <2>3, BeginHeeded
<1>11. ASSUME NEW op \in Typing, Emit(op, u, NoMessage), UNCHANGED <<line, shown, expired>>,
              typing' = [typing EXCEPT ![u] = (op = "start")]
       PROVE  Heeded'
  <2>1. CASE line[u] # 0
    BY <1>2, <1>11, <2>1 DEF Emit, losses, Typing
  <2>2. CASE line[u] = 0
    <3>1. jobs' = jobs /\ dropped' = dropped \cup ({u} \X Users)
      BY <1>11, <2>2 DEF Emit, Forget, Mute
    <3>2. \A w \in Users \ {u} : typing'[w] = typing[w]
      BY <1>1, <1>11 DEF TabsOK
    <3> QED BY <1>10, <1>11, <3>1, <3>2
  <2> QED BY <2>1, <2>2
<1>3. CASE Send(u)
  <2> PICK m \in {[at |-> count + 1, from |-> u]} : TRUE
    OBVIOUS
  <2> PICK new \in {Job(count + 1, "create", u, m, 1)} : TRUE
    OBVIOUS
  <2> PICK stop \in {Job(count + 2, "stop", u, NoMessage, 0)} : TRUE
    OBVIOUS
  <2>1. /\ new.n = count + 1 /\ new.stage = "asked" /\ new.by = u /\ new.op = "create"
        /\ stop.n = count + 2 /\ stop.stage = "asked" /\ stop.by = u /\ stop.op = "stop"
        /\ stop.line = line[u]
    BY DEF Job
  <2>2. \E news : /\ jobs' = jobs \cup news
                  /\ news = IF typing[u] /\ line[u] # 0 THEN {new, stop} ELSE {new}
    <3>1. jobs' = jobs \cup {new} \cup IF typing[u] /\ line[u] # 0 THEN {stop} ELSE {}
      BY <1>3 DEF Send
    <3> QED BY <3>1
  <2>3. PICK news : /\ jobs' = jobs \cup news
                    /\ news = IF typing[u] /\ line[u] # 0 THEN {new, stop} ELSE {new}
    BY <2>2
  <2>4. /\ \A i \in news : i.n \in Nat /\ i.n > count /\ i.stage = "asked"
        /\ \A i \in news : i.op \in Typing => i.line = line[i.by] /\ i.line # 0
    BY <1>1, <2>1, <2>3 DEF Typing
  <2>5. \A i, k \in news : i.op \in OnSocket /\ k.op \in OnSocket => i = k
    BY <2>1, <2>3 DEF OnSocket, Typing
  <2>6. /\ typing' = [typing EXCEPT ![u] = FALSE] /\ UNCHANGED <<line, shown, expired>>
        /\ dropped' = IF typing[u] /\ line[u] = 0 THEN dropped \cup ({u} \X Users) ELSE dropped
    BY <1>3 DEF Send, views, losses, Forget, Mute, Typing
  <2>7. ASSUME NEW w \in Founders
        PROVE
           \/ /\ \A i \in news : i.by = w => i.op \notin Typing
              /\ typing'[w] <=> typing[w]
           \/ \E i \in news : i.by = w /\ i.op \in Typing /\ (i.op = "start" <=> typing'[w])
           \/ {w} \X Users \subseteq dropped'
    <3>1. w \in Users /\ (typing'[w] <=> (w # u /\ typing[w]))
      BY <1>1, <2>6, SignalsAssumption DEF TabsOK
    <3>2. CASE w # u
      BY <2>1, <2>3, <3>1, <3>2
    <3>3. CASE w = u /\ typing[u] /\ line[u] # 0
      BY <2>1, <2>3, <3>1, <3>3 DEF Typing
    <3>4. CASE w = u /\ typing[u] /\ line[u] = 0
      BY <2>6, <3>4
    <3>5. CASE w = u /\ ~typing[u]
      BY <2>1, <2>3, <3>1, <3>5 DEF Typing
    <3> QED BY <3>2, <3>3, <3>4, <3>5
  <2>8. jobs' = jobs \cup news /\ UNCHANGED <<line, shown, expired>> /\ dropped \subseteq dropped'
    BY <2>3, <2>6
  <2> QED BY <2>4, <2>5, <2>7, <2>8, BeginHeeded
<1>4. CASE Type(u)
  <2>1. CASE typing[u]
    <3>1. typing' = typing
      BY <1>1, <1>4, <2>1 DEF Type, TabsOK
    <3> QED BY <1>4, <2>1, <3>1, HeededSame DEF Type, views, losses
  <2>2. CASE ~typing[u]
    BY <1>4, <1>11, <2>2 DEF Type, views, Typing
  <2> QED BY <2>1, <2>2
<1>5. CASE Close(u)
  <2>1. CASE ~typing[u]
    <3>1. typing' = typing
      BY <1>1, <1>5, <2>1 DEF Close, TabsOK
    <3> QED BY <1>5, <2>1, <3>1, HeededSame DEF Close, views, losses
  <2>2. CASE typing[u]
    BY <1>5, <1>11, <2>2 DEF Close, views, Typing
  <2> QED BY <2>1, <2>2
<1>6. CASE StopTyping(u)
  BY <1>6, <1>11 DEF StopTyping, views, Typing
<1>7. CASE Edit(u) \/ Delete(u) \/ Toggle(u) \/ \E w \in Users : Invite(u, w)
  <2>1. UNCHANGED <<line, typing, shown, expired, dropped>>
    BY <1>7 DEF Edit, Delete, Toggle, Invite, typingTab, history, views, losses
  <2>2. \E op \in {"edit", "delete", "react", "unreact", "add"} : \E arg, version :
          Begin(op, u, arg, version)
    BY <1>7 DEF Edit, Delete, Toggle, Invite
  <2> QED BY <1>2, <2>1, <2>2 DEF Typing
<1>12. CASE MarkLatest(u)
  <2>1. UNCHANGED <<line, typing, shown, expired>> /\ Emit("read", u, Latest(u))
    BY <1>12 DEF MarkLatest, typingTab, views
  <2>2. CASE line[u] # 0
    BY <1>2, <2>1, <2>2 DEF Emit, losses, Typing
  <2>3. CASE line[u] = 0
    <3>1. UNCHANGED <<jobs, dropped>>
      BY <2>1, <2>3 DEF Emit, Forget, Mute, Typing
    <3> QED BY <2>1, <3>1, HeededSame
  <2> QED BY <2>2, <2>3
<1>8. CASE Open(u) \/ Hide(u) \/ Return(u) \/ ShowMessages(u) \/ ShowList(u)
  BY <1>8, HeededSame
     DEF Open, Hide, Return, ShowMessages, ShowList, typingTab, history, views, losses
<1>9. ASSUME NEW w \in Users, Expire(u, w) PROVE Heeded'
  <2>1. /\ UNCHANGED <<jobs, line, typing, dropped>> /\ expired'
        /\ \A x \in Users : shown'[x] \subseteq shown[x]
    BY <1>1, <1>9 DEF Expire, TabsOK, losses
  <2>2. Leading' /\ Current'
    BY <2>1 DEF Heeded, Leading, Current
  <2>3. ASSUME NEW x \in Founders, NEW y \in Founders, x # y, <<y, x>> \notin dropped'
        PROVE  Followed(x, y)'
    <3>1. Followed(x, y) /\ Owing(x, y)' = Owing(x, y)
      BY <2>1, <2>3 DEF Heeded, Owing, Sayings
    <3> QED BY <2>1, <3>1, SignalsAssumption DEF Followed
  <2> QED BY <2>2, <2>3 DEF Heeded
<1>13. CASE Drop(u)
  <2>1. /\ jobs' \subseteq jobs /\ UNCHANGED <<typing, shown, expired>> /\ dropped \subseteq dropped'
        /\ \A j \in jobs : j.by # u => j \in jobs'
        /\ (\E j \in jobs : j.op \in Typing /\ j.by = u) => {u} \X Users \subseteq dropped'
    BY <1>13 DEF Drop, typingTab, views
  <2>2. \A w \in Users \ {u} : line'[w] = line[w]
    BY <1>13 DEF Drop, Typed, LinesOK
  <2>3. Leading'
    BY <2>1 DEF Heeded, Leading
  <2>4. ASSUME NEW j \in jobs', j.op \in Typing
        PROVE  (j.line = line'[j.by] /\ j.line # 0) \/ {j.by} \X Users \subseteq dropped'
    <3>1. j \in jobs /\ j.by \in Users
      BY <2>1 DEF Typed, JobsOK, TablesOK
    <3> QED BY <2>1, <2>2, <2>4, <3>1 DEF Heeded, Current
  <2>5. ASSUME NEW x \in Founders, NEW w \in Founders, x # w, <<w, x>> \notin dropped'
        PROVE  Followed(x, w)'
    <3>1. Followed(x, w) /\ ~({w} \X Users \subseteq dropped')
      BY <2>1, <2>5, SignalsAssumption DEF Heeded
    <3>2. Owing(x, w)' = Owing(x, w)
      <4>1. CASE w = u
        <5>1. \A j \in jobs : ~(j.op \in Typing /\ j.by = w)
          BY <2>1, <3>1, <4>1
        <5> QED BY <2>1, <5>1 DEF Owing, Sayings
      <4>2. CASE w # u
        BY <2>1, <4>2 DEF Owing, Sayings
      <4> QED BY <4>1, <4>2
    <3> QED BY <2>1, <3>1, <3>2, FollowedSame
  <2> QED BY <2>3, <2>4, <2>5 DEF Heeded, Current
<1>14. CASE Reconnect(u)
  <2>1. UNCHANGED <<jobs, typing, shown, expired, dropped>> /\ line[u] = 0
    BY <1>14 DEF Reconnect, typingTab, history, views, losses
  <2>2. \A w \in Users \ {u} : line'[w] = line[w]
    BY <1>14 DEF Reconnect, Typed, LinesOK
  <2>3. Leading'
    BY <2>1 DEF Heeded, Leading
  <2>4. ASSUME NEW j \in jobs', j.op \in Typing
        PROVE  (j.line = line'[j.by] /\ j.line # 0) \/ {j.by} \X Users \subseteq dropped'
    <3>1. j \in jobs /\ j.by \in Users
      BY <2>1 DEF Typed, JobsOK, TablesOK
    <3> QED BY <2>1, <2>2, <2>4, <3>1 DEF Heeded, Current
  <2>5. ASSUME NEW x \in Founders, NEW w \in Founders, x # w, <<w, x>> \notin dropped'
        PROVE  Followed(x, w)'
    <3>1. Followed(x, w) /\ Owing(x, w)' = Owing(x, w)
      BY <2>1, <2>5 DEF Heeded, Owing, Sayings
    <3> QED BY <2>1, <3>1, FollowedSame
  <2> QED BY <2>3, <2>4, <2>5 DEF Heeded, Current
<1> QED BY <1>3, <1>4, <1>5, <1>6, <1>7, <1>8, <1>9, <1>12, <1>13, <1>14 DEF UserStep, TabStep

LEMMA HeededServer ==
  ASSUME Typed, Heeded, ServerStep
  PROVE  Heeded'
<1>1. TabsOK /\ ReadOK /\ members \subseteq Users
  BY DEF Typed, TablesOK
<1>2. ASSUME NEW j \in jobs
      PROVE  j \in Jobs /\ (j.op \in About => j.arg \in Message)
  BY DEF Typed, JobsOK
<1>3. ASSUME NEW j \in jobs, NEW k \in Jobs, Change(j, k), Same(k, j), k.stage # "asked",
             j.stage = "asked" => Turn(j)
      PROVE  Leading'
  <2> SUFFICES ASSUME NEW i \in jobs', NEW l \in jobs', i.op \in OnSocket, l.op \in OnSocket,
                      l.by = i.by, l.line = i.line, i.stage # "asked"
               PROVE  l.n >= i.n
    BY DEF Leading
  <2>1. PICK p \in jobs : Same(i, p) /\ (i.stage = p.stage \/ p = j)
    BY <1>3 DEF Change, Same
  <2>2. PICK q \in jobs : Same(l, q)
    BY <1>3 DEF Change, Same
  <2>3. CASE p.stage # "asked"
    BY <2>1, <2>2, <2>3 DEF Same, Heeded, Leading
  <2>4. CASE p.stage = "asked"
    <3>1. Turn(p)
      BY <1>3, <2>1, <2>4
    <3> QED BY <2>1, <2>2, <3>1 DEF Same, Turn
  <2> QED BY <2>3, <2>4
<1>4. ASSUME jobs' \subseteq jobs PROVE Leading'
  BY <1>4 DEF Heeded, Leading
<1>6. ASSUME NEW j \in jobs, NEW k \in Jobs, Change(j, k), Same(k, j),
             NEW u \in Users, NEW w \in Users, Followed(u, w),
             j \in Sayings(w) => ((j.stage # "telling" \/ u \in j.todo) <=> (k.stage # "telling" \/ u \in k.todo)),
             UNCHANGED <<typing, expired>>, (w \in shown'[u]) <=> (w \in shown[u])
      PROVE  Followed(u, w)'
  <2>1. ASSUME NEW i \in Owing(u, w) PROVE \E l \in Owing(u, w)' : l.n = i.n /\ l.op = i.op
    <3>1. CASE i = j
      <4>1. k \in Owing(u, w)'
        BY <1>6, <3>1 DEF Owing, Sayings, Change, Same
      <4> QED BY <1>6, <3>1, <4>1 DEF Same
    <3>2. CASE i # j
      BY <1>6, <3>2 DEF Owing, Sayings, Change
    <3> QED BY <3>1, <3>2
  <2>2. ASSUME NEW l \in Owing(u, w)' PROVE \E i \in Owing(u, w) : l.n = i.n /\ l.op = i.op
    <3>1. CASE l = k
      <4>1. j \in Owing(u, w)
        BY <1>6, <3>1 DEF Owing, Sayings, Change, Same
      <4> QED BY <1>6, <3>1, <4>1 DEF Same
    <3>2. CASE l # k
      BY <1>6, <3>2 DEF Owing, Sayings, Change
    <3> QED BY <3>1, <3>2
  <2> QED BY <1>6, <2>1, <2>2, FollowedSame
<1>7. ASSUME NEW j \in jobs, jobs' = jobs \ {j},
             NEW u \in Users, NEW w \in Users, Followed(u, w), j \notin Owing(u, w),
             UNCHANGED <<typing, expired, shown>>
      PROVE  Followed(u, w)'
  <2>1. Owing(u, w)' = Owing(u, w)
    BY <1>7 DEF Owing, Sayings
  <2> QED BY <1>7, <2>1, FollowedSame
<1>14. ASSUME NEW j \in jobs, Handled(j) PROVE Current' /\ dropped \subseteq dropped'
  <2>1. line' = line
    BY <1>14 DEF Handled, Carry, Address, TellNobody, Finish, Fail, GiveUp, Tell
  <2>2. dropped \subseteq dropped'
    BY <1>14 DEF Handled, Carry, Address, TellNobody, Finish, Fail, GiveUp, Tell, Miss, Forget,
       Mute, history, losses
  <2>3. \A k \in jobs' : \E i \in jobs : k.op = i.op /\ k.by = i.by /\ k.line = i.line
    BY <1>14, Moves DEF Change, Same
  <2> QED BY <2>1, <2>2, <2>3 DEF Heeded, Current
<1>8. ASSUME NEW j \in jobs, Carry(j) PROVE Heeded'
  <2>1. UNCHANGED <<typing, shown, expired, dropped>> /\ Current'
    BY <1>8, <1>14 DEF Carry, typingTab, losses, Handled
  <2>2. CASE Allowed(j)
    <3>1. PICK k \in Jobs : Change(j, k) /\ Same(k, j) /\ k.stage = "written" /\ k.todo = {}
      BY <1>8, <2>2, CarryStep
    <3>2. j.stage = "asked" /\ Turn(j)
      BY <1>8, CarryStep
    <3>3. \A u, w \in Users : Followed(u, w) => Followed(u, w)'
      BY <1>6, <2>1, <3>1, <3>2
    <3>4. Leading'
      BY <1>3, <3>1, <3>2
    <3> QED BY <2>1, <3>3, <3>4, SignalsAssumption DEF Heeded
  <2>3. CASE ~Allowed(j)
    <3>1. jobs' = jobs \ {j} /\ j.op \notin Typing
      BY <1>8, <2>3, CarryStep DEF Allowed, Typing
    <3>2. \A u, w \in Users : j \notin Owing(u, w)
      BY <3>1 DEF Owing, Sayings
    <3>3. \A u, w \in Users : Followed(u, w) => Followed(u, w)'
      BY <1>7, <2>1, <3>1, <3>2
    <3>4. Leading'
      BY <1>4, <3>1
    <3> QED BY <2>1, <3>3, <3>4, SignalsAssumption DEF Heeded
  <2> QED BY <2>2, <2>3
<1>9. ASSUME NEW j \in jobs, Address(j) PROVE Heeded'
  <2>1. UNCHANGED <<typing, shown, expired, dropped>> /\ j.stage = "written" /\ Current'
    BY <1>9, <1>14 DEF Address, typingTab, history, views, losses, Handled
  <2>2. PICK k \in Jobs :
           /\ Change(j, k) /\ k.stage = "telling" /\ Same(k, j)
           /\ k.todo = IF j.op = "add" THEN {}
                       ELSE IF j.op \in OnSocket THEN members \ {j.by} ELSE members
    BY <1>1, <1>2, <1>9, AddressStep DEF Same
  <2>3. ASSUME NEW u \in Founders, NEW w \in Founders, u # w, Followed(u, w) PROVE Followed(u, w)'
    <3>1. u \in Users /\ w \in Users /\ u \in members
      BY SignalsAssumption DEF Typed, TablesOK
    <3>2. j \in Sayings(w) => u \in k.todo
      BY <2>2, <2>3, <3>1 DEF Sayings, OnSocket, Typing
    <3> QED BY <1>6, <2>1, <2>2, <2>3, <3>1, <3>2
  <2>4. Leading'
    BY <1>3, <2>1, <2>2
  <2> QED BY <2>1, <2>3, <2>4 DEF Heeded
<1>10. ASSUME NEW j \in jobs, Finish(j) PROVE Heeded'
  <2>1. UNCHANGED <<typing, shown, expired, dropped>> /\ jobs' = jobs \ {j}
        /\ j.stage = "telling" /\ j.todo = {} /\ Current'
    BY <1>10, <1>14 DEF Finish, typingTab, losses, Handled
  <2>2. \A u, w \in Users : j \notin Owing(u, w)
    BY <2>1 DEF Owing
  <2>3. \A u, w \in Users : Followed(u, w) => Followed(u, w)'
    BY <1>7, <2>1, <2>2
  <2>4. Leading'
    BY <1>4, <2>1
  <2> QED BY <2>1, <2>3, <2>4, SignalsAssumption DEF Heeded
<1>11. ASSUME NEW j \in jobs, Fail(j) \/ GiveUp(j) PROVE Heeded'
  <2>1. /\ UNCHANGED <<typing, shown, expired>> /\ jobs' = jobs \ {j}
        /\ dropped \subseteq dropped' /\ Current'
        /\ j.op \in Typing => {j.by} \X Users \subseteq dropped'
    BY <1>11, <1>14
       DEF Fail, GiveUp, Forget, Mute, typingTab, views, OnSocket, Handled
  <2>2. ASSUME NEW u \in Founders, NEW w \in Founders, u # w, <<w, u>> \notin dropped'
        PROVE  Followed(u, w)'
    <3>1. Followed(u, w) /\ u \in Users /\ w \in Users
      BY <2>1, <2>2, SignalsAssumption DEF Heeded
    <3>2. j \notin Owing(u, w)
      BY <2>1, <2>2, <3>1 DEF Owing, Sayings
    <3> QED BY <1>7, <2>1, <3>1, <3>2
  <2>3. Leading'
    BY <1>4, <2>1
  <2> QED BY <2>1, <2>2, <2>3 DEF Heeded
<1>15. ASSUME NEW j \in jobs, TellNobody(j) PROVE Heeded'
  <2>1. /\ UNCHANGED <<typing, shown, expired>> /\ j.stage = "written"
        /\ dropped \subseteq dropped' /\ Current'
        /\ j.op \in Typing => {j.by} \X Users \subseteq dropped'
    BY <1>14, <1>15 DEF TellNobody, Miss, Mute, typingTab, Handled
  <2>2. PICK k \in Jobs : Change(j, k) /\ Same(k, j) /\ k.stage = "telling" /\ k.todo = j.todo
    BY <1>2, <1>15, MuteStep DEF Same
  <2>3. ASSUME NEW u \in Founders, NEW w \in Founders, u # w, <<w, u>> \notin dropped'
        PROVE  Followed(u, w)'
    <3>1. Followed(u, w) /\ u \in Users /\ w \in Users
      BY <2>1, <2>3, SignalsAssumption DEF Heeded
    <3>2. j \notin Sayings(w)
      BY <2>1, <2>3, <3>1 DEF Sayings
    <3> QED BY <1>6, <2>1, <2>2, <3>1, <3>2
  <2>4. Leading'
    BY <1>3, <2>1, <2>2
  <2> QED BY <2>1, <2>3, <2>4 DEF Heeded
<1>16. ASSUME NEW j \in jobs, NEW x \in Users, Tell(j, x), line[x] = 0 PROVE Heeded'
  <2>1. PICK k \in Jobs : Change(j, k) /\ Same(k, j) /\ k.stage = "telling" /\ k.todo = j.todo \ {x}
    BY <1>16, TellStep
  <2>2. /\ UNCHANGED <<typing, shown, expired>> /\ j.stage = "telling"
        /\ dropped \subseteq dropped' /\ Current'
        /\ j.op \in Typing => {j.by} \X {x} \subseteq dropped'
    BY <1>14, <1>16, TellStep DEF Tell, Miss, Mute, Handled
  <2>3. ASSUME NEW u \in Founders, NEW w \in Founders, u # w, <<w, u>> \notin dropped'
        PROVE  Followed(u, w)'
    <3>1. Followed(u, w) /\ u \in Users /\ w \in Users
      BY <2>2, <2>3, SignalsAssumption DEF Heeded
    <3>2. u # x \/ j \notin Sayings(w)
      BY <2>2, <2>3, <3>1 DEF Sayings
    <3> QED BY <1>6, <2>1, <2>2, <3>1, <3>2
  <2>4. Leading'
    BY <1>3, <2>1, <2>2
  <2> QED BY <2>2, <2>3, <2>4 DEF Heeded
<1>12. ASSUME NEW j \in jobs, NEW x \in Users, Tell(j, x), line[x] # 0 PROVE Heeded'
  <2>1. PICK k \in Jobs : Change(j, k) /\ Same(k, j) /\ k.stage = "telling" /\ k.todo = j.todo \ {x}
    BY <1>12, TellStep
  <2>2. /\ UNCHANGED <<typing, expired, dropped>> /\ Hear(x, j) /\ x \in j.todo
        /\ j.stage = "telling" /\ Current'
    BY <1>12, <1>14, TellStep DEF Tell, Handled
  <2>3. /\ \A u \in Users \ {x} : shown'[u] = shown[u]
        /\ shown'[x] = IF j.op = "start" THEN shown[x] \cup {j.by}
                       ELSE IF j.op = "stop" THEN shown[x] \ {j.by} ELSE shown[x]
    BY <1>1, <1>2, <2>2, HearIs
  <2>4. ASSUME NEW u \in Users, NEW w \in Users, <<w, u>> \notin dropped, Followed(u, w)
        PROVE  Followed(u, w)'
    <3>1. CASE u # x \/ j \notin Sayings(w)
      <4>1. (w \in shown'[u]) <=> (w \in shown[u])
        BY <2>3, <3>1 DEF Sayings, Typing
      <4> QED BY <1>6, <2>1, <2>2, <2>4, <3>1, <4>1
    <3>2. CASE u = x /\ j \in Sayings(w)
      <4>1. j \in Owing(u, w) /\ j.op \in {"start", "stop"} /\ j.by = w
        BY <2>2, <3>2 DEF Owing, Sayings, Typing
      <4>2. Owing(u, w)' = Owing(u, w) \ {j}
        <5>1. k \notin Owing(u, w)'
          BY <2>1, <3>2 DEF Owing
        <5> QED BY <2>1, <5>1 DEF Owing, Sayings, Change
      <4>6. \A l \in Owing(u, w) : l.op \in Typing /\ l.by = w /\ l.line = line[w]
        BY <2>4 DEF Owing, Sayings, Heeded, Current
      <4>3. \A l \in Owing(u, w) : j.n <= l.n
        BY <2>2, <4>1, <4>6 DEF Owing, Sayings, OnSocket, Heeded, Leading
      <4>4. CASE Owing(u, w)' = {}
        <5>1. j.op = "start" <=> typing[w]
          BY <4>1, <4>2, <4>3, <4>4, <2>4 DEF Followed
        <5>2. w \in shown'[u] <=> j.op = "start"
          BY <2>3, <3>2, <4>1
        <5> QED BY <2>2, <4>4, <5>1, <5>2 DEF Followed
      <4>5. CASE Owing(u, w)' # {}
        <5>1. ASSUME NEW l \in Owing(u, w)', \A i \in Owing(u, w)' : i.n <= l.n
              PROVE  \A i \in Owing(u, w) : i.n <= l.n
          BY <4>2, <4>3, <5>1
        <5> QED BY <2>2, <2>4, <4>2, <4>5, <5>1 DEF Followed
      <4> QED BY <4>4, <4>5
    <3> QED BY <3>1, <3>2
  <2>5. Leading'
    BY <1>3, <2>1, <2>2
  <2> QED BY <2>2, <2>4, <2>5, SignalsAssumption DEF Heeded
<1>13. ASSUME NEW u \in Users, ListMessages(u) \/ AttachReactions(u) \/ ListConversations(u)
       PROVE  Heeded'
  BY <1>13, HeededSame
     DEF ListMessages, AttachReactions, ListConversations, typingTab, history, views, losses
<1> QED BY <1>8, <1>9, <1>10, <1>11, <1>12, <1>13, <1>15, <1>16 DEF ServerStep

(* A founder is shown typing exactly to whom the founder is, but for the    *)
(* users who missed a typing event of the founder's: those of one socket    *)
(* are handled in order, so the last one heard is the last sent, and what   *)
(* an earlier socket left undone excuses everybody.                         *)
THEOREM TypingIsShown == Spec => []TypingAgrees
<1>1. ASSUME Init PROVE Heeded
  <2>1. jobs = {} /\ \A u, w \in Founders : shown[u] = {} /\ ~typing[w]
    BY <1>1, SignalsAssumption DEF Init
  <2>2. Leading /\ Current /\ \A u, w : Owing(u, w) = {}
    BY <2>1 DEF Leading, Current, Owing, Sayings
  <2> QED BY <2>1, <2>2 DEF Heeded, Followed
<1>2. IInv /\ Heeded /\ [Next]_vars => Heeded'
  <2> SUFFICES ASSUME IInv, Heeded, UNCHANGED vars PROVE Heeded'
    BY HeededServer, HeededTab DEF Next, IInv
  <2> QED BY HeededSame DEF vars, typingTab, history, views, losses
<1>3. Heeded => TypingAgrees
  BY DEF Heeded, Followed, Owing, Sayings, TypingAgrees
<1> QED BY <1>1, <1>2, <1>3, Always, PTL DEF Spec

-----------------------------------------------------------------------------
(* Receipts: what a tab marked is asked for until it is stored, and who is  *)
(* shown to have read a message has its receipt.                            *)

LEMMA NoRow == ASSUME TablesOK PROVE RowOf(NoMessage) = {} /\ \A u : Receipted(NoMessage, u)
BY SignalsAssumption DEF TablesOK, Copy, Message, RowOf, Receipted

LEMMA ReceiptedCarry ==
  ASSUME Typed, Fresh, NEW j \in jobs, Carry(j), Allowed(j), NEW m, NEW u,
         m = NoMessage \/ Made(m), Receipted(m, u)
  PROVE  Receipted(m, u)'
<1>1. TablesOK /\ j \in Jobs /\ (j.op \in About => j.arg \in Message)
  BY DEF Typed, JobsOK
<1>2. Written(j) /\ j.stage = "asked"
  BY CarryStep
<1>3. TablesOK'
  BY <1>2, WrittenTables DEF Typed
<1> SUFFICES ASSUME NEW r \in rows', r.m = m PROVE <<m, u>> \in receipts'
  BY DEF Receipted, RowOf
<1>4. m # NoMessage
  BY <1>3, SignalsAssumption DEF TablesOK, Copy, Message
<1>5. /\ \A p \in receipts : j.op # "delete" \/ p[1] # j.arg => p \in receipts'
  BY <1>2 DEF Written
<1>6. CASE m # j.arg
  <2>1. r \in rows
    BY <1>1, <1>2, <1>6, WrittenIs
  <2>2. <<m, u>> \in receipts
    BY <2>1 DEF Receipted, RowOf
  <2> QED BY <1>5, <1>6, <2>2
<1>7. CASE m = j.arg
  <2>1. j.op # "create"
    BY <1>2, <1>4, <1>7 DEF Made
  <2>2. \E q \in rows : q.m = m /\ j.op # "delete"
    BY <1>1, <1>2, <1>7, <2>1, WrittenIs
  <2>3. <<m, u>> \in receipts
    BY <2>2 DEF Receipted, RowOf
  <2> QED BY <1>5, <2>2, <2>3
<1> QED BY <1>6, <1>7

LEMMA NotedServer ==
  ASSUME Typed, Fresh, Noted, ServerStep
  PROVE  Noted'
<1>1. TablesOK /\ TabsOK /\ ReadOK
  BY DEF Typed
<1>2. ASSUME NEW j \in jobs
      PROVE  /\ j \in Jobs /\ (j.op \in About => j.arg \in Message)
             /\ j.op = "read" => Made(j.arg)
  BY DEF Typed, JobsOK, Fresh, About
<1>3. ASSUME NEW u \in Users
      PROVE  /\ marked[u] = NoMessage \/ Made(marked[u])
             /\ \A w \in Users : lastRead[u][w] = NoMessage \/ Made(lastRead[u][w])
  BY DEF Fresh
<1>4. ASSUME NEW j \in jobs,
             jobs' = jobs \ {j} \/ \E k \in Jobs : Change(j, k) /\ Same(k, j),
             \A m, u : (m = NoMessage \/ Made(m)) /\ Receipted(m, u) => Receipted(m, u)',
             j.op = "read" => \/ Receipted(j.arg, j.by)'
                              \/ <<j.arg, j.by>> \in unmarked' /\ jobs' = jobs \ {j},
             marked' = marked, unmarked \subseteq unmarked',
             \A u, w \in Users : lastRead'[u][w] = lastRead[u][w] \/ Receipted(lastRead[u][w], w)'
      PROVE  Noted'
  <2>1. ASSUME NEW i \in jobs', i.op = "read", i.stage # "asked" PROVE Receipted(i.arg, i.by)'
    <3>1. CASE i \in jobs
      BY <1>2, <1>4, <2>1, <3>1 DEF Noted
    <3>2. CASE i \notin jobs
      <4>1. i.arg = j.arg /\ i.by = j.by /\ i.op = j.op /\ jobs' # jobs \ {j}
        BY <1>4, <2>1, <3>2 DEF Change, Same
      <4> QED BY <1>4, <2>1, <4>1
    <3> QED BY <3>1, <3>2
  <2>2. ASSUME NEW u \in Users, NEW w \in Users PROVE Receipted(lastRead[u][w], w)'
    <3>1. CASE lastRead'[u][w] = lastRead[u][w]
      <4>1. Receipted(lastRead[u][w], w) /\ (lastRead[u][w] = NoMessage \/ Made(lastRead[u][w]))
        BY <1>3 DEF Noted
      <4> PICK m \in {lastRead[u][w]} : TRUE
        OBVIOUS
      <4>2. Receipted(m, w)'
        BY <1>4, <4>1
      <4> QED BY <3>1, <4>2 DEF Receipted, RowOf
    <3> QED BY <1>4, <3>1
  <2>3. ASSUME NEW u \in Users, <<marked'[u], u>> \notin unmarked'
        PROVE  \/ Receipted(marked[u], u)'
               \/ \E i \in jobs' : i.op = "read" /\ i.stage = "asked" /\ i.by = u /\ i.arg = marked'[u]
    <3> PICK m \in {marked[u]} : TRUE
      OBVIOUS
    <3>1. /\ m = NoMessage \/ Made(m)
          /\ marked'[u] = m /\ <<m, u>> \notin unmarked /\ <<m, u>> \notin unmarked'
      BY <1>3, <1>4, <2>3
    <3>2. CASE Receipted(m, u)
      <4>1. Receipted(m, u)'
        BY <1>4, <3>1, <3>2
      <4> QED BY <3>1, <4>1 DEF Receipted, RowOf
    <3>3. CASE ~Receipted(m, u)
      <4>1. PICK i \in jobs : i.op = "read" /\ i.stage = "asked" /\ i.by = u /\ i.arg = m
        BY <3>1, <3>3 DEF Noted
      <4>2. CASE i = j
        <5>1. Receipted(m, u)'
          BY <1>4, <4>1, <4>2, <3>1 DEF Receipted, RowOf
        <5> QED BY <3>1, <5>1 DEF Receipted, RowOf
      <4>3. CASE i # j
        <5>1. i \in jobs'
          BY <1>4, <4>3 DEF Change
        <5> QED BY <3>1, <4>1, <5>1
      <4> QED BY <4>2, <4>3
    <3> QED BY <3>2, <3>3
  <2> QED BY <2>1, <2>2, <2>3 DEF Noted
<1>5. ASSUME UNCHANGED <<rows, receipts>> PROVE \A m, u : Receipted(m, u)' <=> Receipted(m, u)
  BY <1>5 DEF Receipted, RowOf
<1>6. ASSUME NEW j \in jobs, Carry(j) PROVE Noted'
  <2>1. UNCHANGED <<marked, lastRead, unmarked>> /\ j.stage = "asked"
    BY <1>6 DEF Carry, receiptTab, losses
  <2>2. CASE Allowed(j)
    <3>1. Written(j) /\ \E k \in Jobs : Change(j, k) /\ Same(k, j)
      BY <1>6, <2>2, CarryStep
    <3>2. \A m, u : (m = NoMessage \/ Made(m)) /\ Receipted(m, u) => Receipted(m, u)'
      BY <1>6, <2>2, ReceiptedCarry
    <3>3. j.op = "read" => Receipted(j.arg, j.by)'
      BY <3>1 DEF Written, Receipted
    <3> QED BY <1>4, <2>1, <3>1, <3>2, <3>3
  <2>3. CASE ~Allowed(j)
    <3>1. jobs' = jobs \ {j} /\ UNCHANGED <<rows, receipts>>
      BY <1>6, <2>3, CarryStep DEF tables
    <3>2. j.op = "read" => Receipted(j.arg, j.by)
      BY <2>3 DEF Allowed, Receipted
    <3> QED BY <1>4, <1>5, <2>1, <3>1, <3>2
  <2> QED BY <2>2, <2>3
<1>7. ASSUME NEW j \in jobs, Address(j) PROVE Noted'
  <2>1. UNCHANGED <<rows, receipts, marked, lastRead, unmarked>> /\ j.stage = "written"
    BY <1>7 DEF Address, tables, receiptTab, history, losses
  <2>2. \E k \in Jobs : Change(j, k) /\ Same(k, j)
    BY <1>1, <1>2, <1>7, AddressStep DEF Same, TablesOK
  <2>3. j.op = "read" => Receipted(j.arg, j.by)
    BY <2>1 DEF Noted
  <2> QED BY <1>4, <1>5, <2>1, <2>2, <2>3
<1>8. ASSUME NEW j \in jobs, Finish(j) PROVE Noted'
  <2>1. UNCHANGED <<rows, receipts, marked, lastRead, unmarked>> /\ j.stage = "telling"
    BY <1>8 DEF Finish, tables, receiptTab, losses
  <2>2. jobs' = jobs \ {j}
    BY <1>8 DEF Finish
  <2>3. j.op = "read" => Receipted(j.arg, j.by)
    BY <2>1 DEF Noted
  <2> QED BY <1>4, <1>5, <2>1, <2>2, <2>3
<1>9. ASSUME NEW j \in jobs, Fail(j) \/ GiveUp(j) PROVE Noted'
  <2>1. UNCHANGED <<rows, receipts, marked, lastRead>> /\ jobs' = jobs \ {j}
    BY <1>9 DEF Fail, GiveUp, tables, receiptTab
  <2>2. unmarked \subseteq unmarked' /\ (j.op = "read" => <<j.arg, j.by>> \in unmarked')
    BY <1>9 DEF Fail, GiveUp, Forget, OnSocket
  <2> QED BY <1>4, <1>5, <2>1, <2>2
<1>12. ASSUME NEW j \in jobs, TellNobody(j) PROVE Noted'
  <2>1. UNCHANGED <<rows, receipts, marked, lastRead, unmarked>> /\ j.stage = "written"
    BY <1>12 DEF TellNobody, tables, receiptTab
  <2>2. \E k \in Jobs : Change(j, k) /\ Same(k, j)
    BY <1>2, <1>12, MuteStep DEF Same
  <2>3. j.op = "read" => Receipted(j.arg, j.by)
    BY <2>1 DEF Noted
  <2> QED BY <1>4, <1>5, <2>1, <2>2, <2>3
<1>13. ASSUME NEW j \in jobs, NEW u \in Users, Tell(j, u), line[u] = 0 PROVE Noted'
  <2>1. UNCHANGED <<rows, receipts, marked, lastRead, unmarked>>
    BY <1>13 DEF Tell, tables
  <2>2. j.stage = "telling" /\ \E k \in Jobs : Change(j, k) /\ Same(k, j)
    BY <1>13, TellStep
  <2>3. j.op = "read" => Receipted(j.arg, j.by)
    BY <2>2 DEF Noted
  <2> QED BY <1>4, <1>5, <2>1, <2>2, <2>3
<1>10. ASSUME NEW j \in jobs, NEW u \in Users, Tell(j, u), line[u] # 0 PROVE Noted'
  <2>1. UNCHANGED <<rows, receipts, marked, unmarked>>
    BY <1>10 DEF Tell, tables
  <2>2. j.stage = "telling" /\ Hear(u, j) /\ \E k \in Jobs : Change(j, k) /\ Same(k, j)
    BY <1>10, TellStep
  <2>3. j.op = "read" => Receipted(j.arg, j.by)
    BY <2>2 DEF Noted
  <2>4. ASSUME NEW x \in Users, NEW w \in Users
        PROVE  lastRead'[x][w] = lastRead[x][w] \/ Receipted(lastRead[x][w], w)'
    <3>1. CASE x = u /\ j.op = "read" /\ w = j.by
      <4>1. lastRead'[x][w] = j.arg
        BY <1>1, <1>2, <2>2, <3>1, HearIs
      <4> QED BY <2>1, <2>3, <3>1, <4>1 DEF Receipted, RowOf
    <3>2. CASE ~(x = u /\ j.op = "read" /\ w = j.by)
      <4>1. /\ \A y \in Users : lastRead'[u][y] = IF j.op = "read" /\ y = j.by THEN j.arg ELSE lastRead[u][y]
            /\ \A y \in Users \ {u} : lastRead'[y] = lastRead[y]
        BY <1>1, <1>2, <2>2, HearIs
      <4>2. x # u => lastRead'[x] = lastRead[x]
        BY <4>1
      <4>3. x = u => lastRead'[x][w] = lastRead[x][w]
        BY <3>2, <4>1
      <4> QED BY <4>2, <4>3
    <3> QED BY <3>1, <3>2
  <2> QED BY <1>4, <1>5, <2>1, <2>2, <2>3, <2>4
<1>11. ASSUME NEW u \in Users, ListMessages(u) \/ AttachReactions(u) \/ ListConversations(u)
       PROVE  Noted'
  <2>1. UNCHANGED <<jobs, rows, receipts, marked, lastRead, unmarked>>
    BY <1>11 DEF ListMessages, AttachReactions, ListConversations, tables, receiptTab, history,
       losses
  <2> QED BY <2>1 DEF Noted, Receipted, RowOf
<1> QED BY <1>6, <1>7, <1>8, <1>9, <1>10, <1>11, <1>12, <1>13 DEF ServerStep

LEMMA NotedTab ==
  ASSUME Typed, Noted, NEW u \in Users, UserStep(u) \/ TabStep(u)
  PROVE  Noted'
<1>1. TablesOK /\ ReadOK
  BY DEF Typed
<1>2. UNCHANGED <<rows, receipts, lastRead>>
  BY DEF UserStep, TabStep, Send, Edit, Delete, Toggle, Type, Invite, Open, Close, Hide, Return,
         StopTyping, MarkLatest, Expire, Drop, Reconnect, ShowMessages, ShowList, tables, receiptTab
<1>3. \A m, x : Receipted(m, x)' <=> Receipted(m, x)
  BY <1>2 DEF Receipted, RowOf
<1>9. unmarked \subseteq unmarked'
  BY DEF UserStep, TabStep, Send, Edit, Delete, Toggle, Type, Invite, Open, Close, Hide, Return,
         StopTyping, MarkLatest, Expire, Drop, Reconnect, ShowMessages, ShowList, Emit, Forget,
         history, losses
<1>4. /\ \A i \in jobs' : i \in jobs \/ i.stage = "asked"
      /\ \A i \in jobs : i \in jobs' \/ (i.op = "read" => <<i.arg, i.by>> \in unmarked')
  <2>1. CASE jobs' = jobs
    BY <2>1
  <2>2. CASE Send(u)
    <3> PICK m \in {[at |-> count + 1, from |-> u]} : TRUE
      OBVIOUS
    <3>1. /\ Job(count + 1, "create", u, m, 1).stage = "asked"
          /\ Job(count + 2, "stop", u, NoMessage, 0).stage = "asked"
      BY DEF Job
    <3> PICK new \in {Job(count + 1, "create", u, m, 1)} : TRUE
      OBVIOUS
    <3> PICK stop \in {Job(count + 2, "stop", u, NoMessage, 0)} : TRUE
      OBVIOUS
    <3>2. jobs' = jobs \cup {new} \cup IF typing[u] /\ line[u] # 0 THEN {stop} ELSE {}
      BY <2>2 DEF Send
    <3> QED BY <3>1, <3>2
  <2>3. CASE \E op, arg, version : Begin(op, u, arg, version)
    BY <2>3 DEF Begin, Job
  <2>4. CASE Drop(u)
    <3>1. PICK gone \in SUBSET jobs :
            /\ \A j \in gone : j.by = u
            /\ jobs' = jobs \ gone
            /\ unmarked' = unmarked \cup {<<j.arg, u>> : j \in {g \in gone : g.op = "read"}}
      <4>1. \E n \in 0 .. count :
              \E gone \in {{j \in jobs : /\ j.op \in OnSocket /\ j.by = u /\ j.line = line[u]
                                       /\ j.stage = "asked" /\ j.n > n}} :
              /\ jobs' = jobs \ gone
              /\ unmarked' = unmarked \cup {<<j.arg, u>> : j \in {g \in gone : g.op = "read"}}
        BY <2>4 DEF Drop
      <4> QED BY <4>1
    <3>2. \A i \in gone : i.op = "read" => <<i.arg, i.by>> \in unmarked'
      BY <3>1
    <3> QED BY <3>1, <3>2
  <2> QED BY <2>1, <2>2, <2>3, <2>4
          DEF UserStep, TabStep, Edit, Delete, Toggle, Type, Invite, Open, Close, Hide, Return,
              StopTyping, MarkLatest, Expire, Reconnect, ShowMessages, ShowList, Emit
<1>5. ASSUME NEW x \in Users
      PROVE  \/ marked'[x] = marked[x]
             \/ marked'[x] = NoMessage \/ <<marked'[x], x>> \in unmarked'
             \/ \E i \in jobs' : i.op = "read" /\ i.stage = "asked" /\ i.by = x /\ i.arg = marked'[x]
  <2>1. CASE marked' = marked
    BY <2>1
  <2>2. CASE Open(u)
    BY <1>1, <2>2 DEF Open, ReadOK
  <2>3. CASE MarkLatest(u)
    <3>1. marked' = [marked EXCEPT ![u] = Latest(u)] /\ Emit("read", u, Latest(u))
      BY <2>3 DEF MarkLatest
    <3>4. CASE x = u /\ line[u] = 0
      <4>1. marked'[x] = Latest(u)
        BY <1>1, <3>1, <3>4 DEF ReadOK
      <4>2. <<Latest(u), u>> \in unmarked'
        BY <3>1, <3>4 DEF Emit, Forget
      <4> QED BY <3>4, <4>1, <4>2
    <3>2. CASE x = u /\ line[u] # 0
      <4>1. marked'[x] = Latest(u)
        BY <1>1, <3>1, <3>2 DEF ReadOK
      <4> PICK new \in {Job(count + 1, "read", u, Latest(u), 0)} : TRUE
        OBVIOUS
      <4>2. new.op = "read" /\ new.stage = "asked" /\ new.by = u /\ new.arg = Latest(u)
        BY DEF Job
      <4>3. new \in jobs'
        BY <3>1, <3>2 DEF Begin, Emit
      <4> QED BY <3>2, <4>1, <4>2, <4>3
    <3>3. CASE x # u
      BY <1>1, <3>1, <3>3 DEF ReadOK
    <3> QED BY <3>2, <3>3, <3>4
  <2> QED BY <2>1, <2>2, <2>3
          DEF UserStep, TabStep, Send, Edit, Delete, Toggle, Type, Invite, Close, Hide, Return,
              StopTyping, Expire, Drop, Reconnect, ShowMessages, ShowList, receiptTab
<1>6. ASSUME NEW i \in jobs', i.op = "read", i.stage # "asked" PROVE Receipted(i.arg, i.by)'
  BY <1>3, <1>4, <1>6 DEF Noted
<1>7. ASSUME NEW x \in Users, NEW w \in Users PROVE Receipted(lastRead[x][w], w)'
  BY <1>2 DEF Noted, Receipted, RowOf
<1>8. ASSUME NEW x \in Users, <<marked'[x], x>> \notin unmarked'
      PROVE  \/ Receipted(marked[x], x)'
             \/ \E i \in jobs' : i.op = "read" /\ i.stage = "asked" /\ i.by = x /\ i.arg = marked'[x]
  <2>1. CASE marked'[x] = marked[x]
    BY <1>2, <1>4, <1>8, <1>9, <2>1 DEF Noted, Receipted, RowOf
  <2>2. CASE marked'[x] = NoMessage
    <3>1. RowOf(NoMessage) = {}
      BY <1>1, NoRow
    <3> QED BY <1>2, <2>2, <3>1 DEF Receipted, RowOf
  <2> QED BY <1>5, <1>8, <2>1, <2>2
<1> QED BY <1>6, <1>7, <1>8 DEF Noted

LEMMA InitNoted == Init => Noted
<1> SUFFICES ASSUME Init PROVE Noted
  OBVIOUS
<1>1. PICK scene \in Scenes : Begins(scene)
  BY DEF Init
<1>2. jobs = {} /\ TablesOK
  BY InitTyped DEF Init, Typed
<1> PICK readers \in {scene.open \ {First.from}} : TRUE
  OBVIOUS
<1> DEFINE seen(u) == IF u \in readers THEN First ELSE NoMessage
<1>3. receipts = {First} \X readers
  BY <1>1 DEF Begins
<1>4. \A u : Receipted(seen(u), u)
  BY <1>2, <1>3, NoRow DEF Receipted
<1>5. /\ marked = [u \in Users |-> seen(u)]
      /\ lastRead = [u \in Users |-> [w \in Users |->
           IF u \in Founders \ {w} THEN seen(w) ELSE NoMessage]]
  BY <1>1 DEF Begins
<1> HIDE DEF seen
<1>6. \A u \in Users : marked[u] = seen(u)
  BY <1>5
<1>7. \A u, w \in Users : lastRead[u][w] \in {seen(w), NoMessage}
  BY <1>5
<1>8. \A u, w \in Users : Receipted(lastRead[u][w], w)
  BY <1>2, <1>4, <1>7, NoRow
<1> QED BY <1>2, <1>4, <1>6, <1>8 DEF Noted

(* What a tab has marked as read has its receipt once the server is done,   *)
(* unless that very event was lost: not sent by a socket that was not open, *)
(* on its way in one that failed, or given up on by the server.  Nobody is  *)
(* shown to have read a message without one.                                *)
THEOREM ReadIsNoted == Spec => []ReceiptsAgree
<1>1. IInv /\ Noted /\ [Next]_vars => Noted'
  <2> SUFFICES ASSUME IInv, Noted, UNCHANGED vars PROVE Noted'
    BY NotedServer, NotedTab DEF Next, IInv
  <2>1. UNCHANGED <<jobs, rows, receipts, marked, lastRead, unmarked>>
    BY DEF vars, tables, receiptTab, history, losses
  <2> QED BY <2>1 DEF Noted, Receipted, RowOf
<1>2. Noted => ReceiptsAgree
  BY DEF Noted, Receipted, ReceiptsAgree, MarkedHasReceipt, ShownReadIsRead
<1> QED BY <1>1, <1>2, InitNoted, Always, PTL DEF Spec

-----------------------------------------------------------------------------
(* Badges: the list counts what is unread, or is asked for, or somebody has *)
(* yet to be told of a message.                                             *)

LEMMA UnreadFewer ==
  ASSUME TablesOK, TablesOK', NEW u,
         \A r \in rows' : <<r.m, u>> \notin receipts' =>
           \E q \in rows : q.m = r.m /\ <<q.m, u>> \notin receipts
  PROVE  Unread(u)' <= Unread(u) /\ Unread(u)' \in Nat
<1> DEFINE before == {r \in rows : r.m.from # u /\ <<r.m, u>> \notin receipts}
           after == {r \in rows' : r.m.from # u /\ <<r.m, u>> \notin receipts'}
           f == [r \in after |-> CHOOSE q \in before : q.m = r.m]
<1>1. IsFiniteSet(before)
  BY FS_Subset DEF TablesOK
<1>2. ASSUME NEW r \in after PROVE f[r] \in before /\ f[r].m = r.m
  <2>1. \E q \in before : q.m = r.m
    OBVIOUS
  <2> HIDE DEF before, after
  <2> QED BY <2>1
<1>3. \A r, q \in after : r.m = q.m => r = q
  BY DEF TablesOK
<1>4. Unread(u) = Cardinality(before) /\ Unread(u)' = Cardinality(after)
  BY DEF Unread
<1>5. f \in Injection(after, before)
  <2> HIDE DEF before, after
  <2>1. f \in [after -> before]
    BY <1>2
  <2>2. ASSUME NEW r \in after, NEW q \in after, f[r] = f[q] PROVE r = q
    BY <1>2, <1>3, <2>2
  <2> HIDE DEF f
  <2> QED BY <2>1, <2>2 DEF Injection, IsInjective
<1> HIDE DEF before, after, f
<1>6. Cardinality(after) <= Cardinality(before) /\ Cardinality(after) \in Nat
  BY <1>1, <1>5, FS_Injection, FS_CardinalityType
<1> QED BY <1>4, <1>6

CountedAt(u) ==
  \/ asking[u] = "asked"
  \/ \E j \in jobs : j.op = "create" /\ Owes(j, u)
  \/ asking[u] = "answered" /\ answer[u] >= Unread(u)
  \/ asking[u] = "no" /\ list[u] >= Unread(u)

LEMMA CountedSame ==
  ASSUME Typed, TablesOK', NEW u \in Users, CountedAt(u),
         \A j \in jobs : j.op = "create" /\ Owes(j, u) => \E k \in jobs' : k.op = "create" /\ Owes(k, u),
         \A r \in rows' : <<r.m, u>> \notin receipts' =>
           \E q \in rows : q.m = r.m /\ <<q.m, u>> \notin receipts,
         asking'[u] = "asked" \/ asking'[u] = asking[u], answer'[u] = answer[u], list'[u] = list[u]
  PROVE  CountedAt(u)'
<1>1. Unread(u)' <= Unread(u) /\ Unread(u) \in Nat /\ Unread(u)' \in Nat
  <2>1. TablesOK
    BY DEF Typed
  <2>2. Unread(u)' <= Unread(u) /\ Unread(u)' \in Nat
    BY <2>1, UnreadFewer
  <2>3. Unread(u) \in Nat
    BY <2>1, UnreadIs
  <2> QED BY <2>2, <2>3
<1>2. answer[u] \in Nat /\ list[u] \in Nat
  BY DEF Typed, TabsOK
<1>3. CASE \E j \in jobs : j.op = "create" /\ Owes(j, u)
  BY <1>3 DEF CountedAt, Owes
<1>4. CASE asking'[u] = "asked"
  BY <1>4 DEF CountedAt
<1>5. CASE asking[u] = "asked" /\ asking'[u] = asking[u]
  BY <1>5 DEF CountedAt
<1>6. CASE /\ asking[u] = "answered" /\ answer[u] >= Unread(u)
           /\ asking'[u] = asking[u] /\ answer'[u] = answer[u] /\ list'[u] = list[u]
  BY <1>1, <1>2, <1>6 DEF CountedAt
<1>7. CASE /\ asking[u] = "no" /\ list[u] >= Unread(u)
           /\ asking'[u] = asking[u] /\ answer'[u] = answer[u] /\ list'[u] = list[u]
  BY <1>1, <1>2, <1>7 DEF CountedAt
<1> QED BY <1>3, <1>4, <1>5, <1>6, <1>7 DEF CountedAt

LEMMA CountedServer ==
  ASSUME Typed, Typed', Counted, ServerStep
  PROVE  Counted'
<1> SUFFICES ASSUME NEW u \in members' \ untold' PROVE CountedAt(u)'
  BY DEF Counted, CountedAt
<1>1. TablesOK /\ TabsOK /\ ReadOK /\ TablesOK' /\ u \in Users
  BY DEF Typed, TablesOK
<1>2. ASSUME NEW j \in jobs
      PROVE  j \in Jobs /\ (j.op \in About => j.arg \in Message) /\ j.by \in Users
  BY DEF Typed, JobsOK, Jobs
<1>3. ASSUME u \in members, u \notin untold PROVE CountedAt(u)
  BY <1>3 DEF Counted, CountedAt
<1>4. ASSUME UNCHANGED <<rows, receipts>>
      PROVE  \A r \in rows' : <<r.m, u>> \notin receipts' =>
               \E q \in rows : q.m = r.m /\ <<q.m, u>> \notin receipts
  BY <1>4
<1>5. ASSUME NEW j \in jobs, NEW k, Change(j, k) \/ jobs' = jobs \ {j},
             j.op = "create" /\ Owes(j, u) => k \in jobs' /\ k.op = "create" /\ Owes(k, u)
      PROVE  \A i \in jobs : i.op = "create" /\ Owes(i, u) => \E l \in jobs' : l.op = "create" /\ Owes(l, u)
  <2> SUFFICES ASSUME NEW i \in jobs, i.op = "create", Owes(i, u)
               PROVE  \E l \in jobs' : l.op = "create" /\ Owes(l, u)
    OBVIOUS
  <2>1. CASE i = j
    BY <1>5, <2>1
  <2>2. CASE i # j
    BY <1>5, <2>2 DEF Change
  <2> QED BY <2>1, <2>2
<1>6. ASSUME NEW j \in jobs, Carry(j) PROVE CountedAt(u)'
  <2>1. UNCHANGED <<list, asking, answer>> /\ j.stage = "asked" /\ j.todo = {}
    BY <1>6, CarryStep DEF Carry
  <2>2. ~Owes(j, u)
    BY <2>1 DEF Owes
  <2>3. CASE Allowed(j)
    <3>1. PICK k \in Jobs : Change(j, k) /\ Same(k, j) /\ k.stage = "written" /\ k.todo = {}
      BY <1>6, <2>3, CarryStep
    <3>2. Written(j)
      BY <1>6, <2>3, CarryStep
    <3>3. u \in members /\ u \notin untold
      BY <3>2 DEF Written
    <3>4. CASE j.op = "create"
      <4>1. k \in jobs' /\ k.op = "create" /\ Owes(k, u)
        BY <3>1, <3>4 DEF Change, Same, Owes
      <4> QED BY <4>1 DEF CountedAt, Owes
    <3>5. CASE j.op # "create"
      <4>1. \A i \in jobs : i.op = "create" /\ Owes(i, u) => \E l \in jobs' : l.op = "create" /\ Owes(l, u)
        BY <1>5, <3>1, <3>5
      <4>2. ASSUME NEW r \in rows', <<r.m, u>> \notin receipts'
            PROVE  \E q \in rows : q.m = r.m /\ <<q.m, u>> \notin receipts
        <5>1. \E q \in rows : q.m = r.m /\ (r.m = j.arg => j.op # "delete")
          BY <1>2, <1>1, <3>2, <3>5, WrittenIs
        <5>2. (r.m = j.arg => j.op # "delete") => (<<r.m, u>> \in receipts => <<r.m, u>> \in receipts')
          BY <3>2 DEF Written
        <5> QED BY <4>2, <5>1, <5>2
      <4> QED BY <1>1, <1>3, <2>1, <3>3, <4>1, <4>2, CountedSame
    <3> QED BY <3>4, <3>5
  <2>4. CASE ~Allowed(j)
    <3>1. jobs' = jobs \ {j} /\ UNCHANGED <<rows, receipts, members, untold>>
      BY <1>6, <2>4, CarryStep DEF tables
    <3>2. \A i \in jobs : i.op = "create" /\ Owes(i, u) => \E l \in jobs' : l.op = "create" /\ Owes(l, u)
      BY <1>5, <2>2, <3>1
    <3> QED BY <1>1, <1>3, <1>4, <2>1, <3>1, <3>2, CountedSame
  <2> QED BY <2>3, <2>4
<1>7. ASSUME NEW j \in jobs, Address(j) PROVE CountedAt(u)'
  <2>1. UNCHANGED <<rows, receipts, members, untold, list, asking, answer>>
    BY <1>7 DEF Address, tables, queries, history, views
  <2>2. PICK k \in Jobs :
           /\ Change(j, k) /\ k.stage = "telling" /\ Same(k, j)
           /\ k.todo = IF j.op = "add" THEN {}
                       ELSE IF j.op \in OnSocket THEN members \ {j.by} ELSE members
    BY <1>1, <1>2, <1>7, AddressStep DEF Same, TablesOK
  <2>3. j.op = "create" => k \in jobs' /\ k.op = "create" /\ Owes(k, u)
    BY <2>1, <2>2 DEF Change, Same, Owes, OnSocket, Typing
  <2>4. \A i \in jobs : i.op = "create" /\ Owes(i, u) => \E l \in jobs' : l.op = "create" /\ Owes(l, u)
    BY <1>5, <2>2, <2>3
  <2> QED BY <1>1, <1>3, <1>4, <2>1, <2>4, CountedSame
<1>8. ASSUME NEW j \in jobs, Finish(j) PROVE CountedAt(u)'
  <2>1. /\ UNCHANGED <<rows, receipts, members, untold, list, answer>>
        /\ jobs' = jobs \ {j} /\ j.stage = "telling" /\ j.todo = {}
    BY <1>8 DEF Finish, tables
  <2>2. asking'[u] = "asked" \/ asking'[u] = asking[u]
    BY <1>1, <1>2, <1>8 DEF Finish, InvalidateList, TabsOK
  <2>3. \A i \in jobs : i.op = "create" /\ Owes(i, u) => \E l \in jobs' : l.op = "create" /\ Owes(l, u)
    BY <1>5, <2>1 DEF Owes
  <2> QED BY <1>1, <1>3, <1>4, <2>1, <2>2, <2>3, CountedSame
<1>9. ASSUME NEW j \in jobs, Fail(j) \/ GiveUp(j) PROVE CountedAt(u)'
  <2>1. /\ UNCHANGED <<rows, receipts, members, list, asking, answer>>
        /\ jobs' = jobs \ {j} /\ untold \subseteq untold'
    BY <1>9 DEF Fail, GiveUp, Miss, tables, queries, views
  <2>2. ~(j.op = "create" /\ Owes(j, u))
    BY <1>1, <1>9 DEF Fail, GiveUp, Miss, Owes, OnSocket, Typing
  <2>3. \A i \in jobs : i.op = "create" /\ Owes(i, u) => \E l \in jobs' : l.op = "create" /\ Owes(l, u)
    BY <1>5, <2>1, <2>2
  <2> QED BY <1>1, <1>3, <1>4, <2>1, <2>3, CountedSame
<1>13. ASSUME NEW j \in jobs, TellNobody(j) PROVE CountedAt(u)'
  <2>1. /\ UNCHANGED <<rows, receipts, members, list, asking, answer>> /\ untold \subseteq untold'
    BY <1>13 DEF TellNobody, Miss, tables, queries
  <2>2. j.op # "create"
    BY <1>1, <1>13 DEF TellNobody, Miss
  <2>3. \E k : Change(j, k)
    BY <1>2, <1>13, MuteStep
  <2>4. \A i \in jobs : i.op = "create" /\ Owes(i, u) => \E l \in jobs' : l.op = "create" /\ Owes(l, u)
    BY <1>5, <2>2, <2>3
  <2> QED BY <1>1, <1>3, <1>4, <2>1, <2>4, CountedSame
<1>14. ASSUME NEW j \in jobs, NEW x \in Users, Tell(j, x), line[x] = 0 PROVE CountedAt(u)'
  <2>1. UNCHANGED <<rows, receipts, members, list, asking, answer>>
    BY <1>14 DEF Tell, tables
  <2>2. PICK k \in Jobs : Change(j, k) /\ Same(k, j) /\ k.stage = "telling" /\ k.todo = j.todo \ {x}
    BY <1>14, TellStep
  <2>3. /\ j.stage = "telling" /\ untold \subseteq untold'
        /\ j.op = "create" => x \in untold'
    <3>1. j.stage = "telling" /\ Miss(j, {x})
      BY <1>14, TellStep
    <3> QED BY <3>1 DEF Miss
  <2>4. j.op = "create" /\ Owes(j, u) => k \in jobs' /\ k.op = "create" /\ Owes(k, u)
    BY <2>2, <2>3 DEF Change, Same, Owes
  <2>5. \A i \in jobs : i.op = "create" /\ Owes(i, u) => \E l \in jobs' : l.op = "create" /\ Owes(l, u)
    BY <1>5, <2>2, <2>4
  <2> QED BY <1>1, <1>3, <1>4, <2>1, <2>3, <2>5, CountedSame
<1>10. ASSUME NEW j \in jobs, NEW x \in Users, Tell(j, x), line[x] # 0 PROVE CountedAt(u)'
  <2>1. UNCHANGED <<rows, receipts, members, list, answer>>
    BY <1>10 DEF Tell, tables
  <2>2. PICK k \in Jobs : Change(j, k) /\ Same(k, j) /\ k.stage = "telling" /\ k.todo = j.todo \ {x}
    BY <1>10, TellStep
  <2>3. Hear(x, j) /\ j.stage = "telling"
    BY <1>10, TellStep
  <2>4. /\ asking'[x] = IF j.op \in {"create", "delete", "read"} THEN "asked" ELSE asking[x]
        /\ u # x => asking'[u] = asking[u]
    <3>1. /\ asking'[x] = IF j.op \in {"create", "delete", "read"} THEN "asked" ELSE asking[x]
          /\ \A y \in Users \ {x} : asking'[y] = asking[y]
      BY <1>1, <1>2, <2>3, HearIs
    <3> QED BY <1>1, <3>1
  <2>5. untold' = untold
    BY <1>10, TellStep
  <2>6. CASE u = x /\ j.op \in {"create", "delete", "read"}
    BY <2>4, <2>6 DEF CountedAt
  <2>7. CASE ~(u = x /\ j.op \in {"create", "delete", "read"})
    <3>1. u \notin untold /\ asking'[u] = asking[u]
      BY <2>4, <2>5, <2>7
    <3>2. j.op = "create" /\ Owes(j, u) => k \in jobs' /\ k.op = "create" /\ Owes(k, u)
      BY <2>2, <2>3, <2>7 DEF Change, Same, Owes
    <3>3. \A i \in jobs : i.op = "create" /\ Owes(i, u) => \E l \in jobs' : l.op = "create" /\ Owes(l, u)
      BY <1>5, <2>2, <3>2
    <3> QED BY <1>1, <1>3, <1>4, <2>1, <3>1, <3>3, CountedSame
  <2> QED BY <2>6, <2>7
<1>11. ASSUME NEW x \in Users, ListMessages(x) \/ AttachReactions(x)
       PROVE  CountedAt(u)'
  <2>1. UNCHANGED <<rows, receipts, members, untold, list, asking, answer, jobs>>
    BY <1>11 DEF ListMessages, AttachReactions, tables, history, views
  <2> QED BY <1>1, <1>3, <1>4, <2>1, CountedSame
<1>12. ASSUME NEW x \in Users, ListConversations(x) PROVE CountedAt(u)'
  <2>1. UNCHANGED <<rows, receipts, members, list, jobs>> /\ untold' = untold \ {x}
    BY <1>12 DEF ListConversations, tables
  <2>2. CASE u = x
    <3>1. asking'[u] = "answered" /\ answer'[u] = Unread(u)
      BY <1>1, <1>12, <2>1, <2>2 DEF ListConversations, TabsOK
    <3>2. Unread(u)' = Unread(u) /\ Unread(u) \in Nat
      BY <1>1, <2>1, UnreadIs DEF Unread
    <3> QED BY <3>1, <3>2 DEF CountedAt
  <2>3. CASE u # x
    <3>1. asking'[u] = asking[u] /\ answer'[u] = answer[u]
      BY <1>1, <1>12, <2>3 DEF ListConversations, TabsOK
    <3>2. u \notin untold
      BY <2>1, <2>3
    <3> QED BY <1>1, <1>3, <1>4, <2>1, <3>1, <3>2, CountedSame
  <2> QED BY <2>2, <2>3
<1> QED BY <1>6, <1>7, <1>8, <1>9, <1>10, <1>11, <1>12, <1>13, <1>14 DEF ServerStep

LEMMA CountedTab ==
  ASSUME Typed, Typed', Counted, NEW u \in Users, UserStep(u) \/ TabStep(u)
  PROVE  Counted'
<1>1. UNCHANGED <<rows, receipts, members, untold, answer>>
  BY DEF UserStep, TabStep, Send, Edit, Delete, Toggle, Type, Invite, Open, Close, Hide, Return,
         StopTyping, MarkLatest, Expire, Drop, Reconnect, ShowMessages, ShowList, tables,
         queries, history, views
<1>2. \A j \in jobs : j.op = "create" => j \in jobs'
  BY DEF UserStep, TabStep, Send, Edit, Delete, Toggle, Type, Invite, Open, Close, Hide, Return,
         StopTyping, MarkLatest, Expire, Drop, Reconnect, ShowMessages, ShowList, Begin, Emit,
         OnSocket, Typing
<1> SUFFICES ASSUME NEW x \in members' \ untold' PROVE CountedAt(x)'
  BY DEF Counted, CountedAt
<1>3. TablesOK /\ TabsOK /\ TablesOK' /\ x \in Users /\ CountedAt(x)
  BY <1>1 DEF Typed, TablesOK, Counted, CountedAt
<1>4. \A r \in rows' : <<r.m, x>> \notin receipts' => \E q \in rows : q.m = r.m /\ <<q.m, x>> \notin receipts
  BY <1>1
<1>5. CASE ShowList(u)
  <2>1. CASE x = u
    <3>1. asking[u] = "answered" /\ asking'[u] = "no" /\ list'[u] = answer[u] /\ jobs' = jobs
      BY <1>3, <1>5 DEF ShowList, TabsOK
    <3>2. Unread(u)' = Unread(u)
      BY <1>1 DEF Unread
    <3> QED BY <1>3, <2>1, <3>1, <3>2 DEF CountedAt, Owes
  <2>2. CASE x # u
    <3>1. asking'[x] = asking[x] /\ list'[x] = list[x]
      BY <1>3, <1>5, <2>2 DEF ShowList, TabsOK
    <3> QED BY <1>1, <1>2, <1>3, <1>4, <3>1, CountedSame
  <2> QED BY <2>1, <2>2
<1>6. CASE ~ShowList(u)
  <2>1. list' = list
    BY <1>6 DEF UserStep, TabStep, Send, Edit, Delete, Toggle, Type, Invite, Open, Close, Hide, Return,
         StopTyping, MarkLatest, Expire, Drop, Reconnect, ShowMessages, queries
  <2>2. asking'[x] = "asked" \/ asking'[x] = asking[x]
    BY <1>3, <1>6 DEF UserStep, TabStep, Send, Edit, Delete, Toggle, Type, Invite, Open, Close, Hide, Return,
         StopTyping, MarkLatest, Expire, Drop, Reconnect, ShowMessages, queries, TabsOK
  <2> QED BY <1>1, <1>2, <1>3, <1>4, <2>1, <2>2, CountedSame
<1> QED BY <1>5, <1>6

(* When nothing is under way, no badge of a member counts less than what is *)
(* unread, but for who was not told of the conversation or of a message and *)
(* has not fetched the list since: the query of the members failed, the     *)
(* request was given up, or the member's socket was not open.               *)
THEOREM BadgeCountsUnread == Spec => []BadgeNeverLow
<1>1. ASSUME Init PROVE Counted
  <2>1. ASSUME NEW u \in Founders PROVE asking[u] = "no" /\ list[u] = Unread(u) /\ u \in Users
    BY <1>1, SignalsAssumption DEF Init
  <2>2. \A u : Unread(u) \in Nat
    BY <1>1, InitTyped, UnreadIs DEF Typed
  <2>3. members = Founders
    BY <1>1 DEF Init
  <2> QED BY <2>1, <2>2, <2>3 DEF Counted
<1>2. IInv /\ IInv' /\ Counted /\ [Next]_vars => Counted'
  <2> SUFFICES ASSUME IInv, Counted, UNCHANGED vars PROVE Counted'
    BY CountedServer, CountedTab DEF Next, IInv
  <2>1. UNCHANGED <<jobs, rows, receipts, members, list, asking, answer, untold>>
    BY DEF vars, tables, queries, history, views
  <2> QED BY <2>1 DEF Counted, Owes, Unread
<1>3. IInv /\ Counted => BadgeNeverLow
  BY DEF Counted, BadgeNeverLow, Quiet, IInv, Typed, TablesOK
<1> QED BY <1>1, <1>2, <1>3, Always, PTL DEF Spec

-----------------------------------------------------------------------------
(* Reactions: a tab that nothing left behind shows what is stored, but for  *)
(* what somebody is still to tell it and for what its own user has just     *)
(* asked for.                                                               *)

Kept(u) ==
  /\ raced \subseteq raced'
  /\ \A j \in jobs : j.op \in {"create", "delete", "react", "unreact"} /\ Owes(j, u) =>
       \E k \in jobs' : Same(k, j) /\ Owes(k, u)
  /\ \A j \in jobs : IsToggle(j, u, j.arg) /\ j.stage = "asked" =>
       \/ j \in jobs'
       \/ \A r \in rows' : r.m # j.arg
       \/ \E k \in jobs' : IsToggle(k, u, j.arg) /\ Owes(k, u)
RowsKept(u, copies) ==
  /\ \A c \in copies : \A q \in rows : q.m = c.m =>
       \/ \E r \in rows' : r.m = c.m
       \/ \E k \in jobs' : k.op = "delete" /\ k.arg = c.m /\ Owes(k, u)
  /\ \A r \in rows' :
       \/ \E q \in rows :
            /\ q.m = r.m
            /\ \A w \in Users \ raced' :
                 (w \in r.reacted <=> w \in q.reacted) \/ \E k \in jobs' : IsToggle(k, w, r.m) /\ Owes(k, u)
       \/ /\ r.reacted = {} /\ \A c \in copies : c.m # r.m
          /\ \E k \in jobs' : k.op = "create" /\ k.arg = r.m /\ Owes(k, u)

LEMMA PlacedKept ==
  ASSUME rows' \subseteq Copy, NEW u, NEW copies, Kept(u), RowsKept(u, copies), Placed(u, copies)
  PROVE  Placed(u, copies)'
<1>1. ASSUME NEW c \in copies
      PROVE  RowOf(c.m)' # {} \/ \E j \in jobs' : j.op = "delete" /\ j.arg = c.m /\ Owes(j, u)
  <2>1. CASE \E q \in rows : q.m = c.m
    BY <2>1 DEF RowsKept, RowOf
  <2>2. CASE \E j \in jobs : j.op = "delete" /\ j.arg = c.m /\ Owes(j, u)
    BY <2>2 DEF Kept, Same
  <2> QED BY <2>1, <2>2 DEF Placed, RowOf
<1>2. ASSUME NEW r \in rows', \A c \in copies : c.m # r.m
      PROVE  /\ \E j \in jobs' : j.op = "create" /\ j.arg = r.m /\ Owes(j, u)
             /\ \A w \in r.reacted \ raced' : \E j \in jobs' : IsToggle(j, w, r.m) /\ Owes(j, u)
  <2>1. CASE /\ r.reacted = {}
             /\ \E k \in jobs' : k.op = "create" /\ k.arg = r.m /\ Owes(k, u)
    BY <2>1
  <2>2. ASSUME NEW q \in rows, q.m = r.m,
               \A w \in Users \ raced' :
                 (w \in r.reacted <=> w \in q.reacted) \/ \E k \in jobs' : IsToggle(k, w, r.m) /\ Owes(k, u)
        PROVE  /\ \E j \in jobs' : j.op = "create" /\ j.arg = r.m /\ Owes(j, u)
               /\ \A w \in r.reacted \ raced' : \E j \in jobs' : IsToggle(j, w, r.m) /\ Owes(j, u)
    <3>1. /\ \E j \in jobs : j.op = "create" /\ j.arg = r.m /\ Owes(j, u)
          /\ \A w \in q.reacted \ raced : \E j \in jobs : IsToggle(j, w, r.m) /\ Owes(j, u)
      BY <1>2, <2>2 DEF Placed, Created
    <3>2. \E j \in jobs' : j.op = "create" /\ j.arg = r.m /\ Owes(j, u)
      BY <3>1 DEF Kept, Same
    <3>3. ASSUME NEW w \in r.reacted \ raced' PROVE \E j \in jobs' : IsToggle(j, w, r.m) /\ Owes(j, u)
      <4>1. w \in Users \ raced'
        BY DEF Copy
      <4>2. CASE w \in q.reacted
        <5>1. PICK j \in jobs : IsToggle(j, w, r.m) /\ Owes(j, u)
          BY <3>1, <4>2 DEF Kept
        <5> QED BY <5>1 DEF Kept, Same, IsToggle
      <4> QED BY <2>2, <4>1, <4>2
    <3> QED BY <3>2, <3>3
  <2> QED BY <1>2, <2>1, <2>2 DEF RowsKept
<1> QED BY <1>1, <1>2 DEF Placed, Created

LEMMA ShowsKept ==
  ASSUME NEW u, NEW copies, Kept(u), RowsKept(u, copies), Shows(u, copies)
  PROVE  Shows(u, copies)'
<1> SUFFICES ASSUME NEW c \in copies, NEW r \in rows', r.m = c.m, NEW w \in Users \ raced',
                    ~(w \in c.reacted <=> w \in r.reacted)
             PROVE  \E j \in jobs' :
                      /\ IsToggle(j, w, c.m)
                      /\ Owes(j, u) \/ (j.stage = "asked" /\ w = u /\ (w \in c.reacted <=> j.op = "react"))
  BY DEF Shows, Excused
<1>1. w \in Users \ raced
  BY DEF Kept
<1>2. PICK q \in rows :
        /\ q.m = r.m
        /\ (w \in r.reacted <=> w \in q.reacted) \/ \E k \in jobs' : IsToggle(k, w, r.m) /\ Owes(k, u)
  BY DEF RowsKept
<1>3. CASE w \in r.reacted <=> w \in q.reacted
  <2>1. PICK j \in jobs :
           /\ IsToggle(j, w, c.m)
           /\ Owes(j, u) \/ (j.stage = "asked" /\ w = u /\ (w \in c.reacted <=> j.op = "react"))
    BY <1>1, <1>2, <1>3 DEF Shows, Excused
  <2>2. CASE Owes(j, u)
    BY <2>1, <2>2 DEF Kept, Same, IsToggle
  <2>3. CASE j.stage = "asked" /\ w = u
    BY <2>1, <2>3 DEF Kept, IsToggle
  <2> QED BY <2>1, <2>2, <2>3
<1> QED BY <1>2, <1>3

LEMMA FineKept ==
  ASSUME rows' \subseteq Copy, NEW u, Kept(u), RowsKept(u, cache[u]), RowsKept(u, page[u]), Fine(u),
         fetching'[u] = fetching[u] \/ fetching'[u] = "asked",
         cache'[u] = cache[u], page'[u] = page[u],
         u \in behind => u \in behind', u \in dirty => u \in dirty'
  PROVE  Fine(u)'
<1> PICK shows \in {cache[u]} : TRUE
  OBVIOUS
<1> PICK read \in {page[u]} : TRUE
  OBVIOUS
<1>1. /\ Placed(u, shows) => Placed(u, shows)'
      /\ Placed(u, read) => Placed(u, read)'
  BY PlacedKept
<1>2. /\ Shows(u, shows) => Shows(u, shows)'
      /\ Shows(u, read) => Shows(u, read)'
  BY ShowsKept
<1>3. /\ Placed(u, shows)' => Placed(u, cache[u])'
      /\ Placed(u, read)' => Placed(u, page[u])'
  BY DEF Placed, Created, RowOf
<1>4. /\ Shows(u, shows)' => Shows(u, cache[u])'
      /\ Shows(u, read)' => Shows(u, page[u])'
  BY DEF Shows, Excused
<1>5. CASE fetching'[u] = "asked"
  BY <1>5 DEF Fine
<1>6. CASE fetching'[u] = fetching[u]
  BY <1>1, <1>2, <1>3, <1>4, <1>6 DEF Fine
<1> QED BY <1>5, <1>6

(* Steps that leave the rows alone.                                         *)
LEMMA RowsStay == ASSUME UNCHANGED rows, NEW u, NEW copies PROVE RowsKept(u, copies)
BY DEF RowsKept

LEMMA FineOther ==
  ASSUME TablesOK, UNCHANGED rows, NEW u, Kept(u), Fine(u),
         fetching'[u] = fetching[u] \/ fetching'[u] = "asked",
         cache'[u] = cache[u], page'[u] = page[u],
         u \in behind => u \in behind', u \in dirty => u \in dirty'
  PROVE  Fine(u)'
<1>1. rows' \subseteq Copy /\ RowsKept(u, cache[u]) /\ RowsKept(u, page[u])
  BY RowsStay DEF TablesOK
<1> QED BY <1>1, FineKept

LEMMA StoredMoves ==
  ASSUME Typed, Typed', Stored, raced \subseteq raced', NEW j \in jobs,
         jobs' = jobs \ {j} \/ \E k \in Jobs : Change(j, k) /\ Same(k, j)
  PROVE  \A i, l \in jobs' : \A w \in Users \ raced' :
           IsToggle(i, w, i.arg) /\ IsToggle(l, w, i.arg) => i = l
<1> SUFFICES ASSUME NEW i \in jobs', NEW l \in jobs', NEW w \in Users \ raced',
                    IsToggle(i, w, i.arg), IsToggle(l, w, i.arg)
             PROVE  i = l
  OBVIOUS
<1>1. PICK p \in jobs : Same(i, p)
  BY DEF Change, Same
<1>2. PICK q \in jobs : Same(l, q)
  BY DEF Change, Same
<1>3. p = q
  BY <1>1, <1>2 DEF Stored, Same, IsToggle
<1> QED BY <1>1, <1>2, <1>3 DEF Same, Typed, JobsOK

LEMMA StoredStay ==
  ASSUME Typed, Typed', Stored, UNCHANGED <<rows, raced>>, NEW j \in jobs,
         \/ jobs' = jobs \ {j}
         \/ j.stage # "asked" /\ \E k \in Jobs : Change(j, k) /\ Same(k, j)
  PROVE  Stored'
<1>1. \A i, l \in jobs' : \A w \in Users \ raced' :
        IsToggle(i, w, i.arg) /\ IsToggle(l, w, i.arg) => i = l
  BY StoredMoves
<1>2. ASSUME NEW i \in jobs', i.stage # "asked"
      PROVE  \E p \in jobs : p.stage # "asked" /\ Same(i, p)
  BY <1>2 DEF Change, Same
<1>3. ASSUME NEW i \in jobs', NEW w \in Users \ raced', NEW r \in rows', IsToggle(i, w, r.m), i.stage # "asked"
      PROVE  w \in r.reacted <=> i.op = "react"
  <2>1. PICK p \in jobs : p.stage # "asked" /\ Same(i, p)
    BY <1>2, <1>3
  <2>2. IsToggle(p, w, r.m)
    BY <1>3, <2>1 DEF IsToggle, Same
  <2> QED BY <2>1, <2>2 DEF Stored, Same
<1>4. ASSUME NEW i \in jobs', i.op = "delete", i.stage # "asked" PROVE RowOf(i.arg)' = {}
  <2>1. PICK p \in jobs : p.stage # "asked" /\ Same(i, p)
    BY <1>2, <1>4
  <2>2. RowOf(p.arg) = {}
    BY <1>4, <2>1 DEF Stored, Same
  <2> QED BY <2>1, <2>2 DEF RowOf, Same
<1> QED BY <1>1, <1>3, <1>4 DEF Stored

(* What becomes of the rows when a statement is carried out.                *)
LEMMA CarriedRows ==
  ASSUME Typed, Fresh, NEW j \in jobs, Carry(j), Allowed(j)
  PROVE  /\ \A r \in rows' :
              \/ /\ j.op = "create" /\ r.m = j.arg /\ r.reacted = {}
                 /\ \A q \in rows : q.m # j.arg
              \/ \E q \in rows :
                   /\ q.m = r.m /\ (r.m = j.arg => j.op # "delete")
                   /\ \A w : (w \in r.reacted <=> w \in q.reacted) \/ IsToggle(j, w, r.m)
                   /\ IsToggle(j, j.by, r.m) => (j.by \in r.reacted <=> j.op = "react")
         /\ \A q \in rows :
              \/ j.op = "delete" /\ q.m = j.arg
              \/ \E r \in rows' : r.m = q.m
<1>1. TablesOK /\ j \in Jobs /\ (j.op \in About => j.arg \in Message)
  BY DEF Typed, JobsOK
<1>2. Written(j) /\ j.stage = "asked"
  BY CarryStep
<1>3. j.op = "create" => \A q \in rows : q.m # j.arg
  BY <1>2 DEF Fresh, Made
<1>4. ASSUME NEW r \in rows'
      PROVE  \/ /\ j.op = "create" /\ r.m = j.arg /\ r.reacted = {}
                /\ \A q \in rows : q.m # j.arg
             \/ \E q \in rows :
                   /\ q.m = r.m /\ (r.m = j.arg => j.op # "delete")
                   /\ \A w : (w \in r.reacted <=> w \in q.reacted) \/ IsToggle(j, w, r.m)
                   /\ IsToggle(j, j.by, r.m) => (j.by \in r.reacted <=> j.op = "react")
  <2>1. CASE r.m # j.arg
    <3>1. r \in rows
      BY <1>1, <1>2, <2>1, WrittenIs
    <3> QED BY <2>1, <3>1 DEF IsToggle
  <2>2. CASE r.m = j.arg /\ j.op = "create" /\ r = Row(j.arg)
    BY <1>3, <2>2, RowIs
  <2>3. CASE r.m = j.arg /\ ~(j.op = "create" /\ r = Row(j.arg))
    <3>1. PICK q \in rows :
             /\ q.m = j.arg /\ j.op \notin {"create", "delete"}
             /\ r = [m |-> q.m,
                     version |-> IF j.op = "edit" THEN q.version + 1 ELSE q.version,
                     reacted |-> IF j.op = "react" THEN q.reacted \cup {j.by}
                                 ELSE IF j.op = "unreact" THEN q.reacted \ {j.by}
                                 ELSE q.reacted]
      BY <1>1, <1>2, <2>3, WrittenIs
    <3>2. r.reacted = IF j.op = "react" THEN q.reacted \cup {j.by}
                      ELSE IF j.op = "unreact" THEN q.reacted \ {j.by}
                      ELSE q.reacted
      BY <3>1
    <3> QED BY <2>3, <3>1, <3>2 DEF IsToggle
  <2> QED BY <2>1, <2>2, <2>3
<1>5. ASSUME NEW q \in rows PROVE \/ j.op = "delete" /\ q.m = j.arg
                                  \/ \E r \in rows' : r.m = q.m
  BY <1>1, <1>2, <1>3, WrittenIs
<1> QED BY <1>4, <1>5

LEMMA StoredCarry ==
  ASSUME Typed, Typed', Fresh, Stored, NEW j \in jobs, Carry(j), Allowed(j)
  PROVE  Stored'
<1>1. PICK k \in Jobs : Change(j, k) /\ Same(k, j) /\ k.stage = "written"
  BY CarryStep
<1>2. UNCHANGED raced /\ j.stage = "asked"
  BY DEF Carry
<1>3. \A i, l \in jobs' : \A w \in Users \ raced' :
        IsToggle(i, w, i.arg) /\ IsToggle(l, w, i.arg) => i = l
  BY <1>1, <1>2, StoredMoves
<1>4. ASSUME NEW i \in jobs', i # k, i.stage # "asked"
      PROVE  i \in jobs /\ i # j /\ (i.op \in About => Made(i.arg))
  BY <1>1, <1>2, <1>4 DEF Change, Fresh
<1>5. ASSUME NEW i \in jobs', NEW w \in Users \ raced', NEW r \in rows', IsToggle(i, w, r.m), i.stage # "asked"
      PROVE  w \in r.reacted <=> i.op = "react"
  <2>1. CASE i = k
    <3>1. IsToggle(j, w, r.m) /\ j.by = w /\ i.op = j.op /\ j.op # "create"
      BY <1>1, <1>5, <2>1 DEF IsToggle, Same
    <3> QED BY <3>1, CarriedRows
  <2>2. CASE i # k
    <3>1. i \in jobs /\ i # j /\ Made(r.m)
      BY <1>4, <1>5, <2>2 DEF IsToggle, About
    <3>2. ~IsToggle(j, w, r.m)
      BY <1>2, <1>5, <3>1 DEF Stored, IsToggle
    <3>3. ~(j.op = "create" /\ r.m = j.arg)
      BY <1>2, <3>1 DEF Made
    <3>4. PICK q \in rows : q.m = r.m /\ (w \in r.reacted <=> w \in q.reacted)
      BY <3>2, <3>3, CarriedRows
    <3>5. w \in q.reacted <=> i.op = "react"
      BY <1>2, <1>5, <3>1, <3>4 DEF Stored
    <3> QED BY <3>4, <3>5
  <2> QED BY <2>1, <2>2
<1>6. ASSUME NEW i \in jobs', i.op = "delete", i.stage # "asked", NEW r \in rows', r.m = i.arg PROVE FALSE
  <2>1. CASE i = k
    <3>1. j.op = "delete" /\ r.m = j.arg
      BY <1>1, <1>6, <2>1 DEF Same
    <3> QED BY <3>1, CarriedRows
  <2>2. CASE i # k
    <3>1. i \in jobs /\ i # j /\ Made(r.m)
      BY <1>4, <1>6, <2>2 DEF About
    <3>2. ~(j.op = "create" /\ r.m = j.arg)
      BY <1>2, <3>1 DEF Made
    <3>3. \E q \in rows : q.m = r.m
      BY <3>2, CarriedRows
    <3> QED BY <1>6, <3>1, <3>3 DEF Stored, RowOf
  <2> QED BY <2>1, <2>2
<1> QED BY <1>3, <1>5, <1>6 DEF Stored, RowOf

LEMMA CarryFine ==
  ASSUME Typed, Typed', Fresh, Stored, NEW j \in jobs, Carry(j), Allowed(j), NEW u \in Users, Fine(u)
  PROVE  Fine(u)'
<1>1. PICK k \in Jobs : Change(j, k) /\ Same(k, j) /\ k.stage = "written"
  BY CarryStep
<1>2. /\ UNCHANGED <<raced, fetching, cache, page, behind, dirty>>
      /\ j.stage = "asked" /\ j.todo = {}
  BY CarryStep DEF Carry
<1>3. k \in jobs' /\ Owes(k, u) /\ ~Owes(j, u) /\ \A i \in jobs : i # j => i \in jobs'
  BY <1>1, <1>2 DEF Change, Owes
<1>4. Kept(u)
  <2>1. ASSUME NEW i \in jobs, Owes(i, u) PROVE \E l \in jobs' : Same(l, i) /\ Owes(l, u)
    BY <1>3, <2>1 DEF Same
  <2>2. ASSUME NEW i \in jobs, IsToggle(i, u, i.arg)
        PROVE  i \in jobs' \/ \E l \in jobs' : IsToggle(l, u, i.arg) /\ Owes(l, u)
    BY <1>1, <1>3, <2>2 DEF Same, IsToggle
  <2> QED BY <1>2, <2>1, <2>2 DEF Kept
<1>5. ASSUME NEW copies, \A c \in copies : Made(c.m) PROVE RowsKept(u, copies)
  <2>1. ASSUME NEW c \in copies, NEW q \in rows, q.m = c.m
        PROVE  \/ \E r \in rows' : r.m = c.m
               \/ \E i \in jobs' : i.op = "delete" /\ i.arg = c.m /\ Owes(i, u)
    <3>1. CASE j.op = "delete" /\ q.m = j.arg
      BY <1>1, <1>3, <2>1, <3>1 DEF Same
    <3> QED BY <2>1, <3>1, CarriedRows
  <2>2. ASSUME NEW r \in rows'
        PROVE  \/ \E q \in rows :
                    /\ q.m = r.m
                    /\ \A w \in Users \ raced' :
                         \/ w \in r.reacted <=> w \in q.reacted
                         \/ \E i \in jobs' : IsToggle(i, w, r.m) /\ Owes(i, u)
               \/ /\ r.reacted = {} /\ \A c \in copies : c.m # r.m
                  /\ \E i \in jobs' : i.op = "create" /\ i.arg = r.m /\ Owes(i, u)
    <3>1. CASE j.op = "create" /\ r.m = j.arg /\ r.reacted = {}
      <4>1. k.op = "create" /\ k.arg = r.m
        BY <1>1, <3>1 DEF Same
      <4>2. \A c \in copies : c.m # r.m
        BY <1>2, <1>5, <3>1 DEF Made
      <4> QED BY <1>3, <3>1, <4>1, <4>2
    <3>2. CASE \E q \in rows :
                   /\ q.m = r.m
                   /\ \A w : (w \in r.reacted <=> w \in q.reacted) \/ IsToggle(j, w, r.m)
      <4>1. \A w : IsToggle(j, w, r.m) => IsToggle(k, w, r.m)
        BY <1>1 DEF Same, IsToggle
      <4> QED BY <1>3, <3>2, <4>1
    <3> QED BY <3>1, <3>2, CarriedRows
  <2> QED BY <2>1, <2>2 DEF RowsKept
<1>6. RowsKept(u, cache[u]) /\ RowsKept(u, page[u])
  <2>1. \A c \in cache[u] : Made(c.m)
    BY DEF Fresh
  <2>2. \A c \in page[u] : Made(c.m)
    BY DEF Fresh
  <2> PICK shows \in {cache[u]} : TRUE
    OBVIOUS
  <2> PICK read \in {page[u]} : TRUE
    OBVIOUS
  <2>3. RowsKept(u, shows) /\ RowsKept(u, read)
    BY <1>5, <2>1, <2>2
  <2> QED BY <2>3
<1>7. rows' \subseteq Copy
  BY DEF Typed, TablesOK
<1> QED BY <1>2, <1>4, <1>6, <1>7, FineKept

(* What a tab makes of its copies of the messages, when that loses nothing. *)
LEMMA GotIs ==
  ASSUME NEW j \in Jobs, j.op \in About => j.arg \in Message, NEW copies \in SUBSET Copy,
         NEW got, got = Applied(copies, j), ~Loses(copies, j)
  PROVE  /\ \A c \in got :
              \/ \E d \in copies :
                   /\ d.m = c.m
                   /\ \A w : (w \in c.reacted <=> w \in d.reacted) \/ IsToggle(j, w, c.m)
                   /\ IsToggle(j, j.by, c.m) => (j.by \in c.reacted <=> j.op = "react")
              \/ /\ j.op = "create" /\ c.m = j.arg /\ c.reacted = {}
                 /\ \A d \in copies : d.m # j.arg
         /\ \A d \in copies : \/ j.op = "delete" /\ d.m = j.arg
                              \/ \E c \in got : c.m = d.m
         /\ j.op = "create" => (\E c \in got : c.m = j.arg) /\ (\E r \in rows : r.m = j.arg)
         /\ j.op = "delete" => \A c \in got : c.m # j.arg
         /\ j.op \in {"react", "unreact"} => \E d \in copies : d.m = j.arg
<1>1. CASE j.op = "create"
  <2>1. got = {c \in copies : c.m # j.arg} \cup {Row(j.arg)}
    BY <1>1 DEF Applied
  <2>2. Row(j.arg).m = j.arg /\ Row(j.arg).reacted = {}
    BY RowIs
  <2>3. \A d \in copies : d.m = j.arg => d.reacted = {}
    <3> SUFFICES ASSUME NEW d \in copies, d.m = j.arg, d.reacted # {} PROVE FALSE
      OBVIOUS
    <3>1. d \notin got
      BY <2>1, <2>2
    <3> QED BY <1>1, <3>1 DEF Loses
  <2>4. \E r \in rows : r.m = j.arg
    BY <1>1 DEF Loses
  <2>5. ASSUME NEW c \in got
        PROVE  \/ c \in copies /\ c.m # j.arg
               \/ c.m = j.arg /\ c.reacted = {}
    BY <2>1, <2>2
  <2>6. \A m : ~IsToggle(j, j.by, m)
    BY <1>1 DEF IsToggle
  <2> QED BY <1>1, <2>1, <2>2, <2>3, <2>4, <2>5, <2>6
<1>2. CASE j.op = "edit"
  <2> DEFINE new(c) == IF c.m = j.arg /\ j.version >= c.version
                         THEN [Row(c.m) EXCEPT !.version = j.version] ELSE c
  <2>1. ASSUME NEW c \in copies
        PROVE  /\ new(c).m = c.m
               /\ new(c) = c \/ (c.m = j.arg /\ new(c).reacted = {})
    <3> PICK fresh \in {[Row(c.m) EXCEPT !.version = j.version]} : TRUE
      OBVIOUS
    <3>1. fresh.m = c.m /\ fresh.reacted = {}
      BY DEF Row
    <3>2. new(c) = IF c.m = j.arg /\ j.version >= c.version THEN fresh ELSE c
      OBVIOUS
    <3> HIDE DEF new
    <3> QED BY <3>1, <3>2
  <2>2. got = {new(c) : c \in copies}
    BY <1>2 DEF Applied
  <2> HIDE DEF new
  <2>3. ASSUME NEW c \in copies PROVE new(c).reacted = c.reacted
    <3> SUFFICES ASSUME c.m = j.arg, new(c) # c, c.reacted # {} PROVE FALSE
      BY <2>1
    <3>1. \A d \in copies : new(d) # c
      BY <2>1
    <3> QED BY <1>2, <2>2, <3>1 DEF Loses
  <2>4. \A m, w : ~IsToggle(j, w, m)
    BY <1>2 DEF IsToggle
  <2> QED BY <1>2, <2>1, <2>2, <2>3, <2>4
<1>3. CASE j.op = "delete"
  <2>1. got = {c \in copies : c.m # j.arg}
    BY <1>3 DEF Applied
  <2>2. \A m, w : ~IsToggle(j, w, m)
    BY <1>3 DEF IsToggle
  <2> QED BY <1>3, <2>1, <2>2
<1>4. CASE j.op = "react"
  <2> DEFINE new(c) == IF c.m = j.arg THEN [c EXCEPT !.reacted = @ \cup {j.by}] ELSE c
  <2>1. ASSUME NEW c \in copies
        PROVE  /\ new(c).m = c.m
               /\ new(c).reacted = IF c.m = j.arg THEN c.reacted \cup {j.by} ELSE c.reacted
    BY DEF Copy
  <2>2. got = {new(c) : c \in copies}
    BY <1>4 DEF Applied
  <2> HIDE DEF new
  <2>3. \E d \in copies : d.m = j.arg
    BY <1>4 DEF Loses
  <2>4. \A m, w : IsToggle(j, w, m) <=> m = j.arg /\ w = j.by
    BY <1>4 DEF IsToggle
  <2>5. ASSUME NEW c \in got
        PROVE  \E d \in copies :
                 /\ d.m = c.m
                 /\ \A w : (w \in c.reacted <=> w \in d.reacted) \/ IsToggle(j, w, c.m)
                 /\ IsToggle(j, j.by, c.m) => j.by \in c.reacted
    <3>1. PICK d \in copies : c = new(d)
      BY <2>2
    <3> QED BY <2>1, <2>4, <3>1
  <2>6. \A d \in copies : \E c \in got : c.m = d.m
    BY <2>1, <2>2
  <2> QED BY <1>4, <2>3, <2>5, <2>6
<1>5. CASE j.op = "unreact"
  <2> DEFINE new(c) == IF c.m = j.arg THEN [c EXCEPT !.reacted = @ \ {j.by}] ELSE c
  <2>1. ASSUME NEW c \in copies
        PROVE  /\ new(c).m = c.m
               /\ new(c).reacted = IF c.m = j.arg THEN c.reacted \ {j.by} ELSE c.reacted
    BY DEF Copy
  <2>2. got = {new(c) : c \in copies}
    BY <1>5 DEF Applied
  <2> HIDE DEF new
  <2>3. \E d \in copies : d.m = j.arg
    BY <1>5 DEF Loses
  <2>4. \A m, w : IsToggle(j, w, m) <=> m = j.arg /\ w = j.by
    BY <1>5 DEF IsToggle
  <2>5. ASSUME NEW c \in got
        PROVE  \E d \in copies :
                 /\ d.m = c.m
                 /\ \A w : (w \in c.reacted <=> w \in d.reacted) \/ IsToggle(j, w, c.m)
                 /\ IsToggle(j, j.by, c.m) => j.by \notin c.reacted
    <3>1. PICK d \in copies : c = new(d)
      BY <2>2
    <3> QED BY <2>1, <2>4, <3>1
  <2>6. \A d \in copies : \E c \in got : c.m = d.m
    BY <2>1, <2>2
  <2> QED BY <1>5, <2>3, <2>5, <2>6
<1>6. CASE j.op \notin {"create", "edit", "delete", "react", "unreact"}
  <2>1. got = copies
    BY <1>6 DEF Applied
  <2>2. \A m, w : ~IsToggle(j, w, m)
    BY <1>6 DEF IsToggle
  <2> QED BY <1>6, <2>1, <2>2
<1> QED BY <1>1, <1>2, <1>3, <1>4, <1>5, <1>6

LEMMA Taken ==
  ASSUME Stored, UNCHANGED <<rows, raced>>, NEW u, NEW j \in jobs, j \in Jobs, j.stage = "telling",
         j.op \in About => j.arg \in Message, \A i \in jobs : i # j => i \in jobs',
         NEW copies \in SUBSET Copy, Placed(u, copies), Shows(u, copies), ~Loses(copies, j),
         NEW got, got = Applied(copies, j)
  PROVE  Placed(u, got)' /\ Shows(u, got)'
<1>1. \A c \in got :
        \/ \E d \in copies :
             /\ d.m = c.m
             /\ \A w : (w \in c.reacted <=> w \in d.reacted) \/ IsToggle(j, w, c.m)
             /\ IsToggle(j, j.by, c.m) => (j.by \in c.reacted <=> j.op = "react")
        \/ /\ j.op = "create" /\ c.m = j.arg /\ c.reacted = {}
           /\ \A d \in copies : d.m # j.arg
  BY GotIs
<1>2. /\ \A d \in copies : (j.op = "delete" /\ d.m = j.arg) \/ \E c \in got : c.m = d.m
      /\ j.op = "create" => (\E c \in got : c.m = j.arg) /\ (\E r \in rows : r.m = j.arg)
      /\ j.op = "delete" => \A c \in got : c.m # j.arg
      /\ j.op \in {"react", "unreact"} => \E d \in copies : d.m = j.arg
  BY GotIs
<1>3. ASSUME NEW c \in got
      PROVE  RowOf(c.m)' # {} \/ \E i \in jobs' : i.op = "delete" /\ i.arg = c.m /\ Owes(i, u)
  <2>1. CASE j.op = "create" /\ c.m = j.arg
    BY <1>2, <2>1 DEF RowOf
  <2>2. CASE \E d \in copies : d.m = c.m
    <3>1. RowOf(c.m) # {} \/ \E i \in jobs : i.op = "delete" /\ i.arg = c.m /\ Owes(i, u)
      BY <2>2 DEF Placed
    <3>2. ~(j.op = "delete" /\ j.arg = c.m)
      BY <1>2
    <3> QED BY <3>1, <3>2 DEF RowOf
  <2> QED BY <1>1, <2>1, <2>2
<1>4. ASSUME NEW r \in rows', \A c \in got : c.m # r.m
      PROVE  /\ \E i \in jobs' : i.op = "create" /\ i.arg = r.m /\ Owes(i, u)
             /\ \A w \in r.reacted \ raced' : \E i \in jobs' : IsToggle(i, w, r.m) /\ Owes(i, u)
  <2>1. ~(j.op = "delete" /\ j.arg = r.m)
    BY DEF Stored, RowOf
  <2>2. \A d \in copies : d.m # r.m
    BY <1>2, <1>4, <2>1
  <2>3. /\ \E i \in jobs : i.op = "create" /\ i.arg = r.m /\ Owes(i, u)
        /\ \A w \in r.reacted \ raced : \E i \in jobs : IsToggle(i, w, r.m) /\ Owes(i, u)
    BY <2>2 DEF Placed, Created
  <2>4. ~(j.op = "create" /\ j.arg = r.m) /\ \A w : ~IsToggle(j, w, r.m)
    BY <1>2, <1>4, <2>2 DEF IsToggle
  <2> QED BY <2>3, <2>4
<1>5. ASSUME NEW c \in got, NEW r \in rows', r.m = c.m, NEW w \in Users \ raced',
             ~(w \in c.reacted <=> w \in r.reacted)
      PROVE  \E i \in jobs' :
               /\ IsToggle(i, w, c.m)
               /\ Owes(i, u) \/ (i.stage = "asked" /\ w = u /\ (w \in c.reacted <=> i.op = "react"))
  <2>1. CASE j.op = "create" /\ c.m = j.arg /\ c.reacted = {} /\ \A d \in copies : d.m # j.arg
    <3>1. PICK i \in jobs : IsToggle(i, w, c.m) /\ Owes(i, u)
      BY <1>5, <2>1 DEF Placed
    <3>2. i # j
      BY <2>1, <3>1 DEF IsToggle
    <3> QED BY <3>1, <3>2
  <2>2. ASSUME NEW d \in copies, d.m = c.m,
               \A v : (v \in c.reacted <=> v \in d.reacted) \/ IsToggle(j, v, c.m),
               IsToggle(j, j.by, c.m) => (j.by \in c.reacted <=> j.op = "react")
        PROVE  \E i \in jobs' :
                 /\ IsToggle(i, w, c.m)
                 /\ Owes(i, u) \/ (i.stage = "asked" /\ w = u /\ (w \in c.reacted <=> i.op = "react"))
    <3>1. ~IsToggle(j, w, c.m)
      <4> SUFFICES ASSUME IsToggle(j, w, c.m) PROVE FALSE
        OBVIOUS
      <4>1. j.by = w /\ IsToggle(j, w, r.m)
        BY <1>5 DEF IsToggle
      <4>2. w \in r.reacted <=> j.op = "react"
        BY <1>5, <4>1 DEF Stored
      <4> QED BY <1>5, <2>2, <4>1, <4>2
    <3>2. w \in c.reacted <=> w \in d.reacted
      BY <2>2, <3>1
    <3>3. PICK i \in jobs :
             /\ IsToggle(i, w, c.m)
             /\ Owes(i, u) \/ (i.stage = "asked" /\ w = u /\ (w \in c.reacted <=> i.op = "react"))
      BY <1>5, <2>2, <3>2 DEF Shows, Excused
    <3> QED BY <3>1, <3>3
  <2> QED BY <1>1, <2>1, <2>2
<1>6. Placed(u, got)'
  BY <1>3, <1>4 DEF Placed, Created
<1>7. Shows(u, got)'
  BY <1>5 DEF Shows, Excused
<1> QED BY <1>6, <1>7

(* A tab that takes in an event or an answer.                               *)
LEMMA TakenFine ==
  ASSUME Typed, Stored, UNCHANGED <<rows, raced, fetching, page>>, NEW u \in Users, NEW j \in jobs,
         j.stage = "telling", \A i \in jobs : i # j => i \in jobs', TakeIn(u, j), Fine(u)
  PROVE  Fine(u)'
<1>1. TabsOK /\ j \in Jobs /\ (j.op \in About => j.arg \in Message)
  BY DEF Typed, JobsOK
<1> PICK copies \in {cache[u]} : TRUE
  OBVIOUS
<1> PICK got \in {Applied(copies, j)} : TRUE
  OBVIOUS
<1>2. copies \in SUBSET Copy /\ copies = cache[u]
  BY <1>1, CacheIs
<1>3. cache'[u] = got
  BY <1>1, TakeInIs
<1>4. behind' = (IF Loses(copies, j) THEN behind \cup {u} ELSE behind)
  BY <1>2 DEF TakeIn
<1>5. CASE fetching[u] \in {"listed", "loaded"}
  <2>1. u \in dirty'
    BY <1>5 DEF TakeIn, Touch
  <2>2. fetching'[u] # "no"
    BY <1>5
  <2> QED BY <2>1, <2>2 DEF Fine
<1>6. CASE fetching[u] \notin {"listed", "loaded"}
  <2>1. ASSUME fetching'[u] = "no", u \notin behind'
        PROVE  Placed(u, cache[u])' /\ Shows(u, cache[u])'
    <3>1. fetching[u] = "no" /\ u \notin behind /\ ~Loses(copies, j)
      BY <1>4, <2>1
    <3>2. Placed(u, copies) /\ Shows(u, copies)
      BY <1>2, <3>1 DEF Fine
    <3>3. Placed(u, got)' /\ Shows(u, got)'
      BY <1>1, <1>2, <3>1, <3>2, Taken
    <3>4. Placed(u, cache[u])'
      BY <1>3, <3>3 DEF Placed, Created, RowOf
    <3>5. Shows(u, cache[u])'
      BY <1>3, <3>3 DEF Shows, Excused
    <3> QED BY <3>4, <3>5
  <2> QED BY <1>6, <2>1 DEF Fine
<1> QED BY <1>5, <1>6

LEMMA SettledServer ==
  ASSUME Typed, Fresh, Typed', Settled, ServerStep
  PROVE  Settled'
<1>1. TabsOK /\ TablesOK
  BY DEF Typed
<1>2. ASSUME NEW j \in jobs
      PROVE  /\ j \in Jobs /\ (j.op \in About => j.arg \in Message)
             /\ j.by \in Users /\ (j.todo # {} => j.stage = "telling")
  BY DEF Typed, JobsOK, Jobs
<1>3. ASSUME NEW j \in jobs, jobs' = jobs \ {j}, raced' = raced, NEW u, ~Owes(j, u),
             ~(j.stage = "asked" /\ IsToggle(j, u, j.arg)) \/ \A r \in rows' : r.m # j.arg
      PROVE  Kept(u)
  <2>1. ASSUME NEW i \in jobs, Owes(i, u) PROVE i \in jobs' /\ Same(i, i)
    BY <1>3, <2>1 DEF Same
  <2>2. ASSUME NEW i \in jobs, IsToggle(i, u, i.arg), i.stage = "asked"
        PROVE  i \in jobs' \/ \A r \in rows' : r.m # i.arg
    BY <1>3, <2>2
  <2> QED BY <1>3, <2>1, <2>2 DEF Kept
<1>4. ASSUME NEW j \in jobs, NEW k, Change(j, k), Same(k, j), j.stage # "asked", raced' = raced, NEW u,
             Owes(j, u) /\ j.op \in {"create", "delete", "react", "unreact"} => Owes(k, u)
      PROVE  Kept(u)
  <2>1. ASSUME NEW i \in jobs, Owes(i, u), i.op \in {"create", "delete", "react", "unreact"}
        PROVE  \E l \in jobs' : Same(l, i) /\ Owes(l, u)
    <3>1. CASE i = j
      BY <1>4, <2>1, <3>1 DEF Change
    <3>2. CASE i # j
      BY <1>4, <2>1, <3>2 DEF Change, Same
    <3> QED BY <3>1, <3>2
  <2>2. ASSUME NEW i \in jobs, i.stage = "asked" PROVE i \in jobs'
    BY <1>4, <2>2 DEF Change
  <2> QED BY <1>4, <2>1, <2>2 DEF Kept
<1>5. ASSUME NEW j \in jobs, Carry(j) PROVE Settled'
  <2>1. CASE Allowed(j)
    BY <1>5, <2>1, CarryFine, StoredCarry DEF Settled
  <2>2. CASE ~Allowed(j)
    <3>1. /\ jobs' = jobs \ {j} /\ OnError(j, "conflict") /\ UNCHANGED rows
          /\ j.stage = "asked" /\ j.todo = {}
      BY <1>5, <2>2, CarryStep DEF tables
    <3>2. UNCHANGED <<raced, cache, page, behind, dirty>>
      BY <1>5 DEF Carry
    <3>3. Stored'
      BY <3>1, <3>2, StoredStay DEF Settled
    <3>4. ASSUME NEW u \in Users PROVE Fine(u)'
      <4>1. ~Owes(j, u)
        BY <3>1 DEF Owes
      <4>2. IsToggle(j, u, j.arg) => \A r \in rows' : r.m # j.arg
        BY <2>2, <3>1 DEF Allowed, IsToggle, RowOf
      <4>3. Kept(u)
        BY <1>3, <3>1, <3>2, <4>1, <4>2
      <4>4. fetching'[u] = fetching[u] \/ fetching'[u] = "asked"
        BY <1>1, <1>2, <3>1, OnErrorIs
      <4> QED BY <1>1, <3>1, <3>2, <4>3, <4>4, FineOther DEF Settled
    <3> QED BY <3>3, <3>4 DEF Settled
  <2> QED BY <2>1, <2>2
<1>6. ASSUME NEW j \in jobs, Address(j) PROVE Settled'
  <2>1. UNCHANGED <<rows, raced, fetching, cache, page, behind, dirty>> /\ j.stage = "written"
    BY <1>6 DEF Address, tables, queries, history, views
  <2>2. PICK k \in Jobs :
           /\ Change(j, k) /\ k.stage = "telling" /\ Same(k, j)
           /\ k.todo = IF j.op = "add" THEN {}
                       ELSE IF j.op \in OnSocket THEN members \ {j.by} ELSE members
    BY <1>1, <1>2, <1>6, AddressStep DEF Same, TablesOK
  <2>3. Stored'
    BY <2>1, <2>2, StoredStay DEF Settled
  <2>4. ASSUME NEW u \in members PROVE Fine(u)'
    <3>1. j.op \in {"create", "delete", "react", "unreact"} => Owes(k, u)
      BY <2>2 DEF Owes, OnSocket, Typing
    <3>2. Kept(u)
      BY <1>4, <2>1, <2>2, <3>1
    <3> QED BY <1>1, <2>1, <3>2, FineOther DEF Settled, TablesOK
  <2>5. ASSUME NEW u \in Users \ members PROVE Fine(u)'
    BY <2>1 DEF Typed, Strangers, Fine
  <2> QED BY <2>3, <2>4, <2>5 DEF Settled
<1>7. ASSUME NEW j \in jobs, Finish(j) PROVE Settled'
  <2>1. /\ UNCHANGED <<rows, raced, fetching, page>>
        /\ jobs' = jobs \ {j} /\ j.stage = "telling" /\ j.todo = {}
    BY <1>7 DEF Finish, tables
  <2>2. Stored'
    BY <2>1, StoredStay DEF Settled
  <2>3. ASSUME NEW u \in Users, cache'[u] = cache[u], u \in behind => u \in behind', u \in dirty => u \in dirty'
        PROVE  Fine(u)'
    <3>1. Kept(u)
      BY <1>3, <2>1 DEF Owes
    <3> QED BY <1>1, <2>1, <2>3, <3>1, FineOther DEF Settled
  <2>4. CASE UNCHANGED <<cache, behind, dirty>>
    BY <2>2, <2>3, <2>4 DEF Settled
  <2>5. CASE TakeIn(j.by, j)
    <3>1. Fine(j.by)'
      BY <1>2, <2>1, <2>5, TakenFine DEF Settled
    <3>2. ASSUME NEW u \in Users, u # j.by PROVE Fine(u)'
      <4>1. cache'[u] = cache[u]
        BY <1>1, <1>2, <2>5, <3>2, TakeInIs
      <4>2. behind \subseteq behind' /\ dirty \subseteq dirty'
        BY <2>5 DEF TakeIn, Touch
      <4> QED BY <2>3, <4>1, <4>2
    <3> QED BY <2>2, <3>1, <3>2 DEF Settled
  <2> QED BY <1>7, <2>4, <2>5 DEF Finish
<1>8. ASSUME NEW j \in jobs, NEW x \in Users, Tell(j, x), line[x] # 0 PROVE Settled'
  <2>1. UNCHANGED <<rows, raced, fetching, page>>
    BY <1>8 DEF Tell, tables
  <2>2. PICK k \in Jobs : Change(j, k) /\ Same(k, j) /\ k.stage = "telling" /\ k.todo = j.todo \ {x}
    BY <1>8, TellStep
  <2>3. TakeIn(x, j) /\ j.stage = "telling"
    BY <1>8, TellStep
  <2>4. Stored'
    BY <2>1, <2>2, <2>3, StoredStay DEF Settled
  <2>5. Fine(x)'
    <3>1. \A i \in jobs : i # j => i \in jobs'
      BY <2>2 DEF Change
    <3> QED BY <2>1, <2>3, <3>1, TakenFine DEF Settled
  <2>6. ASSUME NEW u \in Users, u # x PROVE Fine(u)'
    <3>1. cache'[u] = cache[u]
      BY <1>1, <1>2, <2>3, <2>6, TakeInIs
    <3>2. behind \subseteq behind' /\ dirty \subseteq dirty'
      BY <2>3 DEF TakeIn, Touch
    <3>3. Owes(j, u) => Owes(k, u)
      BY <2>2, <2>3, <2>6 DEF Owes
    <3>4. Kept(u)
      BY <1>4, <2>1, <2>2, <2>3, <3>3
    <3> QED BY <1>1, <2>1, <3>1, <3>2, <3>4, FineOther DEF Settled
  <2> QED BY <2>4, <2>5, <2>6 DEF Settled
<1>9. ASSUME NEW j \in jobs, NEW users \in SUBSET Users, Miss(j, users), UNCHANGED <<rows, raced, cache, page>>,
             \/ jobs' = jobs \ {j}
             \/ j.stage # "asked" /\ \E k \in Jobs : Change(j, k) /\ Same(k, j),
             \A u \in Users \ users : Kept(u) \/ (fetching'[u] = "asked"),
             j.op \notin {"create", "delete", "react", "unreact"} => \A u \in users : Kept(u),
             \A u \in Users : fetching'[u] = fetching[u] \/ fetching'[u] = "asked"
      PROVE  Settled'
  <2>1. Stored'
    BY <1>9, StoredStay DEF Settled
  <2>2. /\ behind \subseteq behind' /\ dirty \subseteq dirty'
        /\ j.op \in {"create", "delete", "react", "unreact"} =>
             /\ users \subseteq behind'
             /\ \A u \in users : fetching[u] \in {"listed", "loaded"} => u \in dirty'
    BY <1>9 DEF Miss
  <2>3. ASSUME NEW u \in Users PROVE Fine(u)'
    <3>1. CASE Kept(u)
      BY <1>1, <1>9, <2>2, <3>1, FineOther DEF Settled
    <3>2. CASE fetching'[u] = "asked"
      BY <3>2 DEF Fine
    <3>3. CASE u \in users /\ j.op \in {"create", "delete", "react", "unreact"}
      <4>1. u \in behind' /\ (fetching[u] \in {"listed", "loaded"} => u \in dirty')
        BY <2>2, <3>3
      <4> QED BY <1>9, <4>1 DEF Fine
    <3> QED BY <1>9, <3>1, <3>2, <3>3
  <2> QED BY <2>1, <2>3 DEF Settled
<1>10. ASSUME NEW j \in jobs, NEW x \in Users, Tell(j, x), line[x] = 0 PROVE Settled'
  <2>1. UNCHANGED <<rows, raced, fetching, cache, page>>
    BY <1>10 DEF Tell, tables
  <2>2. PICK k \in Jobs : Change(j, k) /\ Same(k, j) /\ k.stage = "telling" /\ k.todo = j.todo \ {x}
    BY <1>10, TellStep
  <2>3. Miss(j, {x}) /\ j.stage = "telling"
    BY <1>10, TellStep
  <2>4. ASSUME NEW u \in Users, u # x \/ j.op \notin {"create", "delete", "react", "unreact"} PROVE Kept(u)
    <3>1. j.op \in {"create", "delete", "react", "unreact"} /\ Owes(j, u) => Owes(k, u)
      BY <2>2, <2>3, <2>4 DEF Owes
    <3> QED BY <1>4, <2>1, <2>2, <2>3, <3>1
  <2> QED BY <1>9, <2>1, <2>2, <2>3, <2>4
<1>11. ASSUME NEW j \in jobs, TellNobody(j) PROVE Settled'
  <2>1. UNCHANGED <<rows, raced, fetching, cache, page>> /\ j.stage = "written" /\ Miss(j, Users)
    BY <1>11 DEF TellNobody, tables, queries
  <2>2. PICK k \in Jobs : Change(j, k) /\ Same(k, j)
    BY <1>2, <1>11, MuteStep DEF Same
  <2>3. ASSUME NEW u \in Users, j.op \notin {"create", "delete", "react", "unreact"} PROVE Kept(u)
    BY <1>4, <2>1, <2>2, <2>3
  <2> QED BY <1>9, <2>1, <2>2, <2>3
<1>12. ASSUME NEW j \in jobs, Fail(j) PROVE Settled'
  <2> DEFINE users == {u \in Users : \/ j.stage = "written" \/ u \in j.todo
                                     \/ /\ j.op \in {"react", "unreact"} /\ u = j.by
                                        /\ look[u] = "away"}
  <2>1. /\ UNCHANGED <<rows, raced, cache, page>>
        /\ jobs' = jobs \ {j} /\ OnError(j, "failure") /\ Miss(j, users)
    BY <1>12 DEF Fail, tables
  <2>2. \A u \in Users : fetching'[u] = fetching[u] \/ fetching'[u] = "asked"
    BY <1>1, <1>2, <2>1, OnErrorIs
  <2>3. ASSUME NEW u \in Users, u \notin users PROVE Kept(u) \/ fetching'[u] = "asked"
    <3>1. CASE j.op \in {"react", "unreact"} /\ u = j.by
      BY <1>1, <1>2, <2>1, <2>3, <3>1, OnErrorIs
    <3>2. CASE ~(j.op \in {"react", "unreact"} /\ u = j.by)
      <4>1. ~Owes(j, u) /\ ~IsToggle(j, u, j.arg)
        BY <2>3, <3>2 DEF Owes, IsToggle
      <4> QED BY <1>3, <2>1, <4>1
    <3> QED BY <3>1, <3>2
  <2>4. ASSUME j.op \notin {"create", "delete", "react", "unreact"}, NEW u \in Users PROVE Kept(u)
    <3>1. ASSUME NEW i \in jobs, i.op \in {"create", "delete", "react", "unreact"}
          PROVE  i \in jobs' /\ Same(i, i)
      BY <2>1, <2>4, <3>1 DEF Same
    <3> QED BY <2>1, <3>1 DEF Kept, IsToggle
  <2>5. users \in SUBSET Users
    OBVIOUS
  <2> HIDE DEF users
  <2> QED BY <1>9, <2>1, <2>2, <2>3, <2>4, <2>5
<1>13. ASSUME NEW j \in jobs, GiveUp(j) PROVE Settled'
  <2>1. UNCHANGED <<rows, raced, fetching, cache, page, behind, dirty>> /\ jobs' = jobs \ {j} /\ j.op \in OnSocket
    BY <1>13 DEF GiveUp, tables, queries, views
  <2>2. Stored'
    BY <2>1, StoredStay DEF Settled
  <2>3. ASSUME NEW u \in Users PROVE Fine(u)'
    <3>1. ASSUME NEW i \in jobs, i.op \in {"create", "delete", "react", "unreact"}
          PROVE  i \in jobs' /\ Same(i, i)
      BY <2>1, <3>1 DEF OnSocket, Typing, Same
    <3>2. Kept(u)
      BY <2>1, <3>1 DEF Kept, IsToggle
    <3> QED BY <1>1, <2>1, <3>2, FineOther DEF Settled
  <2> QED BY <2>2, <2>3 DEF Settled
<1>14. ASSUME NEW x \in Users, ListMessages(x) \/ AttachReactions(x) \/ ListConversations(x) PROVE Settled'
  <2>1. UNCHANGED <<rows, jobs, raced, cache, behind>>
    BY <1>14 DEF ListMessages, AttachReactions, ListConversations, tables, history, views
  <2>2. Stored'
    BY <2>1 DEF Settled, Stored, RowOf
  <2>3. \A u : Kept(u)
    BY <2>1 DEF Kept, Same, IsToggle
  <2>4. ASSUME NEW u \in Users, u # x PROVE Fine(u)'
    <3>1. fetching'[u] = fetching[u] /\ page'[u] = page[u] /\ (u \in dirty => u \in dirty')
      BY <1>1, <1>14, <2>4 DEF ListMessages, AttachReactions, ListConversations, history, views, TabsOK
    <3> QED BY <1>1, <2>1, <2>3, <3>1, FineOther DEF Settled
  <2>5. CASE ListConversations(x)
    <3>1. UNCHANGED <<fetching, page, dirty>>
      BY <2>5 DEF ListConversations
    <3>2. Fine(x)'
      BY <1>1, <2>1, <2>3, <3>1, FineOther DEF Settled
    <3> QED BY <2>2, <2>4, <3>2 DEF Settled
  <2>6. CASE ListMessages(x)
    <3>1. /\ fetching'[x] = "listed"
          /\ page'[x] = {[r EXCEPT !.reacted = {}] : r \in rows}
      BY <1>1, <2>6 DEF ListMessages, TabsOK
    <3>2. \A r \in rows : [r EXCEPT !.reacted = {}].m = r.m
      BY <1>1 DEF TablesOK, Copy
    <3>3. /\ \A c \in page'[x] : \E r \in rows : r.m = c.m
          /\ \A r \in rows : \E c \in page'[x] : c.m = r.m
      BY <3>1, <3>2
    <3>4. Placed(x, page[x])'
      BY <2>1, <3>3 DEF Placed, RowOf
    <3>5. Fine(x)'
      BY <3>1, <3>4 DEF Fine
    <3> QED BY <2>2, <2>4, <3>5 DEF Settled
  <2>7. CASE AttachReactions(x)
    <3> DEFINE new(c) == [c EXCEPT !.reacted = UNION {r.reacted : r \in RowOf(c.m)}]
    <3>1. /\ fetching[x] = "listed" /\ fetching'[x] = "loaded" /\ dirty' = dirty
          /\ page' = [page EXCEPT ![x] = {new(c) : c \in page[x]}]
      BY <1>1, <2>7 DEF AttachReactions, TabsOK, history, views
    <3>2. page'[x] = {new(c) : c \in page[x]}
      BY <1>1, <3>1 DEF TabsOK
    <3>3. ASSUME NEW c \in page[x]
          PROVE  new(c).m = c.m /\ new(c).reacted = UNION {r.reacted : r \in RowOf(c.m)}
      BY <1>1, CacheIs DEF Copy
    <3> HIDE DEF new
    <3>4. ASSUME NEW c \in page[x], NEW r \in rows, r.m = c.m PROVE new(c).reacted = r.reacted
      <4>1. RowOf(c.m) = {r}
        BY <1>1, <3>4 DEF RowOf, TablesOK
      <4>2. UNION {q.reacted : q \in {r}} = r.reacted
        OBVIOUS
      <4> QED BY <3>3, <4>1, <4>2
    <3>5. ASSUME x \notin dirty' PROVE Placed(x, page[x])' /\ Shows(x, page[x])'
      <4>1. Placed(x, page[x])
        BY <3>1, <3>5 DEF Settled, Fine
      <4>2. /\ \A c \in page'[x] : \E d \in page[x] : c.m = d.m
            /\ \A d \in page[x] : \E c \in page'[x] : c.m = d.m
        BY <3>2, <3>3
      <4>3. Placed(x, page[x])'
        BY <2>1, <4>1, <4>2 DEF Placed, Created, RowOf
      <4>4. \A c \in page'[x], r \in rows : r.m = c.m => c.reacted = r.reacted
        BY <3>2, <3>3, <3>4
      <4>5. Shows(x, page[x])'
        BY <2>1, <4>4 DEF Shows
      <4> QED BY <4>3, <4>5
    <3>6. Fine(x)'
      BY <3>1, <3>5 DEF Fine
    <3> QED BY <2>2, <2>4, <3>6 DEF Settled
  <2> QED BY <1>14, <2>5, <2>6, <2>7
<1> QED BY <1>5, <1>6, <1>7, <1>8, <1>10, <1>11, <1>12, <1>13, <1>14 DEF ServerStep

LEMMA SettledTab ==
  ASSUME Typed, Settled, NEW u \in Users, UserStep(u) \/ TabStep(u)
  PROVE  Settled'
<1>1. TabsOK /\ TablesOK
  BY DEF Typed
<1>2. UNCHANGED rows
  BY DEF UserStep, TabStep, Send, Edit, Delete, Toggle, Type, Invite, Open, Close, Hide, Return,
         StopTyping, MarkLatest, Expire, Drop, Reconnect, ShowMessages, ShowList, tables
<1>3. /\ \A i \in jobs : i.op \notin OnSocket => i \in jobs'
      /\ \A i \in jobs' : i \in jobs \/ i.stage = "asked"
  <2>1. CASE jobs' = jobs
    BY <2>1
  <2>2. CASE Send(u)
    <3> PICK m \in {[at |-> count + 1, from |-> u]} : TRUE
      OBVIOUS
    <3> PICK new \in {Job(count + 1, "create", u, m, 1)} : TRUE
      OBVIOUS
    <3> PICK stop \in {Job(count + 2, "stop", u, NoMessage, 0)} : TRUE
      OBVIOUS
    <3>1. new.stage = "asked" /\ stop.stage = "asked"
      BY DEF Job
    <3>2. jobs' = jobs \cup {new} \cup IF typing[u] /\ line[u] # 0 THEN {stop} ELSE {}
      BY <2>2 DEF Send
    <3> QED BY <3>1, <3>2
  <2>3. CASE \E op, arg, version : Begin(op, u, arg, version)
    BY <2>3 DEF Begin, Job
  <2>4. CASE Drop(u)
    <3>1. \E gone \in SUBSET jobs : jobs' = jobs \ gone /\ \A j \in gone : j.op \in OnSocket
      BY <2>4 DEF Drop
    <3> QED BY <3>1
  <2> QED BY <2>1, <2>2, <2>3, <2>4
          DEF UserStep, TabStep, Edit, Delete, Toggle, Type, Invite, Open, Close, Hide, Return,
              StopTyping, MarkLatest, Emit, Expire, Reconnect, ShowMessages, ShowList
<1>4. raced \subseteq raced' => \A x : Kept(x)
  BY <1>3 DEF Kept, Same, IsToggle, OnSocket, Typing
<1>5. ASSUME raced \subseteq raced',
             \A i, l \in jobs' : \A w \in Users \ raced' :
               IsToggle(i, w, i.arg) /\ IsToggle(l, w, i.arg) => i = l
      PROVE  Stored'
  <2>1. \A i \in jobs' : \A w \in Users \ raced' : \A r \in rows' :
          IsToggle(i, w, r.m) /\ i.stage # "asked" => (w \in r.reacted <=> i.op = "react")
    BY <1>2, <1>3, <1>5 DEF Settled, Stored
  <2>2. \A i \in jobs' : i.op = "delete" /\ i.stage # "asked" => RowOf(i.arg)' = {}
    BY <1>2, <1>3 DEF Settled, Stored, RowOf
  <2> QED BY <1>5, <2>1, <2>2 DEF Stored
<1>6. CASE Toggle(u)
  <2>1. PICK c \in cache[u] :
          /\ cache' = [cache EXCEPT ![u] =
               Set(@, c.m, IF Reacted(u, c) THEN c.reacted \ {u} ELSE c.reacted \cup {u})]
          /\ Begin(IF Reacted(u, c) THEN "unreact" ELSE "react", u, c.m, 0)
          /\ raced' = IF \E j \in jobs : j.by = u /\ j.op \in {"react", "unreact"} /\ j.arg = c.m
                        THEN raced \cup {u} ELSE raced
    BY <1>6 DEF Toggle
  <2> PICK op \in {IF Reacted(u, c) THEN "unreact" ELSE "react"} : TRUE
    OBVIOUS
  <2> PICK new \in {Job(count + 1, op, u, c.m, 0)} : TRUE
    OBVIOUS
  <2>2. /\ new.op = op /\ new.by = u /\ new.arg = c.m /\ new.stage = "asked"
        /\ op \in {"react", "unreact"} /\ (op = "react" <=> u \notin c.reacted)
    BY DEF Job, Reacted
  <2>3. jobs' = jobs \cup {new}
    BY <2>1 DEF Begin
  <2>4. raced \subseteq raced'
    BY <2>1
  <2>5. ASSUME NEW i \in jobs', NEW l \in jobs', NEW w \in Users \ raced',
               IsToggle(i, w, i.arg), IsToggle(l, w, i.arg)
        PROVE  i = l
    <3>1. ASSUME NEW j \in jobs, IsToggle(j, u, c.m), w = u PROVE FALSE
      BY <2>1, <3>1 DEF IsToggle
    <3>2. CASE i \in jobs /\ l \in jobs
      BY <2>4, <2>5, <3>2 DEF Settled, Stored
    <3>3. CASE i = new /\ l \in jobs
      BY <2>2, <2>5, <3>1, <3>3 DEF IsToggle
    <3>4. CASE l = new /\ i \in jobs
      BY <2>2, <2>5, <3>1, <3>4 DEF IsToggle
    <3> QED BY <2>3, <3>2, <3>3, <3>4
  <2>6. Stored'
    BY <1>5, <2>4, <2>5
  <2>7. UNCHANGED <<fetching, page, behind>>
    BY <1>6 DEF Toggle, queries
  <2>8. dirty' = IF fetching[u] \in {"listed", "loaded"} THEN dirty \cup {u} ELSE dirty
    BY <1>6 DEF Toggle, Touch
  <2>9. ASSUME NEW x \in Users, x # u PROVE Fine(x)'
    <3>1. cache'[x] = cache[x]
      BY <1>1, <2>1, <2>9 DEF TabsOK
    <3>2. dirty \subseteq dirty'
      BY <2>8
    <3> QED BY <1>1, <1>2, <1>4, <2>4, <2>7, <3>1, <3>2, FineOther DEF Settled
  <2>10. Fine(u)'
    <3>1. CASE fetching[u] \in {"listed", "loaded"}
      BY <2>7, <2>8, <3>1 DEF Fine
    <3>2. CASE ~(fetching[u] = "no" /\ u \notin behind) /\ fetching[u] \notin {"listed", "loaded"}
      BY <2>7, <3>2 DEF Fine
    <3>3. CASE fetching[u] = "no" /\ u \notin behind
      <4> PICK users \in {IF Reacted(u, c) THEN c.reacted \ {u} ELSE c.reacted \cup {u}} : TRUE
        OBVIOUS
      <4> PICK copies \in {cache[u]} : TRUE
        OBVIOUS
      <4> PICK got \in {Set(copies, c.m, users)} : TRUE
        OBVIOUS
      <4>1. copies \in SUBSET Copy /\ users \in SUBSET Users /\ c \in copies
        BY <1>1, CacheIs
      <4>2. cache'[u] = got
        BY <1>1, <2>1 DEF TabsOK
      <4>3. /\ \A b \in got : \E d \in copies :
                 b.m = d.m /\ IF b.m = c.m THEN b.reacted = users ELSE b = d
            /\ \A d \in copies : \E b \in got : b.m = d.m
        BY <4>1, SetIs
      <4>4. /\ u \in users <=> op = "react"
            /\ \A w : w # u => (w \in users <=> w \in c.reacted)
        BY <2>2 DEF Reacted
      <4>5. Placed(u, copies) /\ Shows(u, copies)
        BY <3>3 DEF Settled, Fine
      <4>6. Kept(u) /\ RowsKept(u, copies) /\ rows' \subseteq Copy
        BY <1>1, <1>2, <1>4, <2>4, RowsStay DEF TablesOK
      <4>7. Placed(u, copies)' /\ Shows(u, copies)'
        BY <4>5, <4>6, PlacedKept, ShowsKept
      <4>8. Placed(u, got)'
        BY <4>3, <4>7 DEF Placed
      <4>9. ASSUME NEW b \in got, NEW r \in rows', r.m = b.m, NEW w \in Users \ raced',
                   ~(w \in b.reacted <=> w \in r.reacted)
            PROVE  \E j \in jobs' :
                     /\ IsToggle(j, w, b.m)
                     /\ Owes(j, u) \/ (j.stage = "asked" /\ w = u /\ (w \in b.reacted <=> j.op = "react"))
        <5>1. CASE b.m = c.m /\ w = u
          <6>1. IsToggle(new, w, b.m) /\ (w \in b.reacted <=> new.op = "react")
            BY <2>2, <4>3, <4>4, <5>1 DEF IsToggle
          <6> QED BY <2>2, <2>3, <5>1, <6>1
        <5>2. CASE b.m = c.m /\ w # u
          <6>1. w \in b.reacted <=> w \in c.reacted
            BY <4>3, <4>4, <5>2
          <6> QED BY <4>1, <4>7, <4>9, <5>2, <6>1 DEF Shows, Excused
        <5>3. CASE b.m # c.m
          <6>1. b \in copies
            BY <4>3, <5>3
          <6> QED BY <4>7, <4>9, <6>1 DEF Shows, Excused
        <5> QED BY <5>1, <5>2, <5>3
      <4>10. Shows(u, got)'
        BY <4>9 DEF Shows, Excused
      <4>11. Placed(u, cache[u])'
        BY <4>2, <4>8 DEF Placed, Created, RowOf
      <4>12. Shows(u, cache[u])'
        BY <4>2, <4>10 DEF Shows, Excused
      <4>13. fetching'[u] = "no"
        BY <2>7, <3>3
      <4> QED BY <4>11, <4>12, <4>13 DEF Fine
    <3> QED BY <3>1, <3>2, <3>3
  <2> QED BY <2>6, <2>9, <2>10 DEF Settled
<1>7. CASE ~Toggle(u)
  <2>1. UNCHANGED raced
    BY <1>7 DEF UserStep, TabStep, Send, Edit, Delete, Type, Invite, Open, Close, Hide, Return,
         StopTyping, MarkLatest, Expire, Drop, Reconnect, ShowMessages, ShowList, history, views
  <2>2. \A i \in jobs' : i \in jobs \/ i.op \notin {"react", "unreact"}
    <3>1. CASE jobs' = jobs
      BY <3>1
    <3>2. CASE Send(u)
      <4> PICK m \in {[at |-> count + 1, from |-> u]} : TRUE
        OBVIOUS
      <4> PICK new \in {Job(count + 1, "create", u, m, 1)} : TRUE
        OBVIOUS
      <4> PICK stop \in {Job(count + 2, "stop", u, NoMessage, 0)} : TRUE
        OBVIOUS
      <4>1. new.op = "create" /\ stop.op = "stop"
        BY DEF Job
      <4>2. jobs' = jobs \cup {new} \cup IF typing[u] /\ line[u] # 0 THEN {stop} ELSE {}
        BY <3>2 DEF Send
      <4> QED BY <4>1, <4>2
    <3>3. CASE \E op \in {"edit", "delete", "add", "read", "start", "stop"} : \E arg, version :
                 Begin(op, u, arg, version)
      BY <3>3 DEF Begin, Job
    <3>4. CASE Drop(u)
      BY <3>4 DEF Drop
    <3> QED BY <1>7, <3>1, <3>2, <3>3, <3>4
            DEF UserStep, TabStep, Edit, Delete, Type, Invite, Open, Close, Hide, Return,
                StopTyping, MarkLatest, Emit, Expire, Reconnect, ShowMessages, ShowList
  <2>3. \A i, l \in jobs' : \A w \in Users \ raced' :
          IsToggle(i, w, i.arg) /\ IsToggle(l, w, i.arg) => i = l
    BY <2>1, <2>2 DEF Settled, Stored, IsToggle
  <2>4. Stored'
    BY <1>5, <2>1, <2>3
  <2>5. CASE ShowMessages(u)
    <3>1. /\ fetching[u] = "loaded" /\ cache'[u] = page[u] /\ fetching'[u] = "no"
          /\ behind' = (IF u \in dirty THEN behind \cup {u} ELSE behind \ {u})
      BY <1>1, <2>5 DEF ShowMessages, TabsOK
    <3>2. ASSUME NEW x \in Users, x # u PROVE Fine(x)'
      <4>1. /\ cache'[x] = cache[x] /\ page'[x] = page[x] /\ fetching'[x] = fetching[x]
            /\ (x \in behind => x \in behind') /\ (x \in dirty => x \in dirty')
        BY <1>1, <2>5, <3>2 DEF ShowMessages, TabsOK
      <4> QED BY <1>1, <1>2, <1>4, <2>1, <4>1, FineOther DEF Settled
    <3>3. ASSUME u \notin behind' PROVE Placed(u, cache[u])' /\ Shows(u, cache[u])'
      <4> PICK copies \in {page[u]} : TRUE
        OBVIOUS
      <4>1. Placed(u, copies) /\ Shows(u, copies)
        BY <3>1, <3>3 DEF Settled, Fine
      <4>2. Kept(u) /\ RowsKept(u, copies) /\ rows' \subseteq Copy
        BY <1>1, <1>2, <1>4, <2>1, RowsStay DEF TablesOK
      <4>3. Placed(u, copies)' /\ Shows(u, copies)'
        BY <4>1, <4>2, PlacedKept, ShowsKept
      <4>4. Placed(u, cache[u])'
        BY <3>1, <4>3 DEF Placed, Created, RowOf
      <4>5. Shows(u, cache[u])'
        BY <3>1, <4>3 DEF Shows, Excused
      <4> QED BY <4>4, <4>5
    <3>4. Fine(u)'
      BY <3>1, <3>3 DEF Fine
    <3> QED BY <2>4, <3>2, <3>4 DEF Settled
  <2>6. CASE ~ShowMessages(u)
    <3>1. UNCHANGED <<cache, page, behind, dirty>>
      BY <1>7, <2>6 DEF UserStep, TabStep, Send, Edit, Delete, Type, Invite, Open, Close, Hide, Return,
         StopTyping, MarkLatest, Expire, Drop, Reconnect, ShowList, queries, history, views
    <3>2. ASSUME NEW x \in Users PROVE Fine(x)'
      <4>1. fetching'[x] = fetching[x] \/ fetching'[x] = "asked"
        BY <1>1, <1>7, <2>6 DEF UserStep, TabStep, Send, Edit, Delete, Type, Invite, Open, Close, Hide, Return,
         StopTyping, MarkLatest, Expire, Drop, Reconnect, ShowList, Fetch, queries, TabsOK
      <4> QED BY <1>1, <1>2, <1>4, <2>1, <3>1, <4>1, FineOther DEF Settled
    <3> QED BY <2>4, <3>2 DEF Settled
  <2> QED BY <2>5, <2>6
<1> QED BY <1>6, <1>7

LEMMA InitSettled == Init => Settled
<1> SUFFICES ASSUME Init PROVE Settled
  OBVIOUS
<1>1. /\ jobs = {} /\ behind = Users \ Founders
      /\ \A u \in Users : fetching[u] = "no"
      /\ \A u \in Founders : cache[u] = rows
  BY SignalsAssumption DEF Init
<1>2. TablesOK
  BY InitTyped DEF Typed
<1>3. ASSUME NEW u \in Founders PROVE Placed(u, cache[u]) /\ Shows(u, cache[u])
  <2> PICK copies \in {cache[u]} : TRUE
    OBVIOUS
  <2>1. copies = rows
    BY <1>1
  <2>2. Placed(u, copies)
    BY <2>1 DEF Placed, RowOf
  <2>3. Shows(u, copies)
    BY <1>2, <2>1 DEF Shows, TablesOK
  <2> QED BY <2>2, <2>3
<1>4. Stored
  BY <1>1 DEF Stored
<1>5. ASSUME NEW u \in Users PROVE Fine(u)
  BY <1>1, <1>3 DEF Fine
<1> QED BY <1>4, <1>5 DEF Settled

(* When nothing is under way, a tab that was not left behind shows the      *)
(* reactions that are stored, whatever overlapped.                          *)
THEOREM ReactionsAreShown == Spec => []ReactionsAgree
<1>1. IInv /\ IInv' /\ Settled /\ [Next]_vars => Settled'
  <2> SUFFICES ASSUME IInv, Settled, UNCHANGED vars PROVE Settled'
    BY SettledServer, SettledTab DEF Next, IInv
  <2>1. UNCHANGED <<jobs, rows, raced, cache, page, fetching, behind, dirty>>
    BY DEF vars, tables, queries, history, views
  <2>2. Stored'
    BY <2>1 DEF Settled, Stored, RowOf
  <2>3. TablesOK /\ \A u : Kept(u)
    BY <2>1 DEF Kept, Same, IInv, Typed
  <2>4. ASSUME NEW u \in Users PROVE Fine(u)'
    BY <2>1, <2>3, FineOther DEF Settled
  <2> QED BY <2>2, <2>4 DEF Settled
<1>2. ASSUME IInv, Settled PROVE ReactionsAgree
  <2> SUFFICES ASSUME Quiet, NEW u \in Users \ behind, NEW c \in cache[u]
               PROVE  \E r \in rows : r.m = c.m /\ r.reacted \ raced = c.reacted \ raced
    BY DEF ReactionsAgree
  <2>1. jobs = {} /\ fetching[u] = "no" /\ u \in Users
    BY DEF Quiet
  <2>2. Placed(u, cache[u]) /\ Shows(u, cache[u])
    BY <1>2, <2>1 DEF Settled, Fine
  <2>3. PICK r \in rows : r.m = c.m
    BY <2>1, <2>2 DEF Placed, RowOf
  <2>4. \A w \in Users \ raced : w \in c.reacted <=> w \in r.reacted
    BY <2>1, <2>2, <2>3 DEF Shows, Excused
  <2>5. r.reacted \subseteq Users /\ c.reacted \subseteq Users
    BY <1>2, <2>1 DEF IInv, Typed, TablesOK, TabsOK, Copy
  <2> QED BY <2>3, <2>4, <2>5
<1> QED BY <1>1, <1>2, InitSettled, Always, PTL DEF Spec

-----------------------------------------------------------------------------
(* The socket: a mounted page is never left without one or a timeout, for   *)
(* any number of sockets, timeouts, drops and visits.                       *)

(* NeverStranded is not inductive: were the close of an earlier logout still*)
(* marked intentional while a page is mounted, the close listener would give*)
(* the socket up without a timeout.                                         *)
Tied ==
  /\ mounted => ~intentionalClose
  /\ NeverStranded

LEMMA OpenHasSocket == ASSUME OpenSocket PROVE socket' # {}
BY DEF OpenSocket

LEMMA ScheduleHasTimer == ASSUME ScheduleReconnect PROVE timers' # {}
BY DEF ScheduleReconnect

LEMMA SocketStep == Tied /\ [SocketNext]_socketVars => Tied'
<1> SUFFICES ASSUME Tied, [SocketNext]_socketVars PROVE Tied'
  OBVIOUS
<1>1. CASE Mount
  <2>1. mounted' /\ ~intentionalClose'
    BY <1>1 DEF Mount
  <2>2. CASE OpenSocket
    BY <2>1, <2>2, OpenHasSocket DEF Tied, NeverStranded
  <2>3. CASE (\E s \in socket : Live(s)) /\ socket' = socket
    BY <2>1, <2>3 DEF Tied, NeverStranded
  <2> QED BY <1>1, <2>2, <2>3 DEF Mount
<1>2. CASE Leave \/ Logout
  BY <1>2 DEF Leave, Logout, Tied, NeverStranded
<1>3. ASSUME NEW s \in Sockets, Opened(s) \/ Break(s) PROVE Tied'
  BY <1>3 DEF Opened, Break, Tied, NeverStranded
<1>4. ASSUME NEW s \in Sockets, Closed(s) PROVE Tied'
  <2>1. mounted' = mounted /\ intentionalClose' = intentionalClose
    BY <1>4 DEF Closed
  <2>2. CASE s \notin socket
    BY <1>4, <2>1, <2>2 DEF Closed, Tied, NeverStranded
  <2>3. CASE s \in socket /\ intentionalClose
    BY <2>1, <2>3 DEF Tied, NeverStranded
  <2>4. CASE s \in socket /\ ~intentionalClose
    <3>1. ScheduleReconnect
      BY <1>4, <2>4 DEF Closed
    <3> QED BY <2>1, <3>1, ScheduleHasTimer DEF Tied, NeverStranded
  <2> QED BY <2>2, <2>3, <2>4
<1>5. ASSUME NEW t \in Timers, Fire(t) PROVE Tied'
  <2>1. mounted' = mounted /\ intentionalClose' = intentionalClose /\ OpenSocket
    BY <1>5 DEF Fire
  <2> QED BY <2>1, OpenHasSocket DEF Tied, NeverStranded
<1>6. CASE UNCHANGED socketVars
  BY <1>6 DEF socketVars, Tied, NeverStranded
<1> QED BY <1>1, <1>2, <1>3, <1>4, <1>5, <1>6 DEF SocketNext

(* However connects, logouts, drops and timeouts interleave, and though a   *)
(* timeout's handle can be overwritten while it is pending, a mounted page  *)
(* always has a socket or a timeout that will open one.                     *)
THEOREM StrandsNobody == SocketSpec => []NeverStranded
<1>1. SocketInit => Tied
  BY DEF SocketInit, Tied, NeverStranded
<1>2. Tied => NeverStranded
  BY DEF Tied
<1> QED BY <1>1, <1>2, SocketStep, PTL DEF SocketSpec

LEMMA OpenType ==
  ASSUME SocketTypeOK, OpenSocket
  PROVE  /\ ready' \in [Sockets -> {"connecting", "open", "closing", "closed"}]
         /\ socket' \in {{}} \cup {{s} : s \in Sockets}
         /\ status' \in {"connecting", "connected", "reconnecting", "disconnected"}
BY DEF OpenSocket, SocketTypeOK

LEMMA SocketInitType == SocketInit => SocketTypeOK
<1> SUFFICES ASSUME SocketInit PROVE SocketTypeOK
  OBVIOUS
<1>1. /\ ready \in [Sockets -> {"connecting", "open", "closing", "closed"}]
      /\ socket \in {{}} \cup {{s} : s \in Sockets}
      /\ handle \in {{}} \cup {{t} : t \in timers}
  BY DEF SocketInit
<1>2. /\ timers \in SUBSET Timers
      /\ intentionalClose \in BOOLEAN /\ retrying \in BOOLEAN /\ mounted \in BOOLEAN
      /\ status \in {"connecting", "connected", "reconnecting", "disconnected"}
  BY DEF SocketInit
<1>3. drops \in 0..MaxDrops /\ visits \in 0..MaxVisits
  BY SocketConstants DEF SocketInit
<1>4. QED
  BY <1>1, <1>2, <1>3 DEF SocketTypeOK

LEMMA SocketStepType == SocketTypeOK /\ [SocketNext]_socketVars => SocketTypeOK'
<1> SUFFICES ASSUME SocketTypeOK, [SocketNext]_socketVars PROVE SocketTypeOK'
  OBVIOUS
<1> USE SocketConstants
<1>1. CASE Mount
  <2>1. visits' \in 0..MaxVisits
    BY <1>1 DEF Mount, SocketTypeOK
  <2>2. CASE OpenSocket
    BY <1>1, <2>1, <2>2, OpenType DEF Mount, SocketTypeOK
  <2>3. CASE UNCHANGED <<ready, socket, status>>
    BY <1>1, <2>1, <2>3 DEF Mount, SocketTypeOK
  <2>4. QED
    BY <1>1, <2>2, <2>3 DEF Mount
<1>2. CASE Leave
  BY <1>2 DEF Leave, SocketTypeOK
<1>3. CASE Logout
  BY <1>3 DEF Logout, SocketTypeOK
<1>4. ASSUME NEW s \in Sockets, Opened(s) PROVE SocketTypeOK'
  BY <1>4 DEF Opened, SocketTypeOK
<1>5. ASSUME NEW s \in Sockets, Break(s) PROVE SocketTypeOK'
  BY <1>5 DEF Break, SocketTypeOK
<1>6. ASSUME NEW s \in Sockets, Closed(s) PROVE SocketTypeOK'
  BY <1>6 DEF Closed, ScheduleReconnect, SocketTypeOK
<1>7. ASSUME NEW t \in Timers, Fire(t) PROVE SocketTypeOK'
  BY <1>7, OpenType DEF Fire, SocketTypeOK
<1>8. CASE UNCHANGED socketVars
  BY <1>8 DEF socketVars, SocketTypeOK
<1>9. QED
  BY <1>1, <1>2, <1>3, <1>4, <1>5, <1>6, <1>7, <1>8 DEF SocketNext

(* Every variable keeps its type.  The clause that matters is the handle's: *)
(* it is of a timeout still pending, so that clearing it is not in vain.    *)
THEOREM SocketTypeCorrect == SocketSpec => []SocketTypeOK
BY SocketInitType, SocketStepType, PTL DEF SocketSpec

-----------------------------------------------------------------------------
(* One socket: during the first visit of an authenticated page the handle   *)
(* is never overwritten, because a timeout is only started when the current *)
(* socket has closed and until it fires nothing opens another.              *)
Single ==
  visits <= 1 =>
    /\ \A s \in Sockets : Live(s) => s \in socket
    /\ timers = handle
    /\ timers # {} => socket = {}
    /\ visits = 0 => timers = {} /\ socket = {}

LEMMA OpenSingle ==
  ASSUME SocketTypeOK, OpenSocket, \A s \in Sockets : ~Live(s)
  PROVE  \A s \in Sockets : Live(s)' => s \in socket'
<1>1. PICK s \in Sockets : ready' = [ready EXCEPT ![s] = "connecting"] /\ socket' = {s}
  BY DEF OpenSocket
<1>2. ASSUME NEW r \in Sockets, Live(r)' PROVE r \in socket'
  BY <1>1, <1>2 DEF Live, SocketTypeOK
<1> QED BY <1>2

LEMMA StepSingle ==
  ASSUME SocketTypeOK, Single, [SocketNext]_socketVars
  PROVE  Single'
<1> SUFFICES ASSUME visits' <= 1
             PROVE  /\ \A s \in Sockets : Live(s)' => s \in socket'
                    /\ timers' = handle'
                    /\ timers' # {} => socket' = {}
                    /\ visits' = 0 => timers' = {} /\ socket' = {}
  BY DEF Single
<1> DEFINE Goal == /\ \A s \in Sockets : Live(s)' => s \in socket'
                   /\ timers' = handle'
                   /\ timers' # {} => socket' = {}
                   /\ visits' = 0 => timers' = {} /\ socket' = {}
<1>1. visits \in Nat /\ ready \in [Sockets -> {"connecting", "open", "closing", "closed"}]
  BY SocketConstants DEF SocketTypeOK
<1>2. ASSUME visits <= 1
      PROVE  /\ \A s \in Sockets : Live(s) => s \in socket
             /\ timers = handle /\ (timers # {} => socket = {})
             /\ visits = 0 => timers = {} /\ socket = {}
  BY <1>2 DEF Single
<1>3. CASE Mount
  <2>1. visits = 0 /\ visits' = 1 /\ timers' = timers /\ handle' = handle
    BY <1>1, <1>3 DEF Mount
  <2>2. timers = {} /\ handle = {} /\ socket = {} /\ \A s \in Sockets : ~Live(s)
    BY <1>2, <2>1
  <2>3. OpenSocket
    BY <1>3, <2>2 DEF Mount
  <2> QED BY <2>1, <2>2, <2>3, OpenSingle
<1>4. CASE Leave
  BY <1>2, <1>4 DEF Leave, Live
<1>5. CASE Logout
  <2>1. visits' = visits /\ timers' = timers \ handle /\ handle' = {} /\ socket' = {}
    BY <1>5 DEF Logout
  <2>2. \A s \in Sockets : ~Live(s)'
    BY <1>1, <1>2, <1>5, <2>1 DEF Logout, Live
  <2> QED BY <1>2, <2>1, <2>2
<1>6. ASSUME NEW s \in Sockets, Opened(s) \/ Break(s) PROVE Goal
  <2>1. UNCHANGED <<socket, timers, handle, visits>>
    BY <1>6 DEF Opened, Break
  <2>2. \A r \in Sockets : Live(r)' => Live(r)
    BY <1>1, <1>6 DEF Opened, Break, Live
  <2> QED BY <1>2, <2>1, <2>2
<1>7. ASSUME NEW s \in Sockets, Closed(s) PROVE Goal
  <2>1. visits' = visits /\ ready' = [ready EXCEPT ![s] = "closed"]
    BY <1>7 DEF Closed
  <2>2. \A r \in Sockets : Live(r)' => Live(r) /\ r # s
    BY <1>1, <2>1 DEF Live
  <2>3. CASE s \notin socket
    <3>1. UNCHANGED <<socket, timers, handle>>
      BY <1>7, <2>3 DEF Closed
    <3> QED BY <1>2, <2>1, <2>2, <3>1
  <2>4. CASE s \in socket
    <3>1. socket = {s} /\ socket' = {}
      BY <1>7, <2>4 DEF Closed, SocketTypeOK
    <3>2. timers = {} /\ handle = {} /\ visits # 0
      BY <1>2, <2>1, <3>1
    <3>3. timers' = handle'
      BY <1>7, <2>4, <3>2 DEF Closed, ScheduleReconnect
    <3> QED BY <1>2, <2>1, <2>2, <3>1, <3>2, <3>3
  <2> QED BY <2>3, <2>4
<1>8. ASSUME NEW t \in Timers, Fire(t) PROVE Goal
  <2>1. visits' = visits /\ t \in timers /\ timers' = timers \ {t} /\ handle' = {} /\ OpenSocket
    BY <1>8 DEF Fire
  <2>2. timers = {t} /\ socket = {} /\ visits # 0
    BY <1>2, <2>1 DEF SocketTypeOK
  <2>3. \A s \in Sockets : Live(s)' => s \in socket'
    BY <1>2, <2>1, <2>2, OpenSingle
  <2> QED BY <2>1, <2>2, <2>3
<1>9. CASE UNCHANGED socketVars
  BY <1>2, <1>9 DEF socketVars, Live
<1> QED BY <1>3, <1>4, <1>5, <1>6, <1>7, <1>8, <1>9 DEF SocketNext

(* Until the page is left and mounted again the application has at most one *)
(* WebSocket, whatever drops: open(), called by connect() and by the        *)
(* timeout, forgets a socket only when it has closed.                       *)
THEOREM HasOneSocket == SocketSpec => []OneSocket
<1> DEFINE Safe == SocketTypeOK /\ Single
<1>1. SocketInit => Safe
  BY SocketInitType DEF SocketInit, Single, Live
<1>2. Safe /\ [SocketNext]_socketVars => Safe'
  BY SocketStepType, StepSingle
<1>3. Safe => OneSocket
  <2> SUFFICES ASSUME SocketTypeOK, Single, visits = 1,
                      NEW L, L = {s \in Sockets : Live(s)}
               PROVE  Cardinality(L) <= 1
    BY DEF OneSocket
  <2>1. L \subseteq socket
    BY DEF Single
  <2>2. CASE L = {}
    BY <2>2, FS_EmptySet
  <2>3. CASE L # {}
    <3>1. \E s \in Sockets : L = {s}
      BY <2>1, <2>3 DEF SocketTypeOK
    <3>2. Cardinality(L) = 1
      BY <3>1, FS_Singleton
    <3> QED BY <3>2
  <2> QED BY <2>2, <2>3
<1> HIDE DEF Safe
<1> QED BY <1>1, <1>2, <1>3, PTL DEF SocketSpec
=============================================================================
