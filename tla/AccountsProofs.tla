--------------------------- MODULE AccountsProofs ---------------------------
(* Theorems about Accounts, for any users, browsers, tabs, limit and scenes: *)
(* every session has a browser that can end it, a password is replaced by   *)
(* who has given it, and the types.                                         *)
EXTENDS Accounts, TLAPS

Uses == {"logout", "profile", "upload", "remove", "query", "password", "me"}
Enters == {"login", "register"}
Stages == {"arrived", "counted", "asked", "known", "checked", "answered"}

Jobs ==
  [n : Nat, op : Uses \cup Enters, tab : Tabs, cookie : Nat, who : Users \cup {NoUser},
   secret : Nat, stage : Stages, turn : Nat,
   status : {"none", "ok", "unauthorized", "refused"}, set : Nat, data : Data]

Someone(data) == data = Nobody \/ data.user \in Users

(* What is known of a request at its stage.                                 *)
Fits(j, last, ids) ==
  /\ j.n \in 1 .. last /\ j.cookie \in 0 .. ids /\ j.set \in 0 .. ids
  /\ j.op \in Enters \/ j.stage \in {"known", "checked"} => j.who \in Users
  /\ j.op = "login" /\ j.stage = "checked" => j.data.user \in Users
  /\ j.op \in {"login", "me", "profile"} /\ j.stage = "answered" /\ j.status = "ok" =>
       j.data.user \in Users
  /\ j.stage \in {"arrived", "counted"} => j.op \in Enters
  /\ j.stage # "answered" \/ j.op \notin Enters => j.set = 0

JobsOK == jobs \subseteq Jobs /\ \A j \in jobs : Fits(j, count, made)

(* The rest of the types.                                                   *)
Counted ==
  /\ counts \in [Counters -> Nat]
  /\ timed \subseteq Counters /\ stuck \subseteq Counters

Stored ==
  /\ table \in [Users -> [password : Nat, profile : Nat, avatar : BOOLEAN]]
  /\ registered \subseteq Users
  /\ made \in Nat /\ sessions \subseteq [id : 1 .. made, user : Users]
  /\ cookie \in [Browsers -> 0 .. made]
  /\ spare \subseteq 0 .. made

Kept ==
  /\ me \in [Tabs -> [data : Data, failed : BOOLEAN]]
  /\ \A t \in Tabs : Someone(me[t].data)
  /\ count \in Nat /\ loading \in [Tabs -> 0 .. count]
  /\ page \in [Tabs -> {"public", "private"}]
  /\ left \in [Spent -> Nat]
  /\ strayed \subseteq Tabs /\ crossed \subseteq Users

Typed == Stored /\ Counted /\ Kept /\ JobsOK

(* A logout that was carried out has ended the session, or could not.       *)
Ended(j, ids, gone) ==
  j.op = "logout" /\ j.stage = "answered" /\ j.status = "ok" => j.cookie \notin ids \ gone

Owned == SessionsOwned /\ \A j \in jobs : Ended(j, Ids, spare)

(* A change of password between check and write still has the password, and *)
(* is the only one, unless the user is crossed.                             *)
Writing(j) == j.op = "password" /\ j.stage = "checked" /\ j.who \notin crossed

Chained ==
  /\ ~usurped
  /\ \A j \in jobs : Writing(j) => j.secret = table[j.who].password
  /\ \A j, k \in jobs : j # k /\ Writing(j) /\ k.op = "password" /\ k.stage = "checked" =>
       k.who # j.who

-----------------------------------------------------------------------------
(* Types                                                                    *)

LEMMA TypedIsTypeOK == Typed => TypeOK
BY DEF Typed, Stored, Counted, Kept, JobsOK, TypeOK, Jobs, Fits

(* A step that adds at most the request k.                                  *)
LEMMA JobsKept ==
  ASSUME Typed, NEW k \in Jobs, Fits(k, count', made'), jobs' \subseteq jobs \cup {k},
         made' \in Nat, count' \in Nat, made <= made', count <= count'
  PROVE  JobsOK'
<1>1. ASSUME NEW j \in jobs PROVE Fits(j, count', made')
  BY <1>1 DEF Typed, Stored, Kept, JobsOK, Fits, Jobs
<1> QED BY <1>1 DEF Typed, JobsOK

LEMMA JobsFewer ==
  ASSUME Typed, jobs' \subseteq jobs, UNCHANGED <<made, count>>
  PROVE  JobsOK'
BY DEF Typed, JobsOK, Fits

LEMMA SpendKeeps ==
  ASSUME Kept, NEW what, Spend(what)
  PROVE  left' \in [Spent -> Nat]
<1>1. CASE what \in Spent
  BY <1>1 DEF Kept, Spend
<1>2. CASE what \notin Spent
  BY <1>2 DEF Kept, Spend
<1> QED BY <1>1, <1>2

(* A new request.                                                           *)
LEMMA JobTyped ==
  ASSUME Typed, NEW op \in Uses \cup Enters, NEW t \in Tabs,
         NEW u \in Users \cup {NoUser}, op \in Enters => u \in Users,
         NEW secret \in Nat, NEW sent \in 0 .. made
  PROVE  LET k == Job(count + 1, op, t, u, secret, sent) IN
         /\ k \in Jobs /\ k.op = op /\ k.tab = t /\ k.set = 0
         /\ k.stage \in {"arrived", "asked"}
         /\ Fits(k, count + 1, made)
<1> DEFINE k == Job(count + 1, op, t, u, secret, sent)
<1>1. made \in Nat /\ count \in Nat
  BY DEF Typed, Stored, Kept
<1>2. Nobody \in Data
  BY DEF Nobody, Data
<1>3. /\ k.n = count + 1 /\ k.op = op /\ k.tab = t /\ k.cookie = sent /\ k.who = u
      /\ k.set = 0 /\ k.stage = IF op \in Enters THEN "arrived" ELSE "asked"
  BY DEF Job, Enters
<1>4. k \in Jobs
  BY <1>1, <1>2 DEF Job, Jobs, Stages
<1>5. Fits(k, count + 1, made)
  <2> HIDE DEF k
  <2> QED BY <1>1, <1>3 DEF Fits
<1> QED BY <1>3, <1>4, <1>5

LEMMA AskTyped ==
  ASSUME Typed, NEW op \in Uses \cup Enters, NEW t \in Tabs,
         NEW u \in Users \cup {NoUser}, op \in Enters => u \in Users,
         NEW secret \in Nat, Ask(op, t, u, secret), made' = made
  PROVE  JobsOK' /\ count' = count + 1
<1>1. cookie[BrowserOf[t]] \in 0 .. made
  BY AccountsAssumption DEF Typed, Stored
<1> DEFINE k == Job(count + 1, op, t, u, secret, cookie[BrowserOf[t]])
<1>2. k \in Jobs /\ Fits(k, count + 1, made)
  BY <1>1, JobTyped
<1>3. jobs' = jobs \cup {k} /\ count' = count + 1
  BY DEF Ask
<1> HIDE DEF k
<1> QED BY <1>2, <1>3, JobsKept DEF Typed, Stored, Kept

LEMMA LoginTypes ==
  ASSUME Typed, NEW t \in Tabs, NEW u \in Users, Login(t, u)
  PROVE  Typed'
<1>1. JobsOK' /\ count' = count + 1 /\ left' \in [Spent -> Nat]
  <2>1. table[u].password \in Nat /\ 0 \in Nat
    BY DEF Typed, Stored
  <2> QED BY <2>1, AskTyped, SpendKeeps DEF Typed, Login, Enters, redis
<1>2. Stored' /\ Counted'
  BY DEF Typed, Stored, Counted, Login, users, redis, limiter, tabs, passwords
<1>3. Kept'
  BY <1>1 DEF Typed, Kept, Login, users, redis, limiter, tabs, passwords
<1> QED BY <1>1, <1>2, <1>3 DEF Typed

LEMMA RegisterTypes ==
  ASSUME Typed, NEW t \in Tabs, NEW u \in Users, Register(t, u)
  PROVE  Typed'
<1>1. JobsOK' /\ count' = count + 1 /\ left' \in [Spent -> Nat]
  <2>1. table[u].password \in Nat
    BY DEF Typed, Stored
  <2> QED BY <2>1, AskTyped, SpendKeeps DEF Typed, Register, Enters, redis
<1>2. Stored' /\ Counted'
  BY DEF Typed, Stored, Counted, Register, users, redis, limiter, tabs, passwords
<1>3. Kept'
  BY <1>1 DEF Typed, Kept, Register, users, redis, limiter, tabs, passwords
<1> QED BY <1>1, <1>2, <1>3 DEF Typed

LEMMA UseTypes ==
  ASSUME Typed, NEW t \in Tabs, NEW op \in Uses, Use(t, op)
  PROVE  Typed'
<1>1. JobsOK' /\ count' = count + 1 /\ left' \in [Spent -> Nat]
  BY AskTyped, SpendKeeps DEF Typed, Use, Uses, Enters, redis
<1>2. Stored' /\ Counted'
  BY DEF Typed, Stored, Counted, Use, users, redis, limiter, tabs, passwords
<1>3. Kept'
  BY <1>1 DEF Typed, Kept, Use, users, redis, limiter, tabs, passwords
<1> QED BY <1>1, <1>2, <1>3 DEF Typed

LEMMA ChangePasswordTypes ==
  ASSUME Typed, NEW t \in Tabs, ChangePassword(t)
  PROVE  Typed'
<1>1. JobsOK' /\ count' = count + 1 /\ left' \in [Spent -> Nat]
  <2>1. table[me[t].data.user].password \in Nat /\ 0 \in Nat
    BY DEF Typed, Stored, Kept, Someone, ChangePassword, Inside
  <2> QED BY <2>1, AskTyped, SpendKeeps DEF Typed, ChangePassword, Uses, Enters, redis
<1>2. Stored' /\ Counted'
  BY DEF Typed, Stored, Counted, ChangePassword, users, redis, limiter, tabs, passwords
<1>3. Kept'
  BY <1>1 DEF Typed, Kept, ChangePassword, users, redis, limiter, tabs, passwords
<1> QED BY <1>1, <1>2, <1>3 DEF Typed

LEMMA PendingTyped ==
  /\ Pending \in [data : Data, failed : BOOLEAN] /\ Refused \in [data : Data, failed : BOOLEAN]
  /\ Pending.data = Nobody /\ Refused.data = Nobody
BY DEF Pending, Refused, Nobody, Data

LEMMA FetchTypes ==
  ASSUME Typed, NEW t \in Tabs, Fetch(t), made' = made
  PROVE  /\ JobsOK' /\ count' = count + 1
         /\ loading' \in [Tabs -> 0 .. count']
         /\ me' \in [Tabs -> [data : Data, failed : BOOLEAN]]
         /\ \A w \in Tabs : Someone(me'[w].data)
<1>1. JobsOK' /\ count' = count + 1
  BY AskTyped DEF Fetch, Uses, Enters
<1>2. loading' \in [Tabs -> 0 .. count']
  BY <1>1 DEF Typed, Kept, Fetch
<1>3. me' \in [Tabs -> [data : Data, failed : BOOLEAN]] /\ \A w \in Tabs : Someone(me'[w].data)
  BY PendingTyped DEF Typed, Kept, Fetch, Someone
<1> QED BY <1>1, <1>2, <1>3

LEMMA LoadTypes ==
  ASSUME Typed, NEW t \in Tabs, Load(t)
  PROVE  Typed'
<1>1. JobsOK' /\ count' = count + 1 /\ left' \in [Spent -> Nat]
  BY AskTyped, SpendKeeps DEF Typed, Load, Uses, Enters, redis
<1>2. Stored' /\ Counted'
  BY DEF Typed, Stored, Counted, Load, users, redis, limiter, tabs, passwords
<1>3. Kept'
  BY <1>1, PendingTyped DEF Typed, Kept, Load, Someone, users, redis, limiter, tabs, passwords
<1> QED BY <1>1, <1>2, <1>3 DEF Typed

LEMMA RenderTypes ==
  ASSUME Typed, NEW t \in Tabs, Render(t)
  PROVE  Typed'
<1>1. /\ Fetch(t) /\ left' \in [Spent -> Nat]
      /\ UNCHANGED <<users, redis, limiter, cookie, page, strayed, spare, passwords>>
  BY SpendKeeps DEF Typed, Kept, Render
<1>2. Stored' /\ Counted'
  BY <1>1 DEF Typed, Stored, Counted, users, redis, limiter, tabs, passwords
<1>3. JobsOK' /\ Kept'
  BY <1>1, FetchTypes DEF Typed, Kept, users, redis, limiter, tabs, passwords
<1> QED BY <1>2, <1>3 DEF Typed

LEMMA RedirectTypes ==
  ASSUME Typed, NEW t \in Tabs, Redirect(t)
  PROVE  Typed'
<1>1. /\ left' \in [Spent -> Nat] /\ page' \in [Tabs -> {"public", "private"}]
      /\ UNCHANGED <<users, redis, limiter, cookie, strayed, spare, passwords>>
  BY SpendKeeps DEF Typed, Kept, Redirect
<1>2. Stored' /\ Counted'
  BY <1>1 DEF Typed, Stored, Counted, users, redis, limiter, tabs, passwords
<1>3. CASE Fetch(t)
  BY <1>1, <1>2, <1>3, FetchTypes DEF Typed, Kept, users, redis, limiter, tabs, passwords
<1>4. CASE UNCHANGED <<me, loading, jobs, count>>
  <2>1. JobsOK'
    BY <1>1, <1>4, JobsFewer DEF redis
  <2>2. Kept'
    BY <1>1, <1>4 DEF Typed, Kept, users, redis, limiter, tabs, passwords
  <2> QED BY <1>2, <2>1, <2>2 DEF Typed
<1> QED BY <1>3, <1>4 DEF Redirect

(* A request that is carried on with.                                       *)
LEMMA ChangeTyped ==
  ASSUME Typed, NEW j \in jobs, NEW k \in Jobs, Fits(k, count, made'), Change(j, k),
         made' \in Nat, made <= made', count' = count
  PROVE  JobsOK'
BY JobsKept DEF Change, Typed, Kept

LEMMA JobIs ==
  ASSUME Typed, NEW j \in jobs
  PROVE  /\ j \in Jobs /\ Fits(j, count, made) /\ j.tab \in Tabs /\ j.n \in Nat
         /\ Counter(j) \in Counters \/ j.op \notin Enters
BY AccountsAssumption DEF Typed, JobsOK, Jobs, Fits, Counter, Counters, Enters

LEMMA ArrivedEnters ==
  ASSUME NEW j, NEW last, NEW ids, Fits(j, last, ids), j.stage \in {"arrived", "counted"}
  PROVE  j.op \in Enters
BY DEF Fits

LEMMA AnswerTyped ==
  ASSUME NEW j \in Jobs, NEW last, NEW ids, Fits(j, last, ids),
           NEW status \in {"unauthorized", "refused"}
  PROVE  Answer(j, status) \in Jobs /\ Fits(Answer(j, status), last, ids)
<1> DEFINE k == Answer(j, status)
<1>1. k \in Jobs
  BY DEF Answer, Jobs, Stages
<1>2. /\ k.n = j.n /\ k.op = j.op /\ k.cookie = j.cookie /\ k.who = j.who /\ k.data = j.data
      /\ k.set = j.set /\ k.stage = "answered" /\ k.status = status
  BY DEF Answer, Jobs
<1>3. Fits(k, last, ids)
  <2> HIDE DEF k
  <2> QED BY <1>2 DEF Fits
<1> QED BY <1>1, <1>3

LEMMA FailOpenTypes ==
  ASSUME Typed, NEW j \in jobs, FailOpen(j)
  PROVE  Typed'
<1>1. /\ j \in Jobs /\ Fits(j, count, made) /\ j.tab \in Tabs /\ j.n \in Nat
      /\ Counter(j) \in Counters \/ j.op \notin Enters
  BY JobIs
<1>2. j.stage = "arrived" /\ Change(j, [j EXCEPT !.stage = "asked"]) /\ UNCHANGED <<made, count>>
  BY DEF FailOpen, redis
<1>4. JobsOK'
  <2> DEFINE k == [j EXCEPT !.stage = "asked"]
  <2>1. k \in Jobs
    BY <1>1, <1>2 DEF Jobs, Stages
  <2>2. /\ k.n = j.n /\ k.op = j.op /\ k.cookie = j.cookie /\ k.who = j.who
        /\ k.data = j.data /\ k.set = j.set /\ k.stage = "asked"
    BY <1>1, <1>2 DEF Jobs
  <2>3. Fits(k, count, made')
    <3> HIDE DEF k
    <3> QED BY <1>1, <1>2, <2>2 DEF Fits, Enters
  <2> QED BY <1>1, <1>2, <2>1, <2>3, ChangeTyped DEF Typed, Stored
<1>5. Stored'
  BY <1>1, <1>2 DEF Typed, Stored, FailOpen, users, redis
<1>6. Counted'
  BY <1>1, <1>2 DEF Typed, Counted, FailOpen, limiter
<1>7. Kept'
  BY <1>1, SpendKeeps DEF Typed, Kept, FailOpen, tabs, passwords
<1> QED BY <1>4, <1>5, <1>6, <1>7 DEF Typed

LEMMA CountTypes ==
  ASSUME Typed, NEW j \in jobs, Count(j)
  PROVE  Typed'
<1>1. /\ j \in Jobs /\ Fits(j, count, made) /\ j.tab \in Tabs /\ j.n \in Nat
      /\ Counter(j) \in Counters \/ j.op \notin Enters
  BY JobIs
<1>2. j.stage = "arrived"
        /\ Change(j, [j EXCEPT !.stage = "counted", !.turn = counts[Counter(j)] + 1])
      /\ UNCHANGED <<made, count>>
  BY DEF Count, redis
<1>4. JobsOK'
  <2>0. counts[Counter(j)] + 1 \in Nat
    BY <1>1, <1>2, ArrivedEnters DEF Typed, Counted
  <2> DEFINE k == [j EXCEPT !.stage = "counted", !.turn = counts[Counter(j)] + 1]
  <2>1. k \in Jobs
    BY <1>1, <1>2, <2>0 DEF Jobs, Stages
  <2>2. /\ k.n = j.n /\ k.op = j.op /\ k.cookie = j.cookie /\ k.who = j.who
        /\ k.data = j.data /\ k.set = j.set /\ k.stage = "counted"
    BY <1>1, <1>2, <2>0 DEF Jobs
  <2>3. Fits(k, count, made')
    <3> HIDE DEF k
    <3> QED BY <1>1, <1>2, <2>0, <2>2 DEF Fits, Enters
  <2> QED BY <1>1, <1>2, <2>1, <2>3, ChangeTyped DEF Typed, Stored
<1>5. Stored'
  BY <1>1, <1>2 DEF Typed, Stored, Count, users, redis
<1>6. Counted'
  BY <1>1, <1>2, ArrivedEnters DEF Typed, Counted, Count, limiter
<1>7. Kept'
  BY <1>1, SpendKeeps DEF Typed, Kept, Count, tabs, passwords
<1> QED BY <1>4, <1>5, <1>6, <1>7 DEF Typed

LEMMA ExpireTypes ==
  ASSUME Typed, NEW j \in jobs, Expire(j)
  PROVE  Typed'
<1>1. /\ j \in Jobs /\ Fits(j, count, made) /\ j.tab \in Tabs /\ j.n \in Nat
      /\ Counter(j) \in Counters \/ j.op \notin Enters
  BY JobIs
<1>2. /\ j.stage = "counted" /\ UNCHANGED <<made, count>>
      /\ Change(j, [j EXCEPT !.stage = "asked"]) \/ Change(j, Answer(j, "refused"))
  BY DEF Expire, redis, Decide
<1>4. JobsOK'
  <2>0. CASE Change(j, Answer(j, "refused"))
    BY <1>1, <1>2, <2>0, AnswerTyped, ChangeTyped DEF Typed, Stored
  <2>4. CASE Change(j, [j EXCEPT !.stage = "asked"])
    <3> DEFINE k == [j EXCEPT !.stage = "asked"]
    <3>1. k \in Jobs
      BY <1>1, <1>2 DEF Jobs, Stages
    <3>2. /\ k.n = j.n /\ k.op = j.op /\ k.cookie = j.cookie /\ k.who = j.who
          /\ k.data = j.data /\ k.set = j.set /\ k.stage = "asked"
      BY <1>1, <1>2 DEF Jobs
    <3>3. Fits(k, count, made')
      <4> HIDE DEF k
      <4> QED BY <1>1, <1>2, <3>2 DEF Fits, Enters
    <3> QED BY <1>1, <1>2, <2>4, <3>1, <3>3, ChangeTyped DEF Typed, Stored
  <2> QED BY <1>2, <2>0, <2>4
<1>5. Stored'
  BY <1>1, <1>2 DEF Typed, Stored, Expire, users, redis
<1>6. Counted'
  BY <1>1, <1>2, ArrivedEnters DEF Typed, Counted, Expire, limiter
<1>7. Kept'
  BY <1>1, SpendKeeps DEF Typed, Kept, Expire, tabs, passwords
<1> QED BY <1>4, <1>5, <1>6, <1>7 DEF Typed

LEMMA ExpireFailsTypes ==
  ASSUME Typed, NEW j \in jobs, ExpireFails(j)
  PROVE  Typed'
<1>1. /\ j \in Jobs /\ Fits(j, count, made) /\ j.tab \in Tabs /\ j.n \in Nat
      /\ Counter(j) \in Counters \/ j.op \notin Enters
  BY JobIs
<1>2. /\ j.stage = "counted" /\ UNCHANGED <<made, count>>
      /\ Change(j, [j EXCEPT !.stage = "asked"]) \/ Change(j, Answer(j, "refused"))
  BY DEF ExpireFails, redis, Decide
<1>4. JobsOK'
  <2>0. CASE Change(j, Answer(j, "refused"))
    BY <1>1, <1>2, <2>0, AnswerTyped, ChangeTyped DEF Typed, Stored
  <2>4. CASE Change(j, [j EXCEPT !.stage = "asked"])
    <3> DEFINE k == [j EXCEPT !.stage = "asked"]
    <3>1. k \in Jobs
      BY <1>1, <1>2 DEF Jobs, Stages
    <3>2. /\ k.n = j.n /\ k.op = j.op /\ k.cookie = j.cookie /\ k.who = j.who
          /\ k.data = j.data /\ k.set = j.set /\ k.stage = "asked"
      BY <1>1, <1>2 DEF Jobs
    <3>3. Fits(k, count, made')
      <4> HIDE DEF k
      <4> QED BY <1>1, <1>2, <3>2 DEF Fits, Enters
    <3> QED BY <1>1, <1>2, <2>4, <3>1, <3>3, ChangeTyped DEF Typed, Stored
  <2> QED BY <1>2, <2>0, <2>4
<1>5. Stored'
  BY <1>1, <1>2 DEF Typed, Stored, ExpireFails, users, redis
<1>6. Counted'
  BY <1>1, <1>2, ArrivedEnters DEF Typed, Counted, ExpireFails, limiter
<1>7. Kept'
  BY <1>1, SpendKeeps DEF Typed, Kept, ExpireFails, tabs, passwords
<1> QED BY <1>4, <1>5, <1>6, <1>7 DEF Typed

LEMMA AuthenticateTypes ==
  ASSUME Typed, NEW j \in jobs, Authenticate(j)
  PROVE  Typed'
<1>1. /\ j \in Jobs /\ Fits(j, count, made) /\ j.tab \in Tabs /\ j.n \in Nat
      /\ Counter(j) \in Counters \/ j.op \notin Enters
  BY JobIs
<1>2. /\ j.stage = "asked" /\ j.op \notin Enters /\ UNCHANGED <<made, count>>
  BY DEF Authenticate, redis, Enters
<1>3. Change(j, Answer(j, "unauthorized"))
        \/ \E s \in sessions : Change(j, [j EXCEPT !.stage = "known", !.who = s.user])
  BY DEF Authenticate
<1>4. JobsOK'
  <2>0. CASE Change(j, Answer(j, "unauthorized"))
    <3>1. Answer(j, "unauthorized") \in Jobs /\ Fits(Answer(j, "unauthorized"), count, made)
      BY <1>1, AnswerTyped
    <3> QED BY <1>2, <2>0, <3>1, ChangeTyped DEF Typed, Stored
  <2>4. ASSUME NEW s \in sessions, Change(j, [j EXCEPT !.stage = "known", !.who = s.user])
        PROVE  JobsOK'
    <3>0. s.user \in Users
      BY DEF Typed, Stored
    <3> DEFINE k == [j EXCEPT !.stage = "known", !.who = s.user]
    <3>1. k \in Jobs
      BY <1>1, <1>2, <2>4, <3>0 DEF Jobs, Stages
    <3>2. /\ k.n = j.n /\ k.op = j.op /\ k.cookie = j.cookie /\ k.who = s.user
          /\ k.data = j.data /\ k.set = j.set /\ k.stage = "known"
      BY <1>1, <1>2, <2>4, <3>0 DEF Jobs
    <3>3. Fits(k, count, made')
      <4> HIDE DEF k
      <4> QED BY <1>1, <1>2, <2>4, <3>0, <3>2 DEF Fits, Enters
    <3> QED BY <1>1, <1>2, <2>4, <3>0, <3>1, <3>3, ChangeTyped DEF Typed, Stored
  <2> QED BY <1>3, <2>0, <2>4
<1>5. Stored'
  BY <1>1, <1>2 DEF Typed, Stored, Authenticate, users, redis
<1>6. Counted'
  BY <1>1, <1>2 DEF Typed, Counted, Authenticate, limiter
<1>7. Kept'
  BY <1>1, SpendKeeps DEF Typed, Kept, Authenticate, tabs, passwords
<1> QED BY <1>4, <1>5, <1>6, <1>7 DEF Typed

LEMMA AuthenticateFailsTypes ==
  ASSUME Typed, NEW j \in jobs, AuthenticateFails(j)
  PROVE  Typed'
<1>1. /\ j \in Jobs /\ Fits(j, count, made) /\ j.tab \in Tabs /\ j.n \in Nat
      /\ Counter(j) \in Counters \/ j.op \notin Enters
  BY JobIs
<1>2. Change(j, Answer(j, "unauthorized")) /\ UNCHANGED <<made, count>>
  BY DEF AuthenticateFails, redis
<1>4. JobsOK'
  BY <1>1, <1>2, AnswerTyped, ChangeTyped DEF Typed, Stored
<1>5. Stored'
  BY <1>1, <1>2 DEF Typed, Stored, AuthenticateFails, users, redis
<1>6. Counted'
  BY <1>1, <1>2 DEF Typed, Counted, AuthenticateFails, limiter
<1>7. Kept'
  BY <1>1, SpendKeeps DEF Typed, Kept, AuthenticateFails, tabs, passwords
<1> QED BY <1>4, <1>5, <1>6, <1>7 DEF Typed

LEMMA PublicTyped ==
  ASSUME Typed, NEW u \in Users
  PROVE  Public(u) \in Data /\ Public(u).user = u /\ table[u].profile \in Nat
BY DEF Typed, Stored, Public, Data

LEMMA KnownUser ==
  ASSUME NEW j, NEW last, NEW ids, Fits(j, last, ids),
         j.stage \in {"known", "checked"} \/ j.op \in Enters
  PROVE  j.who \in Users
BY DEF Fits

LEMMA ReadTypes ==
  ASSUME Typed, NEW j \in jobs, Read(j)
  PROVE  Typed'
<1>1. /\ j \in Jobs /\ Fits(j, count, made) /\ j.tab \in Tabs /\ j.n \in Nat
      /\ Counter(j) \in Counters \/ j.op \notin Enters
  BY JobIs
<1>2. j.stage = "known" /\ j.op \in {"me", "query"}
        /\ Change(j, [Answer(j, "ok") EXCEPT !.data = Public(j.who)])
      /\ UNCHANGED <<made, count>>
  BY DEF Read, redis
<1>4. JobsOK'
  <2>0. Public(j.who) \in Data /\ Public(j.who).user \in Users
    BY <1>1, <1>2, KnownUser, PublicTyped
  <2> DEFINE k == [Answer(j, "ok") EXCEPT !.data = Public(j.who)]
  <2>1. k \in Jobs
    BY <1>1, <1>2, <2>0 DEF Jobs, Stages, Answer
  <2>2. /\ k.n = j.n /\ k.op = j.op /\ k.cookie = j.cookie /\ k.who = j.who
        /\ k.data = Public(j.who) /\ k.set = j.set /\ k.stage = "answered"
    BY <1>1, <1>2, <2>0 DEF Jobs, Answer
  <2>3. Fits(k, count, made')
    <3> HIDE DEF k
    <3> QED BY <1>1, <1>2, <2>0, <2>2 DEF Fits, Enters
  <2> QED BY <1>1, <1>2, <2>1, <2>3, ChangeTyped DEF Typed, Stored
<1>5. Stored'
  BY <1>1, <1>2 DEF Typed, Stored, Read, users, redis
<1>6. Counted'
  BY <1>1, <1>2 DEF Typed, Counted, Read, limiter
<1>7. Kept'
  BY <1>1, SpendKeeps DEF Typed, Kept, Read, tabs, passwords
<1> QED BY <1>4, <1>5, <1>6, <1>7 DEF Typed

LEMMA UpdateProfileTypes ==
  ASSUME Typed, NEW j \in jobs, UpdateProfile(j)
  PROVE  Typed'
<1>1. /\ j \in Jobs /\ Fits(j, count, made) /\ j.tab \in Tabs /\ j.n \in Nat
      /\ Counter(j) \in Counters \/ j.op \notin Enters
  BY JobIs
<1>2. j.stage = "known" /\ j.op = "profile"
        /\ Change(j, [Answer(j, "ok") EXCEPT !.data = [Public(j.who) EXCEPT !.profile = j.n]])
      /\ UNCHANGED <<made, count>>
  BY DEF UpdateProfile, redis
<1>4. JobsOK'
  <2>0. /\ [Public(j.who) EXCEPT !.profile = j.n] \in Data
        /\ [Public(j.who) EXCEPT !.profile = j.n].user \in Users
    BY <1>1, <1>2, KnownUser, PublicTyped DEF Data
  <2> DEFINE k == [Answer(j, "ok") EXCEPT !.data = [Public(j.who) EXCEPT !.profile = j.n]]
  <2>1. k \in Jobs
    BY <1>1, <1>2, <2>0 DEF Jobs, Stages, Answer
  <2>2. /\ k.n = j.n /\ k.op = j.op /\ k.cookie = j.cookie /\ k.who = j.who
        /\ k.data.user \in Users /\ k.set = j.set /\ k.stage = "answered"
    BY <1>1, <1>2, <2>0 DEF Jobs, Answer
  <2>3. Fits(k, count, made')
    <3> HIDE DEF k
    <3> QED BY <1>1, <1>2, <2>0, <2>2 DEF Fits, Enters
  <2> QED BY <1>1, <1>2, <2>1, <2>3, ChangeTyped DEF Typed, Stored
<1>5. Stored'
  BY <1>1, <1>2 DEF Typed, Stored, UpdateProfile, users, redis
<1>6. Counted'
  BY <1>1, <1>2 DEF Typed, Counted, UpdateProfile, limiter
<1>7. Kept'
  BY <1>1, SpendKeeps DEF Typed, Kept, UpdateProfile, tabs, passwords
<1> QED BY <1>4, <1>5, <1>6, <1>7 DEF Typed

LEMMA UploadAvatarTypes ==
  ASSUME Typed, NEW j \in jobs, UploadAvatar(j)
  PROVE  Typed'
<1>1. /\ j \in Jobs /\ Fits(j, count, made) /\ j.tab \in Tabs /\ j.n \in Nat
      /\ Counter(j) \in Counters \/ j.op \notin Enters
  BY JobIs
<1>2. j.stage = "known" /\ j.op \in {"upload", "remove"}
        /\ Change(j, [Answer(j, "ok") EXCEPT !.data.avatar = TRUE])
      /\ UNCHANGED <<made, count>>
  BY DEF UploadAvatar, redis, SetAvatar
<1>4. JobsOK'
  <2>0. Answer(j, "ok").data = j.data /\ [j.data EXCEPT !.avatar = TRUE] \in Data
    BY <1>1 DEF Jobs, Answer, Data
  <2> DEFINE k == [Answer(j, "ok") EXCEPT !.data.avatar = TRUE]
  <2>1. k \in Jobs
    BY <1>1, <1>2, <2>0 DEF Jobs, Stages, Answer
  <2>2. /\ k.n = j.n /\ k.op = j.op /\ k.cookie = j.cookie /\ k.who = j.who
        /\ k.set = j.set /\ k.stage = "answered"
    BY <1>1, <1>2, <2>0 DEF Jobs, Answer
  <2>3. Fits(k, count, made')
    <3> HIDE DEF k
    <3> QED BY <1>1, <1>2, <2>0, <2>2 DEF Fits, Enters
  <2> QED BY <1>1, <1>2, <2>1, <2>3, ChangeTyped DEF Typed, Stored
<1>5. Stored'
  BY <1>1, <1>2 DEF Typed, Stored, SetAvatar, UploadAvatar, users, redis
<1>6. Counted'
  BY <1>1, <1>2 DEF Typed, Counted, SetAvatar, UploadAvatar, limiter
<1>7. Kept'
  BY <1>1, SpendKeeps DEF Typed, Kept, SetAvatar, UploadAvatar, tabs, passwords
<1> QED BY <1>4, <1>5, <1>6, <1>7 DEF Typed

LEMMA DeleteAvatarTypes ==
  ASSUME Typed, NEW j \in jobs, DeleteAvatar(j)
  PROVE  Typed'
<1>1. /\ j \in Jobs /\ Fits(j, count, made) /\ j.tab \in Tabs /\ j.n \in Nat
      /\ Counter(j) \in Counters \/ j.op \notin Enters
  BY JobIs
<1>2. j.stage = "known" /\ j.op \in {"upload", "remove"}
        /\ Change(j, [Answer(j, "ok") EXCEPT !.data.avatar = FALSE])
      /\ UNCHANGED <<made, count>>
  BY DEF DeleteAvatar, redis, SetAvatar
<1>4. JobsOK'
  <2>0. Answer(j, "ok").data = j.data /\ [j.data EXCEPT !.avatar = FALSE] \in Data
    BY <1>1 DEF Jobs, Answer, Data
  <2> DEFINE k == [Answer(j, "ok") EXCEPT !.data.avatar = FALSE]
  <2>1. k \in Jobs
    BY <1>1, <1>2, <2>0 DEF Jobs, Stages, Answer
  <2>2. /\ k.n = j.n /\ k.op = j.op /\ k.cookie = j.cookie /\ k.who = j.who
        /\ k.set = j.set /\ k.stage = "answered"
    BY <1>1, <1>2, <2>0 DEF Jobs, Answer
  <2>3. Fits(k, count, made')
    <3> HIDE DEF k
    <3> QED BY <1>1, <1>2, <2>0, <2>2 DEF Fits, Enters
  <2> QED BY <1>1, <1>2, <2>1, <2>3, ChangeTyped DEF Typed, Stored
<1>5. Stored'
  BY <1>1, <1>2 DEF Typed, Stored, SetAvatar, DeleteAvatar, users, redis
<1>6. Counted'
  BY <1>1, <1>2 DEF Typed, Counted, SetAvatar, DeleteAvatar, limiter
<1>7. Kept'
  BY <1>1, SpendKeeps DEF Typed, Kept, SetAvatar, DeleteAvatar, tabs, passwords
<1> QED BY <1>4, <1>5, <1>6, <1>7 DEF Typed

LEMMA CheckPasswordTypes ==
  ASSUME Typed, NEW j \in jobs, CheckPassword(j)
  PROVE  Typed'
<1>1. /\ j \in Jobs /\ Fits(j, count, made) /\ j.tab \in Tabs /\ j.n \in Nat
      /\ Counter(j) \in Counters \/ j.op \notin Enters
  BY JobIs
<1>2. /\ (j.stage = "asked" /\ j.op = "login") \/ (j.stage = "known" /\ j.op = "password")
      /\ Change(j, Answer(j, "unauthorized"))
           \/ Change(j, [j EXCEPT !.stage = "checked", !.data = Public(j.who)])
      /\ UNCHANGED <<made, count>>
  BY DEF CheckPassword, redis
<1>4. JobsOK'
  <2>0. CASE Change(j, Answer(j, "unauthorized"))
    <3>1. Answer(j, "unauthorized") \in Jobs /\ Fits(Answer(j, "unauthorized"), count, made)
      BY <1>1, AnswerTyped
    <3> QED BY <1>2, <2>0, <3>1, ChangeTyped DEF Typed, Stored
  <2>4. CASE Change(j, [j EXCEPT !.stage = "checked", !.data = Public(j.who)])
    <3>0. Public(j.who) \in Data /\ Public(j.who).user \in Users /\ j.who \in Users
      BY <1>1, <1>2, KnownUser, PublicTyped DEF Enters
    <3> DEFINE k == [j EXCEPT !.stage = "checked", !.data = Public(j.who)]
    <3>1. k \in Jobs
      BY <1>1, <1>2, <2>4, <3>0 DEF Jobs, Stages
    <3>2. /\ k.n = j.n /\ k.op = j.op /\ k.cookie = j.cookie /\ k.who = j.who
          /\ k.data = Public(j.who) /\ k.set = j.set /\ k.stage = "checked"
      BY <1>1, <1>2, <2>4, <3>0 DEF Jobs
    <3>3. Fits(k, count, made')
      <4> HIDE DEF k
      <4> QED BY <1>1, <1>2, <2>4, <3>0, <3>2 DEF Fits, Enters
    <3> QED BY <1>1, <1>2, <2>4, <3>0, <3>1, <3>3, ChangeTyped DEF Typed, Stored
  <2> QED BY <1>2, <2>0, <2>4
<1>5. Stored'
  BY <1>1, <1>2 DEF Typed, Stored, CheckPassword, users, redis
<1>6. Counted'
  BY <1>1, <1>2 DEF Typed, Counted, CheckPassword, limiter
<1>7. Kept'
  BY <1>1, SpendKeeps, KnownUser DEF Typed, Kept, Cross, Enters, CheckPassword, tabs, passwords
<1> QED BY <1>4, <1>5, <1>6, <1>7 DEF Typed

LEMMA UpdatePasswordHashTypes ==
  ASSUME Typed, NEW j \in jobs, UpdatePasswordHash(j)
  PROVE  Typed'
<1>1. /\ j \in Jobs /\ Fits(j, count, made) /\ j.tab \in Tabs /\ j.n \in Nat
      /\ Counter(j) \in Counters \/ j.op \notin Enters
  BY JobIs
<1>2. j.stage = "checked" /\ j.op = "password" /\ Change(j, Answer(j, "ok"))
      /\ UNCHANGED <<made, count>>
  BY DEF UpdatePasswordHash, redis
<1>4. JobsOK'
  <2> DEFINE k == Answer(j, "ok")
  <2>1. k \in Jobs
    BY <1>1, <1>2 DEF Jobs, Stages, Answer
  <2>2. /\ k.n = j.n /\ k.op = j.op /\ k.cookie = j.cookie /\ k.who = j.who
        /\ k.data = j.data /\ k.set = j.set /\ k.stage = "answered"
    BY <1>1, <1>2 DEF Jobs, Answer
  <2>3. Fits(k, count, made')
    <3> HIDE DEF k
    <3> QED BY <1>1, <1>2, <2>2 DEF Fits, Enters
  <2> QED BY <1>1, <1>2, <2>1, <2>3, ChangeTyped DEF Typed, Stored
<1>5. Stored'
  BY <1>1, <1>2, KnownUser DEF Typed, Stored, UpdatePasswordHash, users, redis
<1>6. Counted'
  BY <1>1, <1>2 DEF Typed, Counted, UpdatePasswordHash, limiter
<1>7. Kept'
  BY <1>1, SpendKeeps DEF Typed, Kept, UpdatePasswordHash, tabs, passwords
<1> QED BY <1>4, <1>5, <1>6, <1>7 DEF Typed

LEMMA CreateUserTypes ==
  ASSUME Typed, NEW j \in jobs, CreateUser(j)
  PROVE  Typed'
<1>1. /\ j \in Jobs /\ Fits(j, count, made) /\ j.tab \in Tabs /\ j.n \in Nat
      /\ Counter(j) \in Counters \/ j.op \notin Enters
  BY JobIs
<1>2. /\ j.stage = "asked" /\ j.op = "register" /\ UNCHANGED <<made, count>>
      /\ Change(j, Answer(j, "refused")) \/ Change(j, [j EXCEPT !.stage = "checked"])
  BY DEF CreateUser, redis
<1>4. JobsOK'
  <2>0. CASE Change(j, Answer(j, "refused"))
    <3>1. Answer(j, "refused") \in Jobs /\ Fits(Answer(j, "refused"), count, made)
      BY <1>1, AnswerTyped
    <3> QED BY <1>2, <2>0, <3>1, ChangeTyped DEF Typed, Stored
  <2>4. CASE Change(j, [j EXCEPT !.stage = "checked"])
    <3> DEFINE k == [j EXCEPT !.stage = "checked"]
    <3>1. k \in Jobs
      BY <1>1, <1>2, <2>4 DEF Jobs, Stages
    <3>2. /\ k.n = j.n /\ k.op = j.op /\ k.cookie = j.cookie /\ k.who = j.who
          /\ k.data = j.data /\ k.set = j.set /\ k.stage = "checked"
      BY <1>1, <1>2, <2>4 DEF Jobs
    <3>3. Fits(k, count, made')
      <4> HIDE DEF k
      <4> QED BY <1>1, <1>2, <2>4, <3>2 DEF Fits, Enters
    <3> QED BY <1>1, <1>2, <2>4, <3>1, <3>3, ChangeTyped DEF Typed, Stored
  <2> QED BY <1>2, <2>0, <2>4
<1>5. Stored'
  BY <1>1, <1>2, KnownUser DEF Typed, Stored, Enters, CreateUser, users, redis
<1>6. Counted'
  BY <1>1, <1>2 DEF Typed, Counted, CreateUser, limiter
<1>7. Kept'
  BY <1>1, SpendKeeps DEF Typed, Kept, CreateUser, tabs, passwords
<1> QED BY <1>4, <1>5, <1>6, <1>7 DEF Typed

LEMMA IssueCookieTypes ==
  ASSUME Typed, NEW j \in jobs, IssueCookie(j)
  PROVE  Typed'
<1>1. /\ j \in Jobs /\ Fits(j, count, made) /\ j.tab \in Tabs /\ j.n \in Nat
      /\ Counter(j) \in Counters \/ j.op \notin Enters
  BY JobIs
<1>2. /\ j.stage = "checked" /\ j.op \in Enters /\ made' = made + 1 /\ count' = count
      /\ Change(j, [Answer(j, "ok") EXCEPT !.set = made + 1])
  BY DEF IssueCookie, redis, Enters
<1>4. JobsOK'
  <2>0. made + 1 \in Nat /\ made \in Nat
    BY DEF Typed, Stored
  <2> DEFINE k == [Answer(j, "ok") EXCEPT !.set = made + 1]
  <2>1. k \in Jobs
    BY <1>1, <1>2, <2>0 DEF Jobs, Stages, Answer
  <2>2. /\ k.n = j.n /\ k.op = j.op /\ k.cookie = j.cookie /\ k.who = j.who
        /\ k.data = j.data /\ k.set = made + 1 /\ k.stage = "answered"
    BY <1>1, <1>2, <2>0 DEF Jobs, Answer
  <2>3. Fits(k, count, made')
    <3> HIDE DEF k
    <3> QED BY <1>1, <1>2, <2>0, <2>2 DEF Fits, Enters
  <2> QED BY <1>1, <1>2, <2>1, <2>0, <2>3, ChangeTyped DEF Typed, Stored
<1>5. Stored'
  BY <1>1, <1>2, KnownUser DEF Typed, Stored, IssueCookie, users, redis
<1>6. Counted'
  BY <1>1, <1>2 DEF Typed, Counted, IssueCookie, limiter
<1>7. Kept'
  BY <1>1, SpendKeeps DEF Typed, Kept, IssueCookie, tabs, passwords
<1> QED BY <1>4, <1>5, <1>6, <1>7 DEF Typed

LEMMA IssueFailsTypes ==
  ASSUME Typed, NEW j \in jobs, IssueFails(j)
  PROVE  Typed'
<1>1. /\ j \in Jobs /\ Fits(j, count, made) /\ j.tab \in Tabs /\ j.n \in Nat
      /\ Counter(j) \in Counters \/ j.op \notin Enters
  BY JobIs
<1>2. Change(j, Answer(j, "refused")) /\ UNCHANGED <<made, count>>
  BY DEF IssueFails, redis
<1>4. JobsOK'
  BY <1>1, <1>2, AnswerTyped, ChangeTyped DEF Typed, Stored
<1>5. Stored'
  BY <1>1, <1>2 DEF Typed, Stored, IssueFails, users, redis
<1>6. Counted'
  BY <1>1, <1>2 DEF Typed, Counted, IssueFails, limiter
<1>7. Kept'
  BY <1>1, SpendKeeps DEF Typed, Kept, IssueFails, tabs, passwords
<1> QED BY <1>4, <1>5, <1>6, <1>7 DEF Typed

LEMMA ClearCookieTypes ==
  ASSUME Typed, NEW j \in jobs, ClearCookie(j)
  PROVE  Typed'
<1>1. /\ j \in Jobs /\ Fits(j, count, made) /\ j.tab \in Tabs /\ j.n \in Nat
      /\ Counter(j) \in Counters \/ j.op \notin Enters
  BY JobIs
<1>2. j.stage = "known" /\ j.op = "logout" /\ Change(j, Answer(j, "ok"))
      /\ UNCHANGED <<made, count>>
  BY DEF ClearCookie, redis
<1>4. JobsOK'
  <2> DEFINE k == Answer(j, "ok")
  <2>1. k \in Jobs
    BY <1>1, <1>2 DEF Jobs, Stages, Answer
  <2>2. /\ k.n = j.n /\ k.op = j.op /\ k.cookie = j.cookie /\ k.who = j.who
        /\ k.data = j.data /\ k.set = j.set /\ k.stage = "answered"
    BY <1>1, <1>2 DEF Jobs, Answer
  <2>3. Fits(k, count, made')
    <3> HIDE DEF k
    <3> QED BY <1>1, <1>2, <2>2 DEF Fits, Enters
  <2> QED BY <1>1, <1>2, <2>1, <2>3, ChangeTyped DEF Typed, Stored
<1>5. Stored'
  BY <1>1, <1>2 DEF Typed, Stored, ClearCookie, users, redis
<1>6. Counted'
  BY <1>1, <1>2 DEF Typed, Counted, ClearCookie, limiter
<1>7. Kept'
  BY <1>1, SpendKeeps DEF Typed, Kept, Others, ClearCookie, tabs, passwords
<1> QED BY <1>4, <1>5, <1>6, <1>7 DEF Typed

LEMMA ClearFailsTypes ==
  ASSUME Typed, NEW j \in jobs, ClearFails(j)
  PROVE  Typed'
<1>1. /\ j \in Jobs /\ Fits(j, count, made) /\ j.tab \in Tabs /\ j.n \in Nat
      /\ Counter(j) \in Counters \/ j.op \notin Enters
  BY JobIs
<1>2. j.stage = "known" /\ j.op = "logout" /\ Change(j, Answer(j, "ok"))
      /\ UNCHANGED <<made, count>>
  BY DEF ClearFails, redis
<1>4. JobsOK'
  <2> DEFINE k == Answer(j, "ok")
  <2>1. k \in Jobs
    BY <1>1, <1>2 DEF Jobs, Stages, Answer
  <2>2. /\ k.n = j.n /\ k.op = j.op /\ k.cookie = j.cookie /\ k.who = j.who
        /\ k.data = j.data /\ k.set = j.set /\ k.stage = "answered"
    BY <1>1, <1>2 DEF Jobs, Answer
  <2>3. Fits(k, count, made')
    <3> HIDE DEF k
    <3> QED BY <1>1, <1>2, <2>2 DEF Fits, Enters
  <2> QED BY <1>1, <1>2, <2>1, <2>3, ChangeTyped DEF Typed, Stored
<1>5. Stored'
  BY <1>1, <1>2 DEF Typed, Stored, Fits, ClearFails, users, redis
<1>6. Counted'
  BY <1>1, <1>2 DEF Typed, Counted, ClearFails, limiter
<1>7. Kept'
  BY <1>1, SpendKeeps DEF Typed, Kept, ClearFails, tabs, passwords
<1> QED BY <1>4, <1>5, <1>6, <1>7 DEF Typed

LEMMA ElapseTypes ==
  ASSUME Typed, NEW k \in Counters, Elapse(k)
  PROVE  Typed'
<1>1. JobsOK' /\ Stored' /\ Kept'
  BY DEF Typed, JobsOK, Stored, Kept, Elapse, users, redis, tabs, passwords
<1>2. Counted'
  BY DEF Typed, Counted, Elapse
<1> QED BY <1>1, <1>2 DEF Typed

LEMMA EndTypes ==
  ASSUME Typed, NEW s \in sessions, End(s)
  PROVE  Typed'
<1>1. JobsOK' /\ Stored' /\ Counted'
  BY DEF Typed, JobsOK, Stored, Counted, End, users, limiter
<1>2. Kept'
  BY SpendKeeps DEF Typed, Kept, End, tabs, passwords
<1> QED BY <1>1, <1>2 DEF Typed

(* The answers.                                                             *)
LEMMA CookieTyped ==
  ASSUME Typed, NEW j \in jobs, SetCookie(j), made' = made
  PROVE  cookie' \in [Browsers -> 0 .. made] /\ spare' \subseteq 0 .. made
    /\ strayed' \subseteq Tabs
<1>1. j.set \in 0 .. made /\ j.tab \in Tabs /\ BrowserOf[j.tab] \in Browsers
  BY JobIs, AccountsAssumption DEF Fits
<1>2. 0 \in 0 .. made /\ cookie[BrowserOf[j.tab]] \in 0 .. made
  BY <1>1 DEF Typed, Stored
<1>3. cookie' \in [Browsers -> 0 .. made]
  BY <1>1, <1>2 DEF Typed, Stored, SetCookie
<1>4. spare' \subseteq 0 .. made
  BY <1>1, <1>2 DEF Typed, Stored, SetCookie
<1>5. strayed' \subseteq Tabs
  BY <1>1 DEF Typed, Kept, SetCookie, Others
<1> QED BY <1>3, <1>4, <1>5

LEMMA AskOnTyped ==
  ASSUME Typed, NEW j \in jobs, j.stage = "answered", AskOn(j, j.tab),
         cookie' \in [Browsers -> 0 .. made], made' = made
  PROVE  /\ JobsOK' /\ count' \in {count, count + 1}
         /\ j.op = "query" /\ j.status = "unauthorized" => count' = count + 1
<1>1. j \in Jobs /\ Fits(j, count, made) /\ j.tab \in Tabs
  BY JobIs
<1> DEFINE k == Job(count + 1, IF j.op = "query" THEN "me" ELSE "login", j.tab, j.who, j.secret,
                    cookie'[BrowserOf[j.tab]])
<1>2. CASE jobs' = (jobs \ {j}) \cup {k} /\ count' = count + 1 /\ j.op \in {"register", "query"}
  <2>1. cookie'[BrowserOf[j.tab]] \in 0 .. made
    BY <1>1, AccountsAssumption
  <2>2. /\ (IF j.op = "query" THEN "me" ELSE "login") \in Uses \cup Enters
        /\ j.who \in Users \cup {NoUser} /\ j.secret \in Nat
        /\ (IF j.op = "query" THEN "me" ELSE "login") \in Enters => j.who \in Users
    BY <1>1, <1>2 DEF Uses, Enters, Jobs, Fits
  <2>3. k \in Jobs /\ Fits(k, count + 1, made)
    BY <1>1, <2>1, <2>2, JobTyped
  <2>4. jobs' \subseteq jobs \cup {k}
    BY <1>2
  <2> HIDE DEF k
  <2> QED BY <1>2, <2>3, <2>4, JobsKept DEF Typed, Stored, Kept
<1>3. CASE jobs' = jobs \ {j} /\ count' = count /\ ~(j.op = "query" /\ j.status = "unauthorized")
  BY <1>3, JobsFewer
<1> QED BY <1>2, <1>3 DEF AskOn

LEMMA ShownTyped ==
  ASSUME Typed, NEW j \in jobs, j.stage = "answered", NEW t \in Tabs
  PROVE  Shown(j, t) \in [data : Data, failed : BOOLEAN] /\ Someone(Shown(j, t).data)
<1>1. j.data \in Data /\ j.data.avatar \in BOOLEAN
  BY JobIs DEF Jobs, Data
<1>2. me[t] \in [data : Data, failed : BOOLEAN] /\ Someone(me[t].data)
  BY DEF Typed, Kept
<1>3. j.op \in {"login", "me", "profile"} /\ j.status = "ok" => j.data.user \in Users
  BY JobIs DEF Fits
<1>4. /\ [me[t] EXCEPT !.failed = TRUE] \in [data : Data, failed : BOOLEAN]
      /\ [me[t] EXCEPT !.failed = TRUE].data = me[t].data
  BY <1>2
<1>5. /\ Account(j.data) \in [data : Data, failed : BOOLEAN] /\ Account(j.data).data = j.data
  BY <1>1 DEF Account
<1>6. j.status = "ok" =>
        Updated(j, me[t]) \in [data : Data, failed : BOOLEAN] /\ Someone(Updated(j, me[t]).data)
  <2>1. CASE j.op = "profile"
    BY <1>3, <1>5, <2>1 DEF Updated, Someone
  <2>2. CASE j.op # "profile" /\ me[t].data = Nobody
    BY <1>2, <2>2 DEF Updated
  <2>3. CASE j.op # "profile" /\ me[t].data # Nobody
    <3> DEFINE d == [me[t].data EXCEPT !.avatar = j.data.avatar]
    <3>1. d \in Data /\ d.user \in Users
      BY <1>1, <1>2, <2>3 DEF Data, Someone
    <3>2. Updated(j, me[t]) = Account(d)
      BY <2>3 DEF Updated
    <3> HIDE DEF d
    <3> QED BY <3>1, <3>2 DEF Account, Someone
  <2> QED BY <2>1, <2>2, <2>3
<1> QED BY <1>2, <1>3, <1>4, <1>5, <1>6 DEF Shown, Someone

LEMMA ReceiveTypes ==
  ASSUME Typed, NEW j \in jobs, Receive(j)
  PROVE  Typed'
<1>1. j.stage = "answered" /\ j.tab \in Tabs /\ j.n \in Nat /\ made' = made
  BY JobIs DEF Receive, redis
<1>2. cookie' \in [Browsers -> 0 .. made] /\ spare' \subseteq 0 .. made /\ strayed' \subseteq Tabs
  BY <1>1, CookieTyped DEF Receive
<1>3. /\ JobsOK' /\ count' \in {count, count + 1}
      /\ j.op = "query" /\ j.status = "unauthorized" => count' = count + 1
  BY <1>1, <1>2, AskOnTyped DEF Receive
<1>4. Stored' /\ Counted'
  BY <1>2 DEF Typed, Stored, Counted, Receive, users, redis, limiter
<1>5. loading' \in [Tabs -> 0 .. count'] /\ count' \in Nat
  BY <1>1, <1>3 DEF Typed, Kept, Receive
<1>6. me' \in [Tabs -> [data : Data, failed : BOOLEAN]] /\ \A t \in Tabs : Someone(me'[t].data)
  <2>1. /\ (IF j.op = "logout" THEN Pending ELSE Shown(j, j.tab)) \in [data : Data,
             failed : BOOLEAN]
        /\ Someone((IF j.op = "logout" THEN Pending ELSE Shown(j, j.tab)).data)
    BY <1>1, ShownTyped, PendingTyped DEF Someone
  <2>2. me' = [me EXCEPT ![j.tab] = IF j.op = "logout" THEN Pending ELSE Shown(j, j.tab)]
    BY DEF Receive
  <2> QED BY <1>1, <2>1, <2>2 DEF Typed, Kept
<1>7. Kept'
  BY <1>2, <1>5, <1>6 DEF Typed, Kept, Receive, passwords
<1> QED BY <1>3, <1>4, <1>7 DEF Typed

LEMMA LoseTypes ==
  ASSUME Typed, NEW j \in jobs, Lose(j)
  PROVE  Typed'
<1>1. j.tab \in Tabs /\ j.set \in 0 .. made
  BY JobIs DEF Fits
<1>2. JobsOK'
  BY JobsFewer DEF Lose, redis
<1>3. Stored' /\ Counted'
  BY <1>1 DEF Typed, Stored, Counted, Lose, users, redis, limiter
<1>4. left' \in [Spent -> Nat]
  BY SpendKeeps DEF Lose, Typed
<1>5. me' \in [Tabs -> [data : Data, failed : BOOLEAN]] /\ \A t \in Tabs : Someone(me'[t].data)
  BY <1>1, PendingTyped DEF Typed, Kept, Lose, Someone
<1>6. Kept'
  BY <1>1, <1>4, <1>5 DEF Typed, Kept, Lose, passwords
<1> QED BY <1>2, <1>3, <1>6 DEF Typed

LEMMA InitTypes ==
  ASSUME Init
  PROVE  Typed
<1>1. JobsOK
  BY DEF Init, JobsOK
<1>2. Stored
  BY AccountsAssumption DEF Init, Stored
<1>3. Counted
  BY DEF Init, Counted
<1>4. Kept
  BY AccountsAssumption, PendingTyped DEF Init, Kept, Someone
<1> QED BY <1>1, <1>2, <1>3, <1>4 DEF Typed

LEMMA NextTypes ==
  ASSUME Typed, [Next]_vars
  PROVE  Typed'
<1>1. ASSUME NEW t \in Tabs, NEW u \in Users, Login(t, u) \/ Register(t, u)
      PROVE  Typed'
  BY <1>1, LoginTypes, RegisterTypes
<1>2. ASSUME NEW t \in Tabs, NEW op \in {"logout", "profile", "upload", "remove", "query"},
               Use(t, op)
      PROVE  Typed'
  BY <1>2, UseTypes DEF Uses
<1>3. ASSUME NEW t \in Tabs, ChangePassword(t) \/ Load(t) \/ Render(t) \/ Redirect(t)
      PROVE  Typed'
  BY <1>3, ChangePasswordTypes, LoadTypes, RenderTypes, RedirectTypes
<1>4. ASSUME NEW j \in jobs, Serve(j) \/ Receive(j) \/ Lose(j)
      PROVE  Typed'
  BY <1>4, CountTypes, FailOpenTypes, ExpireTypes, ExpireFailsTypes, AuthenticateTypes,
     AuthenticateFailsTypes, ReadTypes, UpdateProfileTypes, UploadAvatarTypes,
     DeleteAvatarTypes, CheckPasswordTypes, UpdatePasswordHashTypes, CreateUserTypes,
     IssueCookieTypes, IssueFailsTypes, ClearCookieTypes, ClearFailsTypes,
     ReceiveTypes, LoseTypes
     DEF Serve
<1>5. ASSUME NEW k \in Counters, Elapse(k) PROVE Typed'
  BY <1>5, ElapseTypes
<1>6. ASSUME NEW s \in sessions, End(s) PROVE Typed'
  BY <1>6, EndTypes
<1>7. CASE UNCHANGED vars
  BY <1>7 DEF Typed, Stored, Counted, Kept, JobsOK, vars, users, redis, limiter, tabs, passwords
<1> QED BY <1>1, <1>2, <1>3, <1>4, <1>5, <1>6, <1>7 DEF Next

(* Accounts, sessions, counters, requests and what tabs show keep their     *)
(* types; sessions and requests are numbered, and nobody is shown an        *)
(* account that is no user's.                                               *)
THEOREM TypeCorrect == Spec => []TypeOK
BY InitTypes, NextTypes, TypedIsTypeOK, PTL DEF Spec

-----------------------------------------------------------------------------
(* What requests become                                                     *)

same == <<sessions, cookie, spare, crossed, usurped>>

(* A new request, and nothing else for the sessions and the passwords.      *)
Asks ==
  /\ jobs \subseteq jobs' /\ \A i \in jobs' \ jobs : i.stage \in {"arrived", "asked"}
  /\ UNCHANGED <<same, table>>

LEMMA NewStage ==
  ASSUME NEW n, NEW op, NEW t, NEW u, NEW secret, NEW sent
  PROVE  Job(n, op, t, u, secret, sent).stage \in {"arrived", "asked"}
BY DEF Job

LEMMA AskIs ==
  ASSUME NEW op, NEW t, NEW u, NEW secret, Ask(op, t, u, secret)
  PROVE  jobs \subseteq jobs' /\ \A i \in jobs' \ jobs : i.stage \in {"arrived", "asked"}
BY NewStage DEF Ask

LEMMA TabsAsk ==
  ASSUME NEW t \in Tabs,
         \/ \E u \in Users : Login(t, u) \/ Register(t, u)
         \/ \E op \in {"logout", "profile", "upload", "remove", "query"} : Use(t, op)
         \/ ChangePassword(t) \/ Load(t) \/ Render(t) \/ Redirect(t)
  PROVE  Asks
<1> USE DEF Asks, same, users, redis, passwords
<1>1. ASSUME NEW u \in Users, Login(t, u) PROVE Asks
  BY <1>1, AskIs DEF Login
<1>2. ASSUME NEW u \in Users, Register(t, u) PROVE Asks
  BY <1>2, AskIs DEF Register
<1>3. ASSUME NEW op, Use(t, op) PROVE Asks
  BY <1>3, AskIs DEF Use
<1>4. CASE ChangePassword(t)
  BY <1>4, AskIs DEF ChangePassword
<1>5. CASE Load(t)
  BY <1>5, AskIs DEF Load
<1>6. CASE Render(t)
  BY <1>6, AskIs DEF Render, Fetch
<1>7. CASE Redirect(t)
  BY <1>7, AskIs DEF Redirect, Fetch
<1> HIDE DEF Asks
<1> QED BY <1>1, <1>2, <1>3, <1>4, <1>5, <1>6, <1>7

(* Request j becomes k, which ends no session and checks no password.       *)
Moves(j, k) ==
  /\ Change(j, k) /\ k.set = j.set
  /\ k.op = "logout" => ~(k.stage = "answered" /\ k.status = "ok")
  /\ k.op = "password" => k.stage # "checked"
  /\ UNCHANGED same /\ \A u \in Users : table'[u].password = table[u].password

LEMMA AnswerIs ==
  ASSUME NEW j \in Jobs, NEW status
  PROVE  LET k == Answer(j, status) IN
         /\ k.set = j.set /\ k.op = j.op /\ k.cookie = j.cookie /\ k.who = j.who
         /\ k.stage = "answered" /\ k.status = status
BY DEF Jobs, Answer

LEMMA ServerMoves ==
  ASSUME Typed, NEW j \in jobs,
         \/ Count(j) \/ FailOpen(j) \/ Expire(j) \/ ExpireFails(j)
         \/ Authenticate(j) \/ AuthenticateFails(j) \/ Read(j)
         \/ UpdateProfile(j) \/ UploadAvatar(j) \/ DeleteAvatar(j)
         \/ CreateUser(j) \/ IssueFails(j)
  PROVE  \E k : Moves(j, k)
<1>1. j \in Jobs /\ (j.stage \in {"arrived", "counted"} => j.op \in Enters)
  BY JobIs DEF Fits
<1>2. table \in [Users -> [password : Nat, profile : Nat, avatar : BOOLEAN]]
  BY DEF Typed, Stored
<1>3. /\ Moves(j, Answer(j, "refused")) <=>
           Change(j, Answer(j, "refused")) /\ UNCHANGED same
             /\ \A u \in Users : table'[u].password = table[u].password
      /\ Moves(j, Answer(j, "unauthorized")) <=>
           Change(j, Answer(j, "unauthorized")) /\ UNCHANGED same
             /\ \A u \in Users : table'[u].password = table[u].password
  BY <1>1, AnswerIs DEF Moves
<1>4. CASE Count(j)
  <2>1. Moves(j, [j EXCEPT !.stage = "counted", !.turn = counts[Counter(j)] + 1])
    BY <1>1, <1>4 DEF Count, Moves, Jobs, same, users, redis, passwords
  <2> QED BY <2>1
<1>5. ASSUME Change(j, [j EXCEPT !.stage = "asked"]), UNCHANGED <<same, table>>
      PROVE  \E k : Moves(j, k)
  <2>1. Moves(j, [j EXCEPT !.stage = "asked"])
    BY <1>1, <1>5 DEF Moves, Jobs
  <2> QED BY <2>1
<1>6. ASSUME UNCHANGED <<same, table>>, Change(j, Answer(j, "refused"))
               \/ Change(j, Answer(j, "unauthorized"))
      PROVE  \E k : Moves(j, k)
  BY <1>3, <1>6
<1>7. CASE FailOpen(j)
  BY <1>5, <1>7 DEF FailOpen, same, users, redis, passwords
<1>8. CASE Expire(j) \/ ExpireFails(j)
  BY <1>5, <1>6, <1>8 DEF Expire, ExpireFails, Decide, same, users, redis, passwords
<1>9. CASE Authenticate(j)
  <2>1. ASSUME NEW s \in sessions, Change(j, [j EXCEPT !.stage = "known", !.who = s.user])
        PROVE  Moves(j, [j EXCEPT !.stage = "known", !.who = s.user])
    BY <1>1, <1>9, <2>1 DEF Authenticate, Moves, Jobs, same, users, redis, passwords
  <2>2. CASE Change(j, Answer(j, "unauthorized"))
    BY <1>6, <1>9, <2>2 DEF Authenticate, same, users, redis, passwords
  <2>3. Change(j, Answer(j, "unauthorized")) \/
          \E s \in sessions : Change(j, [j EXCEPT !.stage = "known", !.who = s.user])
    BY <1>9 DEF Authenticate
  <2> QED BY <2>1, <2>2, <2>3
<1>10. CASE AuthenticateFails(j) \/ IssueFails(j)
  BY <1>6, <1>10 DEF AuthenticateFails, IssueFails, same, users, redis, passwords
<1>11. CASE Read(j)
  <2> DEFINE k == [Answer(j, "ok") EXCEPT !.data = Public(j.who)]
  <2>1. k.set = j.set /\ k.op = j.op
    BY <1>1 DEF Jobs, Answer
  <2>2. /\ j.op \in {"me", "query"} /\ Change(j, k) /\ UNCHANGED <<same, table>>
    BY <1>11 DEF Read, same, users, redis, passwords
  <2> HIDE DEF k
  <2> QED BY <2>1, <2>2 DEF Moves
<1>12. CASE UpdateProfile(j)
  <2> DEFINE k == [Answer(j, "ok") EXCEPT !.data = [Public(j.who) EXCEPT !.profile = j.n]]
  <2>1. k.set = j.set /\ k.op = j.op
    BY <1>1 DEF Jobs, Answer
  <2>2. /\ j.op = "profile" /\ Change(j, k) /\ UNCHANGED same
    BY <1>12 DEF UpdateProfile, same, users, redis, passwords
  <2>3. \A u \in Users : table'[u].password = table[u].password
    BY <1>2, <1>12 DEF UpdateProfile
  <2> HIDE DEF k
  <2> QED BY <2>1, <2>2, <2>3 DEF Moves
<1>13. CASE UploadAvatar(j)
  <2> DEFINE k == [Answer(j, "ok") EXCEPT !.data.avatar = TRUE]
  <2>1. k.set = j.set /\ k.op = j.op
    BY <1>1 DEF Jobs, Answer
  <2>2. j.op \in {"upload", "remove"} /\ Change(j, k) /\ UNCHANGED same
    BY <1>13 DEF UploadAvatar, SetAvatar, same, redis, passwords
  <2>3. \A u \in Users : table'[u].password = table[u].password
    BY <1>2, <1>13 DEF UploadAvatar, SetAvatar
  <2> HIDE DEF k
  <2> QED BY <2>1, <2>2, <2>3 DEF Moves
<1>14. CASE DeleteAvatar(j)
  <2> DEFINE k == [Answer(j, "ok") EXCEPT !.data.avatar = FALSE]
  <2>1. k.set = j.set /\ k.op = j.op
    BY <1>1 DEF Jobs, Answer
  <2>2. j.op \in {"upload", "remove"} /\ Change(j, k) /\ UNCHANGED same
    BY <1>14 DEF DeleteAvatar, SetAvatar, same, redis, passwords
  <2>3. \A u \in Users : table'[u].password = table[u].password
    BY <1>2, <1>14 DEF DeleteAvatar, SetAvatar
  <2> HIDE DEF k
  <2> QED BY <2>1, <2>2, <2>3 DEF Moves
<1>15. CASE CreateUser(j)
  <2>1. CASE Change(j, [j EXCEPT !.stage = "checked"])
    <3>1. Moves(j, [j EXCEPT !.stage = "checked"])
      BY <1>1, <1>15, <2>1 DEF CreateUser, Moves, Jobs, same, redis, passwords
    <3> QED BY <3>1
  <2>2. CASE Change(j, Answer(j, "refused"))
    BY <1>6, <1>15, <2>2 DEF CreateUser, same, redis, passwords
  <2> QED BY <1>15, <2>1, <2>2 DEF CreateUser
<1> QED BY <1>4, <1>7, <1>8, <1>9, <1>10, <1>11, <1>12, <1>13, <1>14, <1>15

-----------------------------------------------------------------------------
(* Sessions                                                                 *)

LEMMA OwnedKept ==
  ASSUME Owned, Ids' \subseteq Ids, cookie' = cookie, spare \subseteq spare',
         \A i \in jobs' \ jobs : Ended(i, Ids', spare'),
         \A i \in jobs \ jobs' : i.set \in Ids' \ spare' => \E k \in jobs' : k.set = i.set
  PROVE  Owned'
BY DEF Owned, SessionsOwned, Ended

LEMMA AsksOwned ==
  ASSUME Owned, Asks
  PROVE  Owned'
BY OwnedKept DEF Asks, same, Ids, Ended

LEMMA MovesOwned ==
  ASSUME Owned, NEW j \in jobs, NEW k, Change(j, k), k.set = j.set,
         Ended(k, Ids', spare'), Ids' \subseteq Ids, cookie' = cookie, spare \subseteq spare'
  PROVE  Owned'
<1>1. k \in jobs' /\ jobs' \ jobs \subseteq {k} /\ jobs \ jobs' \subseteq {j}
  BY DEF Change
<1> QED BY <1>1, OwnedKept

LEMMA IssueOwned ==
  ASSUME Typed, Owned, NEW j \in jobs, IssueCookie(j)
  PROVE  Owned'
<1> DEFINE k == [Answer(j, "ok") EXCEPT !.set = made + 1]
<1>1. k.set = made + 1 /\ k.op \in Enters /\ j.set = 0
  BY JobIs DEF Jobs, Answer, IssueCookie, Enters, Fits
<1>2. jobs' = (jobs \ {j}) \cup {k} /\ Ids' = Ids \cup {made + 1} /\ UNCHANGED <<cookie, spare>>
  <2>1. sessions' = sessions \cup {[id |-> made + 1, user |-> j.who]}
    BY DEF IssueCookie
  <2>2. [id |-> made + 1, user |-> j.who].id = made + 1
    OBVIOUS
  <2>3. Ids' = Ids \cup {made + 1}
    BY <2>1, <2>2 DEF Ids
  <2>4. jobs' = (jobs \ {j}) \cup {k} /\ UNCHANGED <<cookie, spare>>
    BY DEF IssueCookie, Change
  <2> QED BY <2>3, <2>4
<1>3. made \in Nat /\ \A id \in Ids : id \in 1 .. made
  BY DEF Typed, Stored, Ids
<1>4. \A i \in jobs : i.cookie \in 0 .. made
  BY JobIs DEF Fits
<1> HIDE DEF k
<1>5. SessionsOwned'
  BY <1>1, <1>2, <1>3 DEF Owned, SessionsOwned
<1>6. ASSUME NEW i \in jobs' PROVE Ended(i, Ids', spare')
  BY <1>1, <1>2, <1>3, <1>4, <1>6 DEF Owned, Ended, Enters
<1> QED BY <1>5, <1>6 DEF Owned

LEMMA ReceiveOwned ==
  ASSUME Typed, Owned, NEW j \in jobs, Receive(j)
  PROVE  Owned'
<1> DEFINE b == BrowserOf[j.tab]
           new == IF j.op = "logout" /\ j.status = "ok" THEN 0
                  ELSE IF j.set # 0 THEN j.set ELSE cookie[b]
<1>1. b \in Browsers /\ cookie \in [Browsers -> 0 .. made] /\ made \in Nat
  BY JobIs, AccountsAssumption DEF Typed, Stored
<1>2. /\ cookie' = [cookie EXCEPT ![b] = new]
      /\ spare' = IF new = cookie[b] \/ (j.op = "logout" /\ cookie[b] = j.cookie)
                    THEN spare ELSE spare \cup {cookie[b]}
      /\ j.stage = "answered" /\ Ids' = Ids
  BY DEF Receive, SetCookie, redis, Ids
<1>3. jobs \ {j} \subseteq jobs' /\ \A i \in jobs' \ jobs : i.stage \in {"arrived", "asked"}
  BY NewStage DEF Receive, AskOn
<1>4. j.op = "logout" => j.set = 0
  BY JobIs DEF Fits, Enters
<1>5. \A id \in Ids : id # 0
  BY DEF Typed, Stored, Ids
<1>6. Ended(j, Ids, spare)
        /\ Ids \subseteq spare \cup {cookie[c] : c \in Browsers} \cup {i.set : i \in jobs}
  BY DEF Owned, SessionsOwned
<1> HIDE DEF b, new
<1>7. cookie'[b] = new /\ \A c \in Browsers \ {b} : cookie'[c] = cookie[c]
  BY <1>1, <1>2
<1>8. ASSUME NEW id \in Ids
      PROVE  id \in spare' \cup {cookie'[c] : c \in Browsers} \cup {i.set : i \in jobs'}
  <2>1. CASE id \in spare
    BY <1>2, <2>1
  <2>2. CASE \E c \in Browsers \ {b} : id = cookie[c]
    BY <1>7, <2>2
  <2>3. CASE \E i \in jobs \ {j} : id = i.set
    BY <1>3, <2>3
  <2>4. CASE id = j.set
    BY <1>1, <1>4, <1>5, <1>7, <2>4 DEF new
  <2>5. CASE id = cookie[b] /\ id \notin spare
    <3>1. CASE new = cookie[b]
      BY <1>1, <1>7, <2>5, <3>1
    <3>2. CASE new # cookie[b] /\ j.op = "logout" /\ cookie[b] = j.cookie
      BY <1>2, <1>4, <1>6, <2>5, <3>2 DEF new, Ended
    <3>3. CASE new # cookie[b] /\ ~(j.op = "logout" /\ cookie[b] = j.cookie)
      BY <1>2, <2>5, <3>3
    <3> QED BY <3>1, <3>2, <3>3
  <2> QED BY <1>6, <2>1, <2>2, <2>3, <2>4, <2>5
<1>9. SessionsOwned'
  BY <1>2, <1>8 DEF SessionsOwned
<1>10. ASSUME NEW i \in jobs' PROVE Ended(i, Ids', spare')
  BY <1>2, <1>3, <1>10 DEF Owned, Ended
<1> QED BY <1>9, <1>10 DEF Owned

LEMMA NextOwned ==
  ASSUME Typed, Owned, [Next]_vars
  PROVE  Owned'
<1>1. ASSUME NEW t \in Tabs,
             \/ \E u \in Users : Login(t, u) \/ Register(t, u)
             \/ \E op \in {"logout", "profile", "upload", "remove", "query"} : Use(t, op)
             \/ ChangePassword(t) \/ Load(t) \/ Render(t) \/ Redirect(t)
      PROVE  Owned'
  BY <1>1, TabsAsk, AsksOwned
<1>2. ASSUME NEW j \in jobs,
             \/ Count(j) \/ FailOpen(j) \/ Expire(j) \/ ExpireFails(j)
             \/ Authenticate(j) \/ AuthenticateFails(j) \/ Read(j)
             \/ UpdateProfile(j) \/ UploadAvatar(j) \/ DeleteAvatar(j)
             \/ CreateUser(j) \/ IssueFails(j)
      PROVE  Owned'
  <2>1. PICK k : Moves(j, k)
    BY <1>2, ServerMoves
  <2> QED BY <2>1, MovesOwned DEF Moves, Ended, same, Ids
<1>3. ASSUME NEW j \in jobs, CheckPassword(j) \/ UpdatePasswordHash(j)
      PROVE  Owned'
  <2>1. j \in Jobs /\ j.op # "logout" /\ UNCHANGED <<sessions, cookie, spare>>
    BY <1>3, JobIs DEF CheckPassword, UpdatePasswordHash, redis
  <2>2. PICK k : Change(j, k) /\ k.op = j.op /\ k.set = j.set
    <3>1. ASSUME Change(j, [j EXCEPT !.stage = "checked", !.data = Public(j.who)])
          PROVE  \E k : Change(j, k) /\ k.op = j.op /\ k.set = j.set
      <4> DEFINE k == [j EXCEPT !.stage = "checked", !.data = Public(j.who)]
      <4>1. k.op = j.op /\ k.set = j.set
        BY <2>1 DEF Jobs
      <4> QED BY <3>1, <4>1
    <3>2. ASSUME NEW status, Change(j, Answer(j, status))
          PROVE  \E k : Change(j, k) /\ k.op = j.op /\ k.set = j.set
      BY <2>1, <3>2, AnswerIs
    <3> QED BY <1>3, <3>1, <3>2 DEF CheckPassword, UpdatePasswordHash
  <2> QED BY <2>1, <2>2, MovesOwned DEF Ended, Ids
<1>4. ASSUME NEW j \in jobs, ClearCookie(j) \/ ClearFails(j)
      PROVE  Owned'
  <2> DEFINE k == Answer(j, "ok")
  <2>1. k.set = j.set /\ k.cookie = j.cookie /\ Change(j, k)
    BY <1>4, JobIs, AnswerIs DEF ClearCookie, ClearFails
  <2>2. /\ Ids' \subseteq Ids /\ cookie' = cookie /\ spare \subseteq spare'
        /\ j.cookie \notin Ids' \ spare'
    BY <1>4 DEF ClearCookie, ClearFails, Ids, redis
  <2> HIDE DEF k
  <2> QED BY <2>1, <2>2, MovesOwned DEF Ended
<1>5. ASSUME NEW j \in jobs, Lose(j)
      PROVE  Owned'
  BY <1>5, OwnedKept DEF Lose, redis, Ids
<1>6. ASSUME NEW s \in sessions, End(s)
      PROVE  Owned'
  BY <1>6, OwnedKept DEF End, Ids
<1>7. CASE UNCHANGED vars \/ \E k \in Counters : Elapse(k)
  BY <1>7, OwnedKept DEF vars, Elapse, redis, Ids
<1> QED BY <1>1, <1>2, <1>3, <1>4, <1>5, <1>6, <1>7, IssueOwned, ReceiveOwned DEF Next, Serve

(* For any tabs, browsers and failures: a session in Redis is one a browser *)
(* sends, or will once it has its answer, but for those whose cookie was    *)
(* replaced or lost, or whose logout failed.                                *)
THEOREM SessionsHaveOwners == Spec => []SessionsOwned
<1>1. Init => Owned
  BY DEF Init, Owned, SessionsOwned, Ids
<1>2. Owned => SessionsOwned
  BY DEF Owned
<1> QED BY <1>1, <1>2, InitTypes, NextTypes, NextOwned, PTL DEF Spec

-----------------------------------------------------------------------------
(* Passwords                                                                *)

LEMMA ChainKept ==
  ASSUME Typed, Chained, UNCHANGED <<usurped, crossed>>,
         \A u \in Users : table'[u].password = table[u].password,
         \A i \in jobs' \ jobs : i.op = "password" => i.stage # "checked"
  PROVE  Chained'
<1>1. \A i \in jobs : Writing(i) => i.who \in Users
  BY JobIs DEF Fits, Writing
<1> QED BY <1>1 DEF Chained, Writing

LEMMA CheckChained ==
  ASSUME Typed, Chained, NEW j \in jobs, CheckPassword(j)
  PROVE  Chained'
<1>1. j \in Jobs
  BY JobIs
<1>2. CASE Change(j, Answer(j, "unauthorized"))
  <2>1. jobs' = (jobs \ {j}) \cup {Answer(j, "unauthorized")}
          /\ Answer(j, "unauthorized").stage = "answered"
    BY <1>1, <1>2, AnswerIs DEF Change
  <2>2. UNCHANGED <<usurped, table>> /\ crossed \subseteq crossed'
    BY DEF CheckPassword, users, Cross
  <2> QED BY <2>1, <2>2 DEF Chained, Writing
<1>3. CASE j.secret = table[j.who].password
           /\ Change(j, [j EXCEPT !.stage = "checked", !.data = Public(j.who)])
  <2> DEFINE k == [j EXCEPT !.stage = "checked", !.data = Public(j.who)]
  <2>1. k.op = j.op /\ k.who = j.who /\ k.secret = j.secret /\ k.stage = "checked"
    BY <1>1 DEF Jobs
  <2>2. jobs' = (jobs \ {j}) \cup {k} /\ UNCHANGED <<usurped, table>> /\ Cross(j)
    BY <1>3 DEF CheckPassword, Change, users
  <2> HIDE DEF k
  <2>3. /\ crossed \subseteq crossed'
        /\ \A i \in jobs \ {j} : j.op = "password" /\ i.op = "password" /\ i.stage = "checked"
             /\ i.who = j.who => j.who \in crossed'
    BY <2>2 DEF Cross
  <2>4. ASSUME NEW i \in jobs', Writing(i)'
        PROVE  i.secret = table'[i.who].password
    BY <1>3, <2>1, <2>2, <2>3, <2>4 DEF Chained, Writing
  <2>5. ASSUME NEW i \in jobs', NEW h \in jobs', i # h, Writing(i)', h.op = "password",
                 h.stage = "checked"
        PROVE  h.who # i.who
    BY <2>1, <2>2, <2>3, <2>5 DEF Chained, Writing
  <2>6. ~usurped'
    BY <2>2 DEF Chained
  <2> QED BY <2>4, <2>5, <2>6 DEF Chained
<1> QED BY <1>2, <1>3 DEF CheckPassword

LEMMA WriteChained ==
  ASSUME Typed, Chained, NEW j \in jobs, UpdatePasswordHash(j)
  PROVE  Chained'
<1>1. j \in Jobs /\ j.op = "password" /\ j.stage = "checked" /\ j.who \in Users
  BY JobIs DEF UpdatePasswordHash, Fits
<1>2. jobs' = (jobs \ {j}) \cup {Answer(j, "ok")} /\ Answer(j, "ok").stage = "answered"
  BY <1>1, AnswerIs DEF UpdatePasswordHash, Change
<1>3. crossed' = crossed /\ \A u \in Users \ {j.who} : table'[u].password = table[u].password
  BY DEF UpdatePasswordHash, Typed, Stored
<1>4. ~usurped'
  BY <1>1 DEF UpdatePasswordHash, Chained, Writing
<1>5. ASSUME NEW i \in jobs', Writing(i)'
      PROVE  i \in jobs /\ i # j /\ Writing(i) /\ i.who \in Users \ {j.who}
  <2>1. i \in jobs /\ i # j /\ Writing(i)
    BY <1>2, <1>3, <1>5 DEF Writing
  <2>2. i.who \in Users
    BY <2>1, JobIs DEF Fits, Writing
  <2> QED BY <1>1, <2>1, <2>2 DEF Chained, Writing
<1>6. \A i \in jobs' : i.op = "password" /\ i.stage = "checked" => i \in jobs
  BY <1>2
<1> QED BY <1>3, <1>4, <1>5, <1>6 DEF Chained

LEMMA NextChained ==
  ASSUME Typed, Chained, [Next]_vars
  PROVE  Chained'
<1>1. ASSUME NEW t \in Tabs,
             \/ \E u \in Users : Login(t, u) \/ Register(t, u)
             \/ \E op \in {"logout", "profile", "upload", "remove", "query"} : Use(t, op)
             \/ ChangePassword(t) \/ Load(t) \/ Render(t) \/ Redirect(t)
      PROVE  Chained'
  BY <1>1, TabsAsk, ChainKept DEF Asks, same
<1>2. ASSUME NEW j \in jobs,
             \/ Count(j) \/ FailOpen(j) \/ Expire(j) \/ ExpireFails(j)
             \/ Authenticate(j) \/ AuthenticateFails(j) \/ Read(j)
             \/ UpdateProfile(j) \/ UploadAvatar(j) \/ DeleteAvatar(j)
             \/ CreateUser(j) \/ IssueFails(j)
      PROVE  Chained'
  <2>1. PICK k : Moves(j, k)
    BY <1>2, ServerMoves
  <2>2. \A i \in jobs' \ jobs : i.op = "password" => i.stage # "checked"
    BY <2>1 DEF Moves, Change
  <2> QED BY <2>1, <2>2, ChainKept DEF Moves, same
<1>3. ASSUME NEW j \in jobs, IssueCookie(j)
      PROVE  Chained'
  <2> DEFINE k == [Answer(j, "ok") EXCEPT !.set = made + 1]
  <2>1. k.stage = "answered"
    BY JobIs DEF Jobs, Answer
  <2>2. jobs' = (jobs \ {j}) \cup {k} /\ UNCHANGED <<table, crossed, usurped>>
    BY <1>3 DEF IssueCookie, Change, users, passwords
  <2> HIDE DEF k
  <2> QED BY <2>1, <2>2, ChainKept
<1>4. ASSUME NEW j \in jobs, ClearCookie(j) \/ ClearFails(j)
      PROVE  Chained'
  <2>1. Answer(j, "ok").stage = "answered"
    BY JobIs, AnswerIs
  <2>2. jobs' = (jobs \ {j}) \cup {Answer(j, "ok")} /\ UNCHANGED <<table, crossed, usurped>>
    BY <1>4 DEF ClearCookie, ClearFails, Change, users, passwords
  <2> QED BY <2>1, <2>2, ChainKept
<1>5. ASSUME NEW j \in jobs, Receive(j) \/ Lose(j)
      PROVE  Chained'
  <2>1. UNCHANGED <<table, crossed, usurped>> /\ \A i \in jobs' \ jobs : i.stage # "checked"
    BY <1>5, NewStage DEF Receive, AskOn, Lose, users, passwords
  <2> QED BY <2>1, ChainKept
<1>6. CASE UNCHANGED vars \/ (\E k \in Counters : Elapse(k)) \/ \E s \in sessions : End(s)
  BY <1>6, ChainKept DEF vars, Elapse, End, users, passwords
<1> QED BY <1>1, <1>2, <1>3, <1>4, <1>5, <1>6, CheckChained, WriteChained DEF Next, Serve

(* For any number of changes of password, checked and written in whatever   *)
(* order: each replaces the password that it was asked with, as long as no  *)
(* other of the same user is checked between its check and its write.       *)
THEOREM PasswordsFollow == Spec => []PasswordsChain
<1>1. Init => Chained
  BY DEF Init, Chained
<1>2. Chained => PasswordsChain
  BY DEF Chained, PasswordsChain
<1> QED BY <1>1, <1>2, InitTypes, NextTypes, NextChained, PTL DEF Spec

-----------------------------------------------------------------------------
(* What a tab shows of its account                                          *)

Owners == {"me", "profile", "upload", "remove"}

SessionOf(t) == Session(BrowserOf[t])

(* Sessions are named once, and a session is of one browser: no other       *)
(* browser has it as its cookie or sends it, and one that is on its way is  *)
(* nobody's yet.                                                            *)
Named == \A r, s \in sessions : r.id = s.id => r = s

Elsewhere(j) ==
  \A b \in Browsers \ {BrowserOf[j.tab]} : j.cookie # 0 => j.cookie # cookie[b]

Coming(j) ==
  j.set # 0 =>
    /\ \A b \in Browsers : j.set # cookie[b]
    /\ \A k \in jobs : j.set # k.cookie
    /\ \A k \in jobs \ {j} : j.set # k.set

Apart ==
  /\ \A b, d \in Browsers : b # d /\ cookie[b] # 0 => cookie[b] # cookie[d]
  /\ \A j \in jobs : Elsewhere(j) /\ Coming(j)

(* A session on its way is there, for who asked for it.                     *)
Issued(j) ==
  /\ j.set # 0 => j.status = "ok" /\ [id |-> j.set, user |-> j.who] \in sessions
  /\ j.op \in Enters /\ j.stage = "answered" /\ j.status = "ok" => j.set # 0

Sound == Named /\ Apart /\ \A j \in jobs : Issued(j)

(* An answer is on its way, to one of these requests.                       *)
Answered(t, ops) ==
  \E j \in jobs : j.tab = t /\ j.op \in ops /\ j.stage = "answered" /\ j.status = "ok"

(* A logout has been carried out, and the tab is about to hear of it.       *)
Leaving(t) == cookie[BrowserOf[t]] # 0 /\ Answered(t, {"logout"})

(* What an answer is worth, and a request that is about to be answered: it  *)
(* is for the session's user, and has the data there is.                    *)
Worth(j) ==
  /\ j.stage = "known" => \E s \in SessionOf(j.tab) : j.who = s.user
  /\ j.stage = "answered" /\ j.status = "ok" =>
       \E s \in SessionOf(j.tab) :
         IF j.op \in {"me", "profile"} THEN j.data = Public(s.user)
         ELSE j.data.avatar = table[s.user].avatar

Current(j) ==
  /\ j.op \in Owners => j.cookie = cookie[BrowserOf[j.tab]]
  /\ j.op = "me" /\ j.stage = "answered" /\ j.status # "ok" => j.cookie \notin Ids
  /\ j.op = "login" /\ (j.stage = "checked" \/ (j.stage = "answered" /\ j.status = "ok")) =>
       j.data = Public(j.who)
  /\ j.op \in Owners /\ ~Leaving(j.tab) => Worth(j)

(* An answer is coming that will set right what the tab shows, or clear it. *)
Awaits(t) ==
  \/ Waiting(t, {"logout"})
  \/ Waiting(t, {"login"}) /\ cookie[BrowserOf[t]] # 0
  \/ Answered(t, {"profile"})

(* The tab shows its session's account, but for an avatar whose change it   *)
(* is about to hear of.                                                     *)
Faithful(t) ==
  IF SessionOf(t) = {} THEN me[t] = Refused
  ELSE \E s \in SessionOf(t), there \in BOOLEAN :
         /\ me[t] = Account([Public(s.user) EXCEPT !.avatar = there])
         /\ there = table[s.user].avatar \/ Answered(t, {"upload", "remove"})

Believing(t) == Awaits(t) \/ me[t] = Pending \/ Faithful(t)

Minded ==
  /\ Sound
  /\ \A j \in jobs : j.tab \notin strayed => Current(j)
  /\ \A t \in Tabs \ strayed : Believing(t)

(* Sessions go, none that is on its way, and requests are added that bring  *)
(* none.                                                                    *)
Plain(i) ==
  /\ i.set = 0 /\ i.tab \in Tabs
  /\ i.cookie = cookie[BrowserOf[i.tab]] \/ \E h \in jobs : h.tab = i.tab /\ h.cookie = i.cookie
  /\ ~(i.op \in Enters /\ i.stage = "answered" /\ i.status = "ok")

LEMMA SoundKept ==
  ASSUME Typed, Sound, cookie' = cookie, sessions' \subseteq sessions,
         \A i \in jobs, s \in sessions : s.id = i.set => s \in sessions',
         \A i \in jobs' : i \in jobs \/ Plain(i)
  PROVE  Sound'
<1>1. Named'
  BY DEF Sound, Named
<1>2. \A i \in jobs : i.tab \in Tabs
  BY JobIs
<1>3. ASSUME NEW i \in jobs' PROVE Elsewhere(i)'
  <2>1. CASE i \in jobs
    BY <2>1 DEF Sound, Apart, Elsewhere
  <2>2. CASE i.tab \in Tabs /\ i.cookie = cookie[BrowserOf[i.tab]]
    BY <2>2, AccountsAssumption DEF Sound, Apart, Elsewhere
  <2>3. CASE \E h \in jobs : h.tab = i.tab /\ h.cookie = i.cookie
    BY <2>3 DEF Sound, Apart, Elsewhere
  <2> QED BY <1>3, <2>1, <2>2, <2>3 DEF Plain
<1>4. ASSUME NEW i \in jobs', i.set # 0 PROVE i \in jobs
  BY <1>4 DEF Plain
<1>5. ASSUME NEW i \in jobs', i.set # 0, NEW k \in jobs' PROVE i.set # k.cookie
  <2>1. i \in jobs
    BY <1>4, <1>5
  <2>2. CASE k.tab \in Tabs /\ k.cookie = cookie[BrowserOf[k.tab]]
    BY <1>5, <2>1, <2>2, AccountsAssumption DEF Sound, Apart, Coming
  <2>3. CASE \E h \in jobs : h.cookie = k.cookie
    BY <1>5, <2>1, <2>3 DEF Sound, Apart, Coming
  <2> QED BY <1>5, <2>2, <2>3 DEF Plain
<1>6. ASSUME NEW i \in jobs' PROVE Coming(i)'
  <2>1. ASSUME i.set # 0, NEW k \in jobs' \ {i} PROVE i.set # k.set
    BY <1>4, <1>6, <2>1 DEF Sound, Apart, Coming
  <2>2. ASSUME i.set # 0, NEW b \in Browsers PROVE i.set # cookie'[b]
    BY <1>4, <1>6, <2>2 DEF Sound, Apart, Coming
  <2> QED BY <1>5, <1>6, <2>1, <2>2 DEF Coming
<1>7. Apart'
  BY <1>3, <1>6 DEF Sound, Apart
<1>8. ASSUME NEW i \in jobs' PROVE Issued(i)'
  <2>1. CASE i \in jobs
    <3>1. [id |-> i.set, user |-> i.who].id = i.set
      OBVIOUS
    <3> QED BY <2>1, <3>1 DEF Sound, Issued
  <2>2. CASE Plain(i)
    BY <2>2 DEF Plain, Issued
  <2> QED BY <1>8, <2>1, <2>2
<1> QED BY <1>1, <1>7, <1>8 DEF Sound

LEMMA IssueSound ==
  ASSUME Typed, Sound, NEW j \in jobs, IssueCookie(j)
  PROVE  Sound'
<1> DEFINE k == [Answer(j, "ok") EXCEPT !.set = made + 1]
           s == [id |-> made + 1, user |-> j.who]
<1>1. /\ k.set = made + 1 /\ k.cookie = j.cookie /\ k.who = j.who /\ k.status = "ok"
      /\ k.tab = j.tab
  BY JobIs DEF Jobs, Answer
<1>2. /\ jobs' = (jobs \ {j}) \cup {k} /\ cookie' = cookie
      /\ sessions' = sessions \cup {s}
  BY DEF IssueCookie, Change
<1>3. /\ made \in Nat /\ \A r \in sessions : r.id \in 1 .. made
      /\ \A b \in Browsers : cookie[b] \in 0 .. made
  BY DEF Typed, Stored
<1>4. \A i \in jobs : i.cookie \in 0 .. made /\ i.set \in 0 .. made
  BY JobIs DEF Fits
<1>5. s.id = made + 1 /\ s = [id |-> k.set, user |-> k.who]
  BY <1>1
<1> HIDE DEF k, s
<1>6. Named'
  BY <1>2, <1>3, <1>5 DEF Sound, Named
<1>7. ASSUME NEW i \in jobs' PROVE Elsewhere(i)'
  BY <1>1, <1>2, <1>7 DEF Sound, Apart, Elsewhere
<1>8. ASSUME NEW i \in jobs' PROVE Coming(i)'
  <2>1. CASE i = k
    BY <1>1, <1>2, <1>3, <1>4, <2>1 DEF Coming
  <2>2. CASE i \in jobs \ {j}
    BY <1>1, <1>2, <1>3, <1>4, <2>2 DEF Sound, Apart, Coming
  <2> QED BY <1>2, <1>8, <2>1, <2>2
<1>9. ASSUME NEW i \in jobs' PROVE Issued(i)'
  <2>1. CASE i = k
    BY <1>1, <1>2, <1>3, <1>5, <2>1 DEF Issued
  <2>2. CASE i \in jobs
    BY <1>2, <2>2 DEF Sound, Issued
  <2> QED BY <1>2, <1>9, <2>1, <2>2
<1> QED BY <1>2, <1>6, <1>7, <1>8, <1>9 DEF Sound, Apart

(* What an answer leaves of the requests.                                   *)
LEMMA AskedOn ==
  ASSUME NEW j \in jobs, AskOn(j, j.tab)
  PROVE  /\ jobs \ {j} \subseteq jobs'
         /\ \A i \in jobs' \ (jobs \ {j}) :
              /\ i.tab = j.tab /\ i.set = 0 /\ i.stage \in {"arrived", "asked"}
              /\ i.cookie = cookie'[BrowserOf[j.tab]] /\ i.status = "none"
              /\ i.op = IF j.op = "query" THEN "me" ELSE "login"
         /\ j.op = "register" /\ j.status = "ok" =>
              \E i \in jobs' : i.tab = j.tab /\ i.op = "login"
<1> DEFINE op == IF j.op = "query" THEN "me" ELSE "login"
           k == Job(count + 1, op, j.tab, j.who, j.secret, cookie'[BrowserOf[j.tab]])
<1>1. /\ k.tab = j.tab /\ k.set = 0 /\ k.stage \in {"arrived", "asked"} /\ k.op = op
      /\ k.cookie = cookie'[BrowserOf[j.tab]] /\ k.status = "none"
  BY DEF Job
<1>2. jobs' = (jobs \ {j}) \cup {k} \/ jobs' = jobs \ {j}
  BY DEF AskOn
<1>3. j.op = "register" /\ j.status = "ok" => k \in jobs'
  BY DEF AskOn
<1> HIDE DEF k
<1> QED BY <1>1, <1>2, <1>3

LEMMA ReceiveSound ==
  ASSUME Typed, Sound, NEW j \in jobs, Receive(j)
  PROVE  Sound'
<1> DEFINE b == BrowserOf[j.tab]
           new == IF j.op = "logout" /\ j.status = "ok" THEN 0
                  ELSE IF j.set # 0 THEN j.set ELSE cookie[b]
<1>1. b \in Browsers /\ cookie \in [Browsers -> 0 .. made]
  BY JobIs, AccountsAssumption DEF Typed, Stored
<1>2. cookie' = [cookie EXCEPT ![b] = new] /\ sessions' = sessions
  BY DEF Receive, SetCookie, redis
<1>3. /\ jobs \ {j} \subseteq jobs'
      /\ \A i \in jobs' \ (jobs \ {j}) :
           /\ i.tab = j.tab /\ i.set = 0 /\ i.stage \in {"arrived", "asked"}
           /\ i.cookie = cookie'[b]
  BY AskedOn DEF Receive
<1>4. new \in {0, cookie[b], j.set} /\ (new # cookie[b] => new = 0 \/ (j.set # 0 /\ new = j.set))
  OBVIOUS
<1> HIDE DEF b, new
<1>5. cookie'[b] = new /\ \A d \in Browsers \ {b} : cookie'[d] = cookie[d]
  BY <1>1, <1>2
<1>6. /\ \A d \in Browsers \ {b} : j.set # 0 => j.set # cookie[d]
      /\ \A k \in jobs : j.set # 0 => j.set # k.cookie
      /\ \A k \in jobs \ {j} : j.set # 0 => j.set # k.set
  BY DEF Sound, Apart, Coming
<1>7. \A c, d \in Browsers : c # d /\ cookie'[c] # 0 => cookie'[c] # cookie'[d]
  BY <1>1, <1>4, <1>5, <1>6 DEF Sound, Apart
<1>8. ASSUME NEW i \in jobs' PROVE Elsewhere(i)'
  <2>1. CASE i \in jobs \ {j}
    BY <1>4, <1>5, <1>6, <2>1 DEF Sound, Apart, Elsewhere
  <2>2. CASE i \notin jobs \ {j}
    BY <1>1, <1>3, <1>7, <1>8, <2>2 DEF Elsewhere, b
  <2> QED BY <2>1, <2>2
<1>9. ASSUME NEW i \in jobs' PROVE Coming(i)'
  <2>1. CASE i \in jobs \ {j}
    <3>1. ASSUME i.set # 0, NEW d \in Browsers PROVE i.set # cookie'[d]
      BY <1>1, <1>4, <1>5, <1>6, <2>1, <3>1 DEF Sound, Apart, Coming
    <3>2. ASSUME i.set # 0, NEW k \in jobs' PROVE i.set # k.cookie
      BY <1>1, <1>3, <2>1, <3>1, <3>2 DEF Sound, Apart, Coming
    <3>3. ASSUME i.set # 0, NEW k \in jobs' \ {i} PROVE i.set # k.set
      BY <1>3, <2>1, <3>3 DEF Sound, Apart, Coming
    <3> QED BY <3>1, <3>2, <3>3 DEF Coming
  <2>2. CASE i \notin jobs \ {j}
    BY <1>3, <1>9, <2>2 DEF Coming
  <2> QED BY <2>1, <2>2
<1>10. ASSUME NEW i \in jobs' PROVE Issued(i)'
  BY <1>2, <1>3, <1>10 DEF Sound, Issued
<1> QED BY <1>2, <1>7, <1>8, <1>9, <1>10 DEF Sound, Apart, Named

-----------------------------------------------------------------------------
(* What stays as it is: a tab's session and its account                     *)

Stays(t) ==
  /\ cookie'[BrowserOf[t]] = cookie[BrowserOf[t]]
  /\ SessionOf(t)' = SessionOf(t)
  /\ \A u \in Users : Public(u)' = Public(u) /\ table'[u].avatar = table[u].avatar

(* None of a tab's requests has gone that it awaits something of.           *)
Spares(t) ==
  /\ Awaits(t) => Awaits(t)'
  /\ Answered(t, {"upload", "remove"}) => Answered(t, {"upload", "remove"})'

LEMMA SessionUser ==
  ASSUME Typed, NEW t \in Tabs, NEW s \in SessionOf(t)
  PROVE  s \in sessions /\ s.user \in Users /\ s.id = cookie[BrowserOf[t]]
BY DEF Typed, Stored, SessionOf, Session

LEMMA BelievingStays ==
  ASSUME Typed, NEW t \in Tabs, Stays(t), Spares(t), me'[t] = me[t], Believing(t)
  PROVE  Believing(t)'
<1>1. CASE Awaits(t) \/ me[t] = Pending
  BY <1>1 DEF Believing, Spares, Pending, Nobody
<1>2. CASE SessionOf(t) = {} /\ me[t] = Refused
  BY <1>2 DEF Stays, Believing, Faithful, Refused, Nobody
<1>3. ASSUME NEW s \in SessionOf(t), NEW there \in BOOLEAN,
             me[t] = Account([Public(s.user) EXCEPT !.avatar = there]),
             there = table[s.user].avatar \/ Answered(t, {"upload", "remove"})
      PROVE  Faithful(t)'
  <2>1. s \in SessionOf(t)' /\ s.user \in Users
    BY SessionUser DEF Stays
  <2>2. me'[t] = Account([Public(s.user)' EXCEPT !.avatar = there])
    BY <1>3, <2>1 DEF Stays
  <2>3. there = table'[s.user].avatar \/ Answered(t, {"upload", "remove"})'
    BY <1>3, <2>1 DEF Stays, Spares
  <2> QED BY <2>1, <2>2, <2>3 DEF Faithful, Account
<1> QED BY <1>1, <1>2, <1>3 DEF Believing, Faithful

LEMMA CurrentStays ==
  ASSUME Typed, NEW i \in jobs, Current(i), Stays(i.tab),
         Leaving(i.tab) => Leaving(i.tab)', i.cookie \in Ids' => i.cookie \in Ids
  PROVE  Current(i)'
<1>1. i.tab \in Tabs /\ (i.op = "login" => i.who \in Users)
  BY JobIs DEF Fits, Enters
<1>2. ASSUME Worth(i) PROVE Worth(i)'
  <2>1. ASSUME i.stage = "known" PROVE \E s \in SessionOf(i.tab)' : i.who = s.user
    BY <1>2, <2>1 DEF Worth, Stays
  <2>2. ASSUME i.stage = "answered", i.status = "ok"
        PROVE  \E s \in SessionOf(i.tab)' :
                 IF i.op \in {"me", "profile"} THEN i.data = Public(s.user)'
                 ELSE i.data.avatar = table'[s.user].avatar
    BY <1>1, <1>2, <2>2, SessionUser DEF Worth, Stays
  <2> QED BY <2>1, <2>2 DEF Worth
<1>3. i.op = "login" => Public(i.who)' = Public(i.who)
  BY <1>1 DEF Stays
<1> QED BY <1>2, <1>3 DEF Current, Stays

-----------------------------------------------------------------------------
(* What a tab shows: the steps of the tabs                                  *)

(* A request that was just made.                                            *)
New(i) ==
  /\ i.tab \in Tabs /\ i.set = 0 /\ i.status = "none" /\ i.stage \in {"arrived", "asked"}
  /\ i.cookie = cookie'[BrowserOf[i.tab]]

LEMMA NewIsPlain ==
  ASSUME NEW i, New(i), cookie' = cookie
  PROVE  Plain(i)
BY DEF New, Plain

LEMMA NewIsCurrent ==
  ASSUME NEW i, New(i)
  PROVE  Current(i)'
BY DEF New, Current, Worth

LEMMA AskIsNew ==
  ASSUME NEW op, NEW t \in Tabs, NEW u, NEW secret, Ask(op, t, u, secret), cookie' = cookie
  PROVE  jobs \subseteq jobs' /\ \A i \in jobs' \ jobs : New(i)
<1> DEFINE k == Job(count + 1, op, t, u, secret, cookie[BrowserOf[t]])
<1>1. New(k)
  BY DEF Job, New
<1> QED BY <1>1 DEF Ask

LEMMA MoreAwaited ==
  ASSUME NEW t, jobs \subseteq jobs', cookie'[BrowserOf[t]] = cookie[BrowserOf[t]]
  PROVE  Spares(t) /\ (Leaving(t) => Leaving(t)')
BY DEF Spares, Awaits, Waiting, Answered, Leaving

LEMMA SameStays ==
  ASSUME NEW t, UNCHANGED <<sessions, cookie, table>>
  PROVE  Stays(t)
BY DEF Stays, SessionOf, Session, Public

LEMMA AsksMinded ==
  ASSUME Typed, Minded, UNCHANGED <<sessions, cookie, table>>,
         jobs \subseteq jobs', \A i \in jobs' \ jobs : New(i),
         \A i \in jobs : i.tab \notin strayed' => i.tab \notin strayed,
         \A t \in Tabs \ strayed' : me'[t] = Pending \/ (me'[t] = me[t] /\ t \notin strayed)
  PROVE  Minded'
<1>1. Sound'
  BY SoundKept, NewIsPlain DEF Minded
<1>2. ASSUME NEW i \in jobs', i.tab \notin strayed' PROVE Current(i)'
  <2>1. CASE i \in jobs
    BY <1>2, <2>1, CurrentStays, SameStays, MoreAwaited DEF Minded, Ids
  <2>2. CASE i \notin jobs
    BY <1>2, <2>2, NewIsCurrent
  <2> QED BY <2>1, <2>2
<1>3. ASSUME NEW t \in Tabs \ strayed' PROVE Believing(t)'
  <2>1. CASE me'[t] = Pending
    BY <2>1 DEF Believing, Pending, Nobody
  <2>2. CASE me'[t] = me[t] /\ t \notin strayed
    BY <2>2, BelievingStays, SameStays, MoreAwaited DEF Minded
  <2> QED BY <2>1, <2>2
<1> QED BY <1>1, <1>2, <1>3 DEF Minded

LEMMA FetchShows ==
  ASSUME Typed, NEW t \in Tabs, Fetch(t)
  PROVE  \A w \in Tabs : me'[w] = Pending \/ me'[w] = me[w]
BY DEF Typed, Kept, Fetch

LEMMA TabsMinded ==
  ASSUME Typed, Minded, NEW t \in Tabs,
         \/ \E u \in Users : Login(t, u) \/ Register(t, u)
         \/ \E op \in {"logout", "profile", "upload", "remove", "query"} : Use(t, op)
         \/ ChangePassword(t) \/ Load(t) \/ Render(t) \/ Redirect(t)
  PROVE  Minded'
<1> USE DEF users, redis, tabs
<1>1. ASSUME NEW u \in Users, Login(t, u) \/ Register(t, u) PROVE Minded'
  BY <1>1, AskIsNew, AsksMinded DEF Login, Register
<1>2. ASSUME NEW op, Use(t, op) PROVE Minded'
  BY <1>2, AskIsNew, AsksMinded DEF Use
<1>3. CASE ChangePassword(t)
  BY <1>3, AskIsNew, AsksMinded DEF ChangePassword
<1>4. CASE Load(t)
  <2>1. /\ Ask("me", t, NoUser, 0) /\ UNCHANGED <<sessions, cookie, table>>
        /\ strayed' = strayed \ {t} /\ \A j \in jobs : j.tab # t
    BY <1>4 DEF Load
  <2>2. me'[t] = Pending /\ \A w \in Tabs \ {t} : me'[w] = me[w]
    BY <1>4 DEF Load, Typed, Kept
  <2> QED BY <2>1, <2>2, AskIsNew, AsksMinded
<1>5. CASE Render(t)
  BY <1>5, AskIsNew, FetchShows, AsksMinded DEF Render, Fetch
<1>6. CASE Redirect(t)
  <2>1. UNCHANGED <<sessions, cookie, table, strayed>>
    BY <1>6 DEF Redirect
  <2>2. CASE Fetch(t)
    BY <2>1, <2>2, AskIsNew, FetchShows, AsksMinded DEF Fetch
  <2>3. CASE UNCHANGED <<me, jobs>>
    BY <2>1, <2>3, AsksMinded
  <2> QED BY <1>6, <2>2, <2>3 DEF Redirect
<1> QED BY <1>1, <1>2, <1>3, <1>4, <1>5, <1>6

-----------------------------------------------------------------------------
(* What a tab shows: the steps of the server                                *)

(* Request j, which is not answered yet, becomes k.                         *)
Turns(j, k) ==
  /\ Change(j, k) /\ j.stage # "answered" /\ cookie' = cookie
  /\ k.tab = j.tab /\ k.op = j.op /\ k.cookie = j.cookie

LEMMA TurnAwaits ==
  ASSUME NEW j \in jobs, NEW k, Turns(j, k), NEW t
  PROVE  Spares(t) /\ (Leaving(t) => Leaving(t)')
<1>1. k \in jobs' /\ \A i \in jobs : i # j => i \in jobs'
  BY DEF Turns, Change
<1>2. ASSUME NEW ops, Waiting(t, ops) PROVE Waiting(t, ops)'
  BY <1>1, <1>2 DEF Waiting, Turns
<1>3. ASSUME NEW ops, Answered(t, ops) PROVE Answered(t, ops)'
  BY <1>1, <1>3 DEF Answered, Turns
<1> QED BY <1>2, <1>3 DEF Spares, Awaits, Leaving, Turns

LEMMA TurnMinded ==
  ASSUME Typed, Minded, NEW j \in jobs, NEW k, Turns(j, k), Sound', me' = me,
         strayed \subseteq strayed',
         \A t \in Tabs \ (strayed' \cup {j.tab}) : Stays(t),
         \A i \in jobs : i.cookie \in Ids' => i.cookie \in Ids,
         j.tab \notin strayed' =>
           /\ \A i \in jobs' : i.tab = j.tab => Current(i)'
           /\ Believing(j.tab)'
  PROVE  Minded'
<1>1. \A i \in jobs : i.tab \in Tabs
  BY JobIs
<1>2. ASSUME NEW i \in jobs', i.tab \notin strayed' PROVE Current(i)'
  <2>1. CASE i.tab # j.tab
    <3>1. i \in jobs /\ Current(i) /\ Stays(i.tab)
      BY <1>1, <1>2, <2>1 DEF Turns, Change, Minded
    <3>2. Leaving(i.tab) => Leaving(i.tab)'
      BY TurnAwaits
    <3> QED BY <3>1, <3>2, CurrentStays
  <2> QED BY <1>2, <2>1
<1>3. ASSUME NEW t \in Tabs \ strayed' PROVE Believing(t)'
  <2>1. CASE t # j.tab
    BY <1>3, <2>1, TurnAwaits, BelievingStays DEF Minded
  <2> QED BY <1>3, <2>1
<1> QED BY <1>2, <1>3 DEF Minded

(* A step that changes no session and no account.                           *)
Serves(j, k) ==
  /\ Turns(j, k) /\ UNCHANGED <<sessions, me>> /\ k.set = j.set
  /\ k.op \in Enters => ~(k.stage = "answered" /\ k.status = "ok")
  /\ \A u \in Users : Public(u)' = Public(u) /\ table'[u].avatar = table[u].avatar
  /\ strayed \subseteq strayed'

LEMMA ServesSound ==
  ASSUME Typed, Minded, NEW j \in jobs, NEW k, Turns(j, k), sessions' = sessions, k.set = j.set,
         k.op \in Enters => ~(k.stage = "answered" /\ k.status = "ok")
  PROVE  Sound'
<1>1. j.tab \in Tabs /\ j.set = 0
  BY JobIs DEF Fits, Turns
<1>2. Plain(k)
  BY <1>1 DEF Plain, Turns
<1> QED BY <1>2, SoundKept DEF Minded, Turns, Change

LEMMA ServesMinded ==
  ASSUME Typed, Minded, NEW j \in jobs, NEW k, Serves(j, k),
         j.tab \notin strayed' /\ Current(j) => Current(k)'
  PROVE  Minded'
<1>1. Sound'
  BY ServesSound DEF Serves
<1>2. j.tab \in Tabs /\ \A t : Stays(t)
  BY JobIs DEF Serves, Turns, Stays, SessionOf, Session
<1>3. ASSUME j.tab \notin strayed', NEW i \in jobs', i.tab = j.tab PROVE Current(i)'
  <2>1. CASE i = k
    BY <1>3, <2>1 DEF Minded, Serves
  <2>2. CASE i \in jobs
    <3>1. Current(i) /\ (Leaving(i.tab) => Leaving(i.tab)')
      BY <1>3, <2>2, TurnAwaits DEF Minded, Serves
    <3> QED BY <1>2, <2>2, <3>1, CurrentStays DEF Serves, Ids
  <2> QED BY <1>3, <2>1, <2>2 DEF Serves, Turns, Change
<1>4. ASSUME j.tab \notin strayed' PROVE Believing(j.tab)'
  BY <1>2, <1>4, TurnAwaits, BelievingStays DEF Minded, Serves
<1> QED BY <1>1, <1>2, <1>3, <1>4, TurnMinded DEF Serves, Ids

LEMMA LimiterMinded ==
  ASSUME Typed, Minded, NEW j \in jobs, Count(j) \/ FailOpen(j) \/ Expire(j) \/ ExpireFails(j)
  PROVE  Minded'
<1>1. j \in Jobs /\ j.op \in Enters /\ j.stage \in {"arrived", "counted"}
  BY JobIs DEF Fits, Count, FailOpen, Expire, ExpireFails
<1>2. UNCHANGED <<sessions, me, table, cookie, strayed>>
  BY DEF Count, FailOpen, Expire, ExpireFails, users, redis, tabs
<1>3. ASSUME NEW k, Change(j, k), k.tab = j.tab, k.op = j.op, k.cookie = j.cookie, k.set = j.set,
             k.stage \in {"counted", "asked"} \/ (k.stage = "answered" /\ k.status = "refused")
      PROVE  Minded'
  <2>1. Serves(j, k)
    BY <1>1, <1>2, <1>3 DEF Serves, Turns, Public
  <2>2. Current(k)'
    BY <1>1, <1>3 DEF Current, Owners, Enters
  <2> QED BY <2>1, <2>2, ServesMinded
<1>4. CASE Change(j, [j EXCEPT !.stage = "counted", !.turn = counts[Counter(j)] + 1])
  <2> DEFINE k == [j EXCEPT !.stage = "counted", !.turn = counts[Counter(j)] + 1]
  <2>1. k.tab = j.tab /\ k.op = j.op /\ k.cookie = j.cookie /\ k.set = j.set /\ k.stage = "counted"
    BY <1>1 DEF Jobs
  <2>2. Change(j, k)
    BY <1>4
  <2> HIDE DEF k
  <2> QED BY <1>3, <2>1, <2>2
<1>5. CASE Change(j, [j EXCEPT !.stage = "asked"])
  <2> DEFINE k == [j EXCEPT !.stage = "asked"]
  <2>1. k.tab = j.tab /\ k.op = j.op /\ k.cookie = j.cookie /\ k.set = j.set /\ k.stage = "asked"
    BY <1>1 DEF Jobs
  <2>2. Change(j, k)
    BY <1>5
  <2> HIDE DEF k
  <2> QED BY <1>3, <2>1, <2>2
<1>6. CASE Change(j, Answer(j, "refused"))
  <2>1. Answer(j, "refused").tab = j.tab
    BY <1>1 DEF Answer, Jobs
  <2> QED BY <1>1, <1>3, <1>6, <2>1, AnswerIs
<1> QED BY <1>4, <1>5, <1>6 DEF Count, FailOpen, Expire, ExpireFails, Decide

(* An answer that says no.                                                  *)
LEMMA RefusalMinded ==
  ASSUME Typed, Minded, NEW j \in jobs, NEW status \in {"refused", "unauthorized"},
         Change(j, Answer(j, status)), j.stage # "answered",
         UNCHANGED <<sessions, me, table, cookie>>, strayed \subseteq strayed',
         j.op = "me" => j.tab \in strayed' \/ j.cookie \notin Ids
  PROVE  Minded'
<1> DEFINE k == Answer(j, status)
<1>1. /\ k.tab = j.tab /\ k.op = j.op /\ k.cookie = j.cookie /\ k.set = j.set
      /\ k.stage = "answered" /\ k.status = status
  BY JobIs DEF Answer, Jobs
<1>2. Change(j, k)
  OBVIOUS
<1> HIDE DEF k
<1>3. Serves(j, k)
  BY <1>1, <1>2 DEF Serves, Turns, Public
<1>4. j.tab \notin strayed' /\ Current(j) => Current(k)'
  BY <1>1 DEF Current, Worth, Ids
<1> QED BY <1>3, <1>4, ServesMinded

LEMMA AuthenticateMinded ==
  ASSUME Typed, Minded, NEW j \in jobs, Authenticate(j) \/ AuthenticateFails(j)
  PROVE  Minded'
<1>1. /\ j.stage = "asked" /\ j.op \notin Enters
      /\ UNCHANGED <<sessions, me, table, cookie>> /\ strayed \subseteq strayed'
  BY DEF Authenticate, AuthenticateFails, users, redis, tabs, Enters
<1>2. CASE AuthenticateFails(j)
  BY <1>1, <1>2, RefusalMinded DEF AuthenticateFails
<1>3. CASE Change(j, Answer(j, "unauthorized")) /\ j.cookie \notin Ids
  BY <1>1, <1>3, RefusalMinded
<1>4. ASSUME NEW s \in sessions, s.id = j.cookie,
             Change(j, [j EXCEPT !.stage = "known", !.who = s.user])
      PROVE  Minded'
  <2> DEFINE k == [j EXCEPT !.stage = "known", !.who = s.user]
  <2>1. /\ k.tab = j.tab /\ k.op = j.op /\ k.cookie = j.cookie /\ k.set = j.set
        /\ k.stage = "known" /\ k.who = s.user
    BY JobIs DEF Jobs
  <2>2. Change(j, k)
    BY <1>4
  <2> HIDE DEF k
  <2>3. Serves(j, k)
    BY <1>1, <2>1, <2>2 DEF Serves, Turns, Public
  <2>4. ASSUME Current(j) PROVE Current(k)'
    <3>1. ASSUME j.op \in Owners PROVE s \in SessionOf(k.tab)'
      BY <1>1, <1>4, <2>1, <2>4, <3>1 DEF Current, SessionOf, Session
    <3>2. j.op \in Owners => Worth(k)'
      BY <2>1, <3>1 DEF Worth
    <3> QED BY <1>1, <2>1, <2>4, <3>2 DEF Current, Enters
  <2> QED BY <2>3, <2>4, ServesMinded
<1> QED BY <1>2, <1>3, <1>4 DEF Authenticate

LEMMA ReadMinded ==
  ASSUME Typed, Minded, NEW j \in jobs, Read(j)
  PROVE  Minded'
<1>0. PICK k \in {[Answer(j, "ok") EXCEPT !.data = Public(j.who)]} : TRUE
  OBVIOUS
<1>1. /\ k.tab = j.tab /\ k.op = j.op /\ k.cookie = j.cookie /\ k.set = j.set
      /\ k.stage = "answered" /\ k.status = "ok" /\ k.data = Public(j.who)
  BY <1>0, JobIs DEF Answer, Jobs
<1>2. /\ Change(j, k) /\ j.stage = "known" /\ j.op \in {"me", "query"}
      /\ UNCHANGED <<sessions, me, table, cookie, strayed>>
  BY <1>0 DEF Read, users, redis, tabs
<1>3. Serves(j, k)
  BY <1>1, <1>2 DEF Serves, Turns, Public, Enters
<1>4. ASSUME Current(j) PROVE Current(k)'
  <2>1. Leaving(j.tab) => Leaving(j.tab)'
    BY <1>3, TurnAwaits DEF Serves
  <2>2. Worth(j) /\ j.op = "me" => Worth(k)'
    BY <1>1, <1>2 DEF Worth, SessionOf, Session, Public
  <2> QED BY <1>1, <1>2, <1>4, <2>1, <2>2 DEF Current, Owners
<1> QED BY <1>3, <1>4, ServesMinded

LEMMA CheckMinded ==
  ASSUME Typed, Minded, NEW j \in jobs, CheckPassword(j)
  PROVE  Minded'
<1>1. /\ j.stage # "answered" /\ j.op \in {"login", "password"}
      /\ UNCHANGED <<sessions, me, table, cookie, strayed>>
  BY DEF CheckPassword, users, redis, tabs
<1>2. CASE Change(j, Answer(j, "unauthorized"))
  BY <1>1, <1>2, RefusalMinded
<1>3. CASE Change(j, [j EXCEPT !.stage = "checked", !.data = Public(j.who)])
  <2>1. PICK k \in {[j EXCEPT !.stage = "checked", !.data = Public(j.who)]} : TRUE
    OBVIOUS
  <2>2. /\ k.tab = j.tab /\ k.op = j.op /\ k.cookie = j.cookie /\ k.set = j.set
        /\ k.stage = "checked" /\ k.who = j.who /\ k.data = Public(j.who)
    BY <2>1, JobIs DEF Jobs
  <2>3. Change(j, k)
    BY <1>3, <2>1
  <2>4. Serves(j, k)
    BY <1>1, <2>2, <2>3 DEF Serves, Turns, Public
  <2>5. Current(k)'
    BY <1>1, <2>2 DEF Current, Owners, Public
  <2> QED BY <2>4, <2>5, ServesMinded
<1> QED BY <1>2, <1>3 DEF CheckPassword

LEMMA WriteMinded ==
  ASSUME Typed, Minded, NEW j \in jobs, UpdatePasswordHash(j)
  PROVE  Minded'
<1> DEFINE k == Answer(j, "ok")
<1>1. /\ k.tab = j.tab /\ k.op = j.op /\ k.cookie = j.cookie /\ k.set = j.set
  BY JobIs DEF Jobs, Answer
<1>2. /\ Change(j, k) /\ j.op = "password" /\ j.stage = "checked"
      /\ UNCHANGED <<sessions, me, cookie, strayed>>
  BY DEF UpdatePasswordHash, redis, tabs
<1> HIDE DEF k
<1>3. \A u \in Users : /\ table'[u].profile = table[u].profile
                       /\ table'[u].avatar = table[u].avatar
  BY DEF UpdatePasswordHash, Typed, Stored
<1>4. Serves(j, k)
  BY <1>1, <1>2, <1>3 DEF Serves, Turns, Public, Enters
<1>5. Current(k)'
  BY <1>1, <1>2 DEF Current, Owners
<1> QED BY <1>4, <1>5, ServesMinded

LEMMA EntryMinded ==
  ASSUME Typed, Minded, NEW j \in jobs, CreateUser(j) \/ IssueFails(j)
  PROVE  Minded'
<1>1. /\ j.stage # "answered" /\ j.op \in Enters
      /\ UNCHANGED <<sessions, me, table, cookie, strayed>>
  BY DEF CreateUser, IssueFails, users, redis, tabs, Enters
<1>2. CASE Change(j, Answer(j, "refused"))
  BY <1>1, <1>2, RefusalMinded DEF Enters
<1>3. CASE Change(j, [j EXCEPT !.stage = "checked"]) /\ j.op = "register"
  <2> DEFINE k == [j EXCEPT !.stage = "checked"]
  <2>1. /\ k.tab = j.tab /\ k.op = j.op /\ k.cookie = j.cookie /\ k.set = j.set
        /\ k.stage = "checked"
    BY JobIs DEF Jobs
  <2>2. Change(j, k)
    BY <1>3
  <2> HIDE DEF k
  <2>3. Serves(j, k)
    BY <1>1, <2>1, <2>2 DEF Serves, Turns, Public
  <2>4. Current(k)'
    BY <1>3, <2>1 DEF Current, Owners
  <2> QED BY <2>3, <2>4, ServesMinded
<1> QED BY <1>2, <1>3 DEF CreateUser, IssueFails

LEMMA IssueMinded ==
  ASSUME Typed, Minded, NEW j \in jobs, IssueCookie(j)
  PROVE  Minded'
<1>1. PICK k \in {[Answer(j, "ok") EXCEPT !.set = made + 1]} : TRUE
  OBVIOUS
<1>2. /\ k.tab = j.tab /\ k.op = j.op /\ k.cookie = j.cookie /\ k.who = j.who
      /\ k.stage = "answered" /\ k.data = j.data /\ k.status = "ok"
  BY <1>1, JobIs DEF Jobs, Answer
<1>3. /\ Change(j, k) /\ j.stage = "checked" /\ j.op \in Enters
      /\ sessions' = sessions \cup {[id |-> made + 1, user |-> j.who]}
      /\ UNCHANGED <<me, table, cookie, strayed>>
  BY <1>1 DEF IssueCookie, users, tabs, Enters
<1>4. Turns(j, k)
  BY <1>2, <1>3 DEF Turns
<1>5. /\ made \in Nat /\ \A b \in Browsers : cookie[b] \in 0 .. made
      /\ \A i \in jobs : i.cookie \in 0 .. made /\ i.tab \in Tabs
  BY JobIs DEF Typed, Stored, Fits
<1>6. ASSUME NEW t \in Tabs PROVE Stays(t)
  <2>1. cookie[BrowserOf[t]] # made + 1
    BY <1>5, AccountsAssumption
  <2>2. SessionOf(t)' = SessionOf(t)
    BY <1>3, <2>1 DEF SessionOf, Session
  <2> QED BY <1>3, <2>2 DEF Stays, Public
<1>7. Ids' = Ids \cup {made + 1}
  <2>1. [id |-> made + 1, user |-> j.who].id = made + 1
    OBVIOUS
  <2> QED BY <1>3, <2>1 DEF Ids
<1>8. \A i \in jobs : i.cookie \in Ids' => i.cookie \in Ids
  BY <1>5, <1>7
<1>9. ASSUME j.tab \notin strayed', NEW i \in jobs', i.tab = j.tab PROVE Current(i)'
  <2>1. CASE i = k
    BY <1>2, <1>3, <1>9, <2>1 DEF Minded, Current, Owners, Enters, Public
  <2>2. CASE i \in jobs
    <3>1. Current(i) /\ (Leaving(i.tab) => Leaving(i.tab)')
      BY <1>3, <1>4, <1>9, <2>2, TurnAwaits DEF Minded
    <3> QED BY <1>5, <1>6, <1>8, <2>2, <3>1, CurrentStays
  <2> QED BY <1>3, <1>9, <2>1, <2>2 DEF Change
<1>10. ASSUME j.tab \notin strayed' PROVE Believing(j.tab)'
  BY <1>3, <1>4, <1>5, <1>6, <1>10, TurnAwaits, BelievingStays DEF Minded
<1>11. Sound'
  BY IssueSound DEF Minded
<1> QED BY <1>3, <1>4, <1>6, <1>8, <1>9, <1>10, <1>11, TurnMinded

(* A change of the account, by the only tab that has not strayed: it awaits *)
(* no other answer about the account.                                       *)
LEMMA AlterMinded ==
  ASSUME Typed, Minded, NEW j \in jobs, NEW k, Turns(j, k), UNCHANGED <<sessions, me>>,
         k.set = j.set, j.op \in {"profile", "upload", "remove"}, j.stage = "known",
         k.stage = "answered", k.status = "ok",
         strayed' = strayed \cup (Tabs \ {j.tab})
                      \cup (IF Busy(j) \/ Waiting(j.tab, {"login"}) THEN {j.tab} ELSE {}),
         j.op = "profile" => k.data = Public(j.who)',
         j.op # "profile" => /\ k.data.avatar = table'[j.who].avatar
                             /\ \A u \in Users : table'[u].profile = table[u].profile
  PROVE  Minded'
<1>1. Sound'
  BY ServesSound DEF Enters, Turns
<1>2. ASSUME j.tab \notin strayed'
      PROVE  /\ j.tab \notin strayed /\ j.tab \in Tabs /\ Current(j) /\ Believing(j.tab)
             /\ \A i \in jobs \ {j} : i.tab = j.tab => i.op \notin Owners \cup {"login"}
  BY <1>2, JobIs DEF Minded, Busy, Waiting, Owners
<1>3. Spares(j.tab) /\ (Leaving(j.tab) => Leaving(j.tab)')
  BY TurnAwaits
<1>4. SessionOf(j.tab)' = SessionOf(j.tab)
  BY DEF SessionOf, Session, Turns
<1>5. ASSUME j.tab \notin strayed' PROVE Current(k)'
  <2>1. k.cookie = cookie'[BrowserOf[k.tab]]
    BY <1>2, <1>5 DEF Current, Turns, Owners
  <2>2. ASSUME Worth(j) PROVE Worth(k)'
    <3>1. PICK s \in SessionOf(j.tab) : j.who = s.user
      BY <2>2 DEF Worth
    <3>2. s \in SessionOf(k.tab)'
      BY <1>4, <3>1 DEF Turns
    <3>3. IF k.op \in {"me", "profile"} THEN k.data = Public(s.user)'
          ELSE k.data.avatar = table'[s.user].avatar
      BY <3>1 DEF Turns
    <3> QED BY <3>2, <3>3 DEF Worth
  <2> QED BY <1>2, <1>3, <1>5, <2>1, <2>2 DEF Current, Turns, Owners
<1>6. ASSUME j.tab \notin strayed', NEW i \in jobs', i.tab = j.tab PROVE Current(i)'
  <2>1. CASE i \in jobs \ {j}
    BY <1>2, <1>6, <2>1 DEF Current, Owners
  <2> QED BY <1>5, <1>6, <2>1 DEF Turns, Change
<1>7. ASSUME j.tab \notin strayed' PROVE Believing(j.tab)'
  <2>1. CASE Awaits(j.tab) \/ me[j.tab] = Pending
    BY <1>3, <2>1 DEF Believing, Spares, Pending, Nobody
  <2>2. CASE j.op = "profile"
    BY <2>2 DEF Believing, Awaits, Answered, Turns, Change
  <2>3. CASE j.op # "profile" /\ SessionOf(j.tab) = {} /\ me[j.tab] = Refused
    BY <1>4, <2>3 DEF Believing, Faithful, Refused, Nobody
  <2>4. ASSUME j.op # "profile", NEW s \in SessionOf(j.tab), NEW there \in BOOLEAN,
               me[j.tab] = Account([Public(s.user) EXCEPT !.avatar = there])
        PROVE  Faithful(j.tab)'
    <3>1. s \in SessionOf(j.tab)' /\ s.user \in Users
      BY <1>2, <1>4, <1>7, SessionUser
    <3>2. [Public(s.user) EXCEPT !.avatar = there]
            = [user |-> s.user, profile |-> table[s.user].profile, avatar |-> there]
      BY DEF Public
    <3>3. [Public(s.user)' EXCEPT !.avatar = there]
            = [user |-> s.user, profile |-> table'[s.user].profile, avatar |-> there]
      BY DEF Public
    <3>4. me'[j.tab] = Account([Public(s.user)' EXCEPT !.avatar = there])
      BY <2>4, <3>1, <3>2, <3>3
    <3>5. Answered(j.tab, {"upload", "remove"})'
      BY <2>4 DEF Answered, Turns, Change
    <3> QED BY <3>1, <3>4, <3>5 DEF Faithful, Account
  <2> QED BY <1>2, <1>7, <2>1, <2>2, <2>3, <2>4 DEF Believing, Faithful
<1> QED BY <1>1, <1>6, <1>7, TurnMinded DEF Ids

LEMMA UpdateProfileMinded ==
  ASSUME Typed, Minded, NEW j \in jobs, UpdateProfile(j)
  PROVE  Minded'
<1>1. j \in Jobs /\ j.stage = "known" /\ j.op = "profile" /\ j.who \in Users
  BY JobIs DEF UpdateProfile, Fits
<1>2. PICK k \in {[Answer(j, "ok") EXCEPT !.data = [Public(j.who) EXCEPT !.profile = j.n]]} : TRUE
  OBVIOUS
<1>3. /\ k.tab = j.tab /\ k.op = j.op /\ k.cookie = j.cookie /\ k.set = j.set
      /\ k.stage = "answered" /\ k.status = "ok"
      /\ k.data = [Public(j.who) EXCEPT !.profile = j.n]
  BY <1>1, <1>2 DEF Jobs, Answer
<1>4. Change(j, k) /\ UNCHANGED <<sessions, me, cookie>>
  BY <1>2 DEF UpdateProfile, redis, tabs
<1>5. table'[j.who].profile = j.n /\ table'[j.who].avatar = table[j.who].avatar
  BY <1>1 DEF UpdateProfile, Typed, Stored
<1>6. k.data = Public(j.who)'
  BY <1>3, <1>5 DEF Public
<1>7. Turns(j, k)
  BY <1>1, <1>3, <1>4 DEF Turns
<1> QED BY <1>1, <1>3, <1>4, <1>6, <1>7, AlterMinded DEF UpdateProfile

LEMMA SetAvatarMinded ==
  ASSUME Typed, Minded, NEW j \in jobs, UploadAvatar(j) \/ DeleteAvatar(j)
  PROVE  Minded'
<1>1. j \in Jobs /\ j.stage = "known" /\ j.op \in {"upload", "remove"} /\ j.who \in Users
  BY JobIs DEF UploadAvatar, DeleteAvatar, Fits
<1>2. PICK there \in BOOLEAN : SetAvatar(j, there)
  BY DEF UploadAvatar, DeleteAvatar
<1>3. PICK k \in {[Answer(j, "ok") EXCEPT !.data.avatar = there]} : TRUE
  OBVIOUS
<1>4. /\ k.tab = j.tab /\ k.op = j.op /\ k.cookie = j.cookie /\ k.set = j.set
      /\ k.stage = "answered" /\ k.status = "ok" /\ k.data.avatar = there
  <2>1. j.data \in Data /\ Answer(j, "ok").data = j.data
    BY <1>1 DEF Jobs, Answer
  <2>2. k.data = [j.data EXCEPT !.avatar = there]
    BY <1>1, <1>3, <2>1 DEF Jobs, Answer
  <2>3. k.data.avatar = there
    BY <2>1, <2>2 DEF Data
  <2> QED BY <1>1, <1>3, <2>3 DEF Jobs, Answer
<1>5. Change(j, k) /\ UNCHANGED <<sessions, me, cookie>>
  BY <1>2, <1>3 DEF SetAvatar, redis, tabs
<1>6. /\ table'[j.who].avatar = there
      /\ \A u \in Users : table'[u].profile = table[u].profile
  BY <1>1, <1>2 DEF SetAvatar, Typed, Stored
<1>7. Turns(j, k)
  BY <1>1, <1>4, <1>5 DEF Turns
<1> QED BY <1>1, <1>2, <1>4, <1>5, <1>6, <1>7, AlterMinded DEF SetAvatar

LEMMA ClearFailsMinded ==
  ASSUME Typed, Minded, NEW j \in jobs, ClearFails(j)
  PROVE  Minded'
<1> DEFINE k == Answer(j, "ok")
<1>1. /\ k.tab = j.tab /\ k.op = j.op /\ k.cookie = j.cookie /\ k.set = j.set
  BY JobIs DEF Jobs, Answer
<1>2. /\ Change(j, k) /\ j.op = "logout" /\ j.stage = "known"
      /\ UNCHANGED <<sessions, me, table, cookie, strayed>>
  BY DEF ClearFails, users, redis, tabs
<1> HIDE DEF k
<1>3. Serves(j, k)
  BY <1>1, <1>2 DEF Serves, Turns, Enters, Public
<1>4. Current(k)'
  BY <1>1, <1>2 DEF Current, Owners
<1> QED BY <1>3, <1>4, ServesMinded

LEMMA ClearMinded ==
  ASSUME Typed, Minded, NEW j \in jobs, ClearCookie(j)
  PROVE  Minded'
<1> DEFINE k == Answer(j, "ok")
<1>1. /\ k.tab = j.tab /\ k.op = j.op /\ k.cookie = j.cookie /\ k.set = j.set /\ j.tab \in Tabs
      /\ k.stage = "answered" /\ k.status = "ok"
  BY JobIs DEF Jobs, Answer
<1>2. /\ Change(j, k) /\ j.op = "logout" /\ j.stage = "known"
      /\ UNCHANGED <<me, table, cookie>> /\ strayed' = strayed \cup Others(j.tab)
      /\ sessions' = {s \in sessions : s.id # j.cookie}
  BY DEF ClearCookie, users, tabs
<1>3. j.set = 0
  BY <1>2, JobIs DEF Fits
<1> HIDE DEF k
<1>4. Turns(j, k)
  BY <1>1, <1>2 DEF Turns
<1>5. Sound'
  <2>1. Plain(k)
    BY <1>1, <1>2, <1>3 DEF Plain, Enters
  <2>2. ASSUME NEW i \in jobs, NEW s \in sessions, s.id = i.set PROVE s \in sessions'
    BY <1>2, <2>2 DEF Minded, Sound, Apart, Coming, Typed, Stored
  <2> QED BY <1>2, <2>1, <2>2, SoundKept DEF Minded, Change
<1>6. Ids' \subseteq Ids
  BY <1>2 DEF Ids
<1>7. ASSUME NEW t \in Tabs, BrowserOf[t] # BrowserOf[j.tab] \/ cookie[BrowserOf[t]] = 0
      PROVE  Stays(t)
  <2>1. BrowserOf[t] \in Browsers
    BY AccountsAssumption
  <2>2. \A s \in SessionOf(t) : s.id # j.cookie
    BY <1>7, <2>1 DEF Minded, Sound, Apart, Elsewhere, SessionOf, Session, Typed, Stored
  <2>3. SessionOf(t)' = SessionOf(t)
    BY <1>2, <2>2 DEF SessionOf, Session
  <2> QED BY <1>2, <2>3 DEF Stays, Public
<1>8. \A t \in Tabs \ (strayed' \cup {j.tab}) : Stays(t)
  BY <1>2, <1>7 DEF Others
<1>9. ASSUME j.tab \notin strayed', NEW i \in jobs', i.tab = j.tab PROVE Current(i)'
  <2>1. CASE i = k
    BY <1>1, <1>2, <2>1 DEF Current, Owners
  <2>2. CASE i \in jobs
    <3>1. Current(i)
      BY <1>2, <1>9, <2>2 DEF Minded
    <3>2. CASE cookie[BrowserOf[j.tab]] = 0
      <4>1. Stays(i.tab) /\ (Leaving(i.tab) => Leaving(i.tab)')
        BY <1>1, <1>4, <1>7, <1>9, <3>2, TurnAwaits
      <4> QED BY <1>6, <2>2, <3>1, <4>1, CurrentStays
    <3>3. CASE cookie[BrowserOf[j.tab]] # 0
      <4>1. Leaving(i.tab)'
        BY <1>1, <1>2, <1>9, <3>3 DEF Leaving, Answered, Change
      <4> QED BY <1>2, <1>6, <3>1, <4>1 DEF Current, Public
    <3> QED BY <3>2, <3>3
  <2> QED BY <1>2, <1>9, <2>1, <2>2 DEF Change
<1>10. Believing(j.tab)'
  BY <1>1, <1>2 DEF Believing, Awaits, Waiting, Change
<1> QED BY <1>2, <1>4, <1>5, <1>6, <1>8, <1>9, <1>10, TurnMinded

LEMMA EndMinded ==
  ASSUME Typed, Minded, NEW s \in sessions, End(s)
  PROVE  Minded'
<1>1. /\ sessions' = sessions \ {s} /\ UNCHANGED <<jobs, me, cookie, table>>
      /\ strayed' = strayed \cup {t \in Tabs : cookie[BrowserOf[t]] = s.id}
      /\ \A j \in jobs : j.set # s.id
  BY DEF End, users, tabs
<1>2. Sound'
  BY <1>1, SoundKept DEF Minded
<1>3. ASSUME NEW t \in Tabs \ strayed' PROVE Stays(t)
  <2>1. SessionOf(t)' = SessionOf(t)
    BY <1>1, <1>3 DEF SessionOf, Session
  <2> QED BY <1>1, <2>1 DEF Stays, Public
<1>4. Ids' \subseteq Ids /\ \A t \in Tabs : Spares(t) /\ (Leaving(t) => Leaving(t)')
  BY <1>1, MoreAwaited DEF Ids
<1>5. \A j \in jobs : j.tab \in Tabs
  BY JobIs
<1> QED BY <1>1, <1>2, <1>3, <1>4, <1>5, CurrentStays, BelievingStays DEF Minded

-----------------------------------------------------------------------------
(* What a tab shows: the answers                                            *)

(* A request that is over, whatever it leaves to its tab.                   *)
LEMMA GoneMinded ==
  ASSUME Typed, Minded, NEW j \in jobs, Sound', UNCHANGED <<sessions, table>>,
         jobs \ {j} \subseteq jobs', \A i \in jobs' \ (jobs \ {j}) : i.tab = j.tab,
         strayed \subseteq strayed',
         \A t \in Tabs \ (strayed' \cup {j.tab}) :
           cookie'[BrowserOf[t]] = cookie[BrowserOf[t]] /\ me'[t] = me[t],
         j.tab \notin strayed' =>
           /\ \A i \in jobs' : i.tab = j.tab => Current(i)'
           /\ Believing(j.tab)'
  PROVE  Minded'
<1>1. ASSUME NEW t \in Tabs \ (strayed' \cup {j.tab})
      PROVE  Stays(t) /\ Spares(t) /\ (Leaving(t) => Leaving(t)')
  <2>1. Stays(t)
    BY <1>1 DEF Stays, SessionOf, Session, Public
  <2>2. \A i \in jobs : i.tab = t => i \in jobs'
    BY <1>1
  <2>3. ASSUME NEW ops, Waiting(t, ops) PROVE Waiting(t, ops)'
    BY <2>2, <2>3 DEF Waiting
  <2>4. ASSUME NEW ops, Answered(t, ops) PROVE Answered(t, ops)'
    BY <2>2, <2>4 DEF Answered
  <2> QED BY <1>1, <2>1, <2>3, <2>4 DEF Spares, Awaits, Leaving
<1>2. \A i \in jobs : i.tab \in Tabs
  BY JobIs
<1>3. ASSUME NEW i \in jobs', i.tab \notin strayed' PROVE Current(i)'
  <2>1. CASE i.tab # j.tab
    <3>1. i \in jobs /\ i.tab \in Tabs \ (strayed' \cup {j.tab}) /\ Current(i)
      BY <1>2, <1>3, <2>1 DEF Minded
    <3> QED BY <1>1, <3>1, CurrentStays DEF Ids
  <2> QED BY <1>3, <2>1
<1>4. ASSUME NEW t \in Tabs \ strayed' PROVE Believing(t)'
  <2>1. CASE t # j.tab
    BY <1>1, <1>4, <2>1, BelievingStays DEF Minded
  <2> QED BY <1>4, <2>1
<1> QED BY <1>3, <1>4 DEF Minded

LEMMA LoseMinded ==
  ASSUME Typed, Minded, NEW j \in jobs, Lose(j)
  PROVE  Minded'
<1>1. /\ jobs' = jobs \ {j} /\ UNCHANGED <<sessions, table, cookie>>
      /\ strayed' = strayed \cup {j.tab}
  BY DEF Lose, users, redis
<1>2. Sound'
  BY <1>1, SoundKept DEF Minded
<1>3. \A t \in Tabs \ {j.tab} : me'[t] = me[t]
  BY DEF Lose, Typed, Kept
<1> QED BY <1>1, <1>2, <1>3, GoneMinded

(* What an answer does.                                                     *)
LEMMA Received ==
  ASSUME Typed, Minded, NEW j \in jobs, Receive(j)
  PROVE  /\ j \in Jobs /\ Fits(j, count, made) /\ j.tab \in Tabs /\ j.stage = "answered"
         /\ BrowserOf[j.tab] \in Browsers /\ UNCHANGED <<sessions, table>>
         /\ me'[j.tab] = IF j.op = "logout" THEN Pending ELSE Shown(j, j.tab)
         /\ \A t \in Tabs \ {j.tab} : me'[t] = me[t]
         /\ cookie'[BrowserOf[j.tab]] = IF j.op = "logout" /\ j.status = "ok" THEN 0
              ELSE IF j.set # 0 THEN j.set ELSE cookie[BrowserOf[j.tab]]
         /\ \A b \in Browsers \ {BrowserOf[j.tab]} : cookie'[b] = cookie[b]
         /\ strayed \subseteq strayed'
<1>1. j \in Jobs /\ Fits(j, count, made) /\ j.tab \in Tabs /\ BrowserOf[j.tab] \in Browsers
  BY JobIs, AccountsAssumption
<1>2. j.stage = "answered" /\ UNCHANGED <<sessions, table>> /\ SetCookie(j)
  BY DEF Receive, users, redis
<1>3. /\ me'[j.tab] = IF j.op = "logout" THEN Pending ELSE Shown(j, j.tab)
      /\ \A t \in Tabs \ {j.tab} : me'[t] = me[t]
  BY <1>1 DEF Receive, Typed, Kept
<1>4. /\ cookie'[BrowserOf[j.tab]] = IF j.op = "logout" /\ j.status = "ok" THEN 0
           ELSE IF j.set # 0 THEN j.set ELSE cookie[BrowserOf[j.tab]]
      /\ \A b \in Browsers \ {BrowserOf[j.tab]} : cookie'[b] = cookie[b]
  BY <1>1, <1>2 DEF SetCookie, Typed, Stored
<1>5. strayed \subseteq strayed'
  BY <1>2 DEF SetCookie
<1> QED BY <1>1, <1>2, <1>3, <1>4, <1>5

LEMMA AskedOnNew ==
  ASSUME Typed, Minded, NEW j \in jobs, Receive(j)
  PROVE  \A i \in jobs' \ (jobs \ {j}) : New(i)
<1>1. AskOn(j, j.tab) /\ j.tab \in Tabs
  BY Received DEF Receive
<1> QED BY <1>1, AskedOn DEF New

(* The cookie is another now, and the tab waits for nothing about its       *)
(* account.                                                                 *)
LEMMA ReplacedMinded ==
  ASSUME Typed, Minded, NEW j \in jobs, Receive(j), j.tab \notin strayed',
         cookie'[BrowserOf[j.tab]] # cookie[BrowserOf[j.tab]]
  PROVE  /\ \A i \in jobs' : i.tab = j.tab => Current(i)'
         /\ Believing(j.tab)'
<1>1. /\ j.tab \in Tabs /\ j.stage = "answered" /\ UNCHANGED <<sessions, table>>
      /\ j.tab \notin strayed /\ Current(j) /\ Issued(j)
  BY Received DEF Minded, Sound
<1>2. \A i \in jobs \ {j} : i.tab = j.tab => i.op \notin Owners
  <2>1. ~Busy(j)
    BY Received DEF Receive, SetCookie
  <2> QED BY <2>1 DEF Busy, Owners
<1>3. ASSUME NEW i \in jobs', i.tab = j.tab PROVE Current(i)'
  <2>1. CASE i \in jobs \ {j}
    BY <1>1, <1>2, <1>3, <2>1 DEF Current, Owners, Minded, Public
  <2>2. CASE i \notin jobs \ {j}
    BY <1>3, <2>2, AskedOnNew, NewIsCurrent
  <2> QED BY <2>1, <2>2
<1>4. ASSUME j.op = "logout" PROVE Believing(j.tab)'
  <2>1. me'[j.tab] = Pending
    BY <1>4, Received
  <2> QED BY <2>1 DEF Believing, Pending, Nobody
<1>5. ASSUME j.op # "logout" PROVE Believing(j.tab)'
  <2>1. /\ j.set # 0 /\ cookie'[BrowserOf[j.tab]] = j.set /\ j.op \in Enters
        /\ j.status = "ok" /\ [id |-> j.set, user |-> j.who] \in sessions
    BY <1>1, <1>5, Received DEF Fits, Issued
  <2>2. CASE j.op = "register"
    <3>1. AskOn(j, j.tab) /\ cookie'[BrowserOf[j.tab]] # 0
      BY <2>1 DEF Receive
    <3>2. \E i \in jobs' : i.tab = j.tab /\ i.op = "login"
      BY <2>1, <2>2, <3>1, AskedOn
    <3> QED BY <3>1, <3>2 DEF Believing, Awaits, Waiting
  <2>3. CASE j.op = "login"
    <3>1. j.data = Public(j.who)
      BY <1>1, <2>1, <2>3 DEF Current
    <3>2. me'[j.tab] = Account(Public(j.who)')
      BY <1>1, <2>1, <2>3, <3>1, Received DEF Shown, Public
    <3>3. PICK s \in sessions : s = [id |-> j.set, user |-> j.who]
      BY <2>1
    <3>4. s.id = j.set /\ s.user = j.who /\ s.user \in Users
      BY <3>3 DEF Typed, Stored
    <3>5. s \in SessionOf(j.tab)' /\ table'[s.user].avatar \in BOOLEAN
      BY <1>1, <2>1, <3>4 DEF SessionOf, Session, Typed, Stored
    <3>6. [Public(s.user)' EXCEPT !.avatar = table'[s.user].avatar] = Public(s.user)'
      BY DEF Public
    <3>7. Faithful(j.tab)'
      BY <3>2, <3>4, <3>5, <3>6 DEF Faithful, Account
    <3> QED BY <3>7 DEF Believing, Faithful
  <2> QED BY <2>1, <2>2, <2>3 DEF Enters
<1> QED BY <1>3, <1>4, <1>5

(* The cookie is what it was: the tab has awaited this answer, or it says   *)
(* nothing new.                                                             *)
LEMMA UnchangedMinded ==
  ASSUME Typed, Minded, NEW j \in jobs, Receive(j), j.tab \notin strayed',
         cookie'[BrowserOf[j.tab]] = cookie[BrowserOf[j.tab]]
  PROVE  /\ \A i \in jobs' : i.tab = j.tab => Current(i)'
         /\ Believing(j.tab)'
<1>1. PICK t \in Tabs : t = j.tab
  BY Received
<1>2. /\ j.stage = "answered" /\ UNCHANGED <<sessions, table>>
      /\ t \notin strayed /\ Current(j) /\ Issued(j) /\ Believing(t)
      /\ cookie'[BrowserOf[t]] = cookie[BrowserOf[t]]
  BY <1>1, Received DEF Minded, Sound
<1>3. me'[t] = IF j.op = "logout" THEN Pending ELSE Shown(j, t)
  BY <1>1, Received
<1>4. j.set = 0
  <2>1. CASE j.op = "logout"
    BY <2>1, JobIs DEF Fits, Enters
  <2>2. CASE j.op # "logout"
    BY <1>1, <1>2, <2>2, Received DEF Minded, Sound, Apart, Coming
  <2> QED BY <2>1, <2>2
<1>5. /\ j.op \in Enters => j.status # "ok"
      /\ j.op = "logout" /\ j.status = "ok" => cookie[BrowserOf[t]] = 0
      /\ j.op = "login" => cookie[BrowserOf[t]] = 0
  <2>1. j.op \in Enters => j.status # "ok"
    BY <1>2, <1>4 DEF Issued
  <2>2. j.op = "logout" /\ j.status = "ok" => cookie[BrowserOf[t]] = 0
    BY <1>1, <1>2, Received
  <2>3. j.op = "login" => cookie[BrowserOf[t]] = 0
    BY <1>1, <1>2, <1>4 DEF Receive, SetCookie
  <2> QED BY <2>1, <2>2, <2>3
<1>6. Stays(t)
  BY <1>2 DEF Stays, SessionOf, Session, Public
<1>7. jobs \ {j} \subseteq jobs'
  BY AskedOn DEF Receive
<1>8. Leaving(t) => Leaving(t)'
  BY <1>2, <1>5, <1>7 DEF Leaving, Answered
<1>9. ASSUME NEW i \in jobs', i.tab = t PROVE Current(i)'
  <2>1. CASE i \in jobs \ {j}
    <3>1. Current(i) /\ Stays(i.tab) /\ (Leaving(i.tab) => Leaving(i.tab)')
      BY <1>2, <1>6, <1>8, <1>9, <2>1 DEF Minded
    <3> QED BY <1>2, <2>1, <3>1, CurrentStays DEF Ids
  <2>2. CASE i \notin jobs \ {j}
    BY <1>9, <2>2, AskedOnNew, NewIsCurrent
  <2> QED BY <2>1, <2>2
<1>10. ASSUME j.op # "logout", Waiting(t, {"logout"}) PROVE Waiting(t, {"logout"})'
  BY <1>7, <1>10 DEF Waiting
<1>11. ASSUME j.op # "logout", ~(j.op = "profile" /\ j.status = "ok"), Awaits(t)
       PROVE  Awaits(t)'
  <2>1. CASE Waiting(t, {"logout"})
    BY <1>10, <1>11, <2>1 DEF Awaits
  <2>2. CASE Waiting(t, {"login"}) /\ cookie[BrowserOf[t]] # 0
    BY <1>2, <1>5, <1>7, <2>2 DEF Awaits, Waiting
  <2>3. CASE Answered(t, {"profile"})
    BY <1>7, <1>11, <2>3 DEF Awaits, Answered
  <2> QED BY <1>11, <2>1, <2>2, <2>3 DEF Awaits
<1>12. ASSUME NEW s \in SessionOf(t), me'[t] = Account(Public(s.user))
       PROVE  Believing(t)'
  <2>1. s.user \in Users /\ s \in SessionOf(t)'
    BY <1>6, SessionUser DEF Stays
  <2>2. me'[t] = Account(Public(s.user)') /\ table'[s.user].avatar \in BOOLEAN
    BY <1>2, <1>12, <2>1 DEF Typed, Stored, Public
  <2>3. [Public(s.user)' EXCEPT !.avatar = table'[s.user].avatar] = Public(s.user)'
    BY DEF Public
  <2>4. Faithful(t)'
    BY <2>1, <2>2, <2>3 DEF Faithful, Account
  <2> QED BY <2>4 DEF Believing
<1>13. ASSUME j.op = "logout"
       PROVE  Believing(t)'
  <2>1. me'[t] = Pending
    BY <1>3, <1>13
  <2> QED BY <1>1, <1>9, <2>1 DEF Believing, Pending, Nobody
<1>14. ASSUME j.op \in Owners, j.status = "ok", Leaving(t) PROVE Believing(t)'
  <2>1. Waiting(t, {"logout"})
    BY <1>14 DEF Leaving, Answered, Waiting
  <2>2. Waiting(t, {"logout"})'
    BY <1>10, <1>14, <2>1 DEF Owners
  <2> QED BY <2>2 DEF Believing, Awaits
<1>15. ASSUME j.op \in Owners, ~Leaving(t) PROVE Worth(j)
  BY <1>1, <1>2, <1>15 DEF Current
<1>16. ASSUME j.op \in {"me", "profile"} /\ j.status = "ok" /\ me'[t] = Account(j.data)
       PROVE  Believing(t)'
  <2>1. CASE ~Leaving(t)
    <3>1. \E s \in SessionOf(t) : j.data = Public(s.user)
      BY <1>1, <1>2, <1>15, <1>16, <2>1 DEF Worth, Owners
    <3> QED BY <1>12, <1>16, <3>1
  <2> QED BY <1>14, <1>16, <2>1 DEF Owners
<1>17. ASSUME j.op = "me" /\ j.status # "ok" /\ me'[t] = [me[t] EXCEPT !.failed = TRUE]
       PROVE  Believing(t)'
  <2>1. SessionOf(t) = {}
    BY <1>1, <1>2, <1>17 DEF Current, Owners, Ids, SessionOf, Session
  <2>2. CASE Awaits(t)
    BY <1>11, <1>17, <2>2 DEF Believing
  <2>3. CASE me[t] = Pending \/ me[t] = Refused
    <3>0. /\ me[t] \in [data : Data, failed : BOOLEAN] /\ me[t].data = Nobody
          /\ Refused \in [data : Data, failed : BOOLEAN]
          /\ Refused.data = Nobody /\ Refused.failed = TRUE
      BY <2>3, PendingTyped DEF Typed, Kept, Refused
    <3>1. me'[t] = Refused
      <4>1. PICK shown \in [data : Data, failed : BOOLEAN] :
              shown = [me[t] EXCEPT !.failed = TRUE]
        BY <3>0
      <4>2. shown.data = Nobody /\ shown.failed = TRUE
        BY <3>0, <4>1
      <4>3. shown = Refused
        BY <3>0, <4>2
      <4> QED BY <1>17, <4>1, <4>3
    <3>2. SessionOf(t)' = {}
      BY <1>6, <2>1 DEF Stays
    <3> QED BY <3>1, <3>2 DEF Believing, Faithful, Refused, Nobody
  <2> QED BY <1>2, <2>1, <2>2, <2>3 DEF Believing, Faithful
<1>18. ASSUME j.op # "logout", me'[t] = me[t],
              j.status = "ok" => j.op \notin {"profile", "upload", "remove"}
       PROVE  Believing(t)'
  <2>1. Spares(t)
    <3>1. Answered(t, {"upload", "remove"}) => Answered(t, {"upload", "remove"})'
      BY <1>7, <1>18 DEF Answered
    <3> QED BY <1>11, <1>18, <3>1 DEF Spares
  <2> QED BY <1>2, <1>6, <1>18, <2>1, BelievingStays
<1>19. ASSUME j.op \in {"upload", "remove"} /\ j.status = "ok"
       PROVE  Believing(t)'
  <2>1. me'[t] = IF me[t].data = Nobody THEN me[t]
                 ELSE Account([me[t].data EXCEPT !.avatar = j.data.avatar])
    BY <1>3, <1>19 DEF Shown, Updated
  <2>2. CASE Awaits(t)
    BY <1>11, <1>19, <2>2 DEF Believing
  <2>3. CASE me[t] = Pending
    BY <2>1, <2>3 DEF Believing, Pending, Nobody
  <2>4. CASE SessionOf(t) = {} /\ me[t] = Refused
    <3>1. me'[t] = Refused /\ SessionOf(t)' = {}
      BY <1>6, <2>1, <2>4 DEF Stays, Refused
    <3> QED BY <3>1 DEF Believing, Faithful, Refused, Nobody
  <2>5. ASSUME NEW s \in SessionOf(t), NEW there \in BOOLEAN,
               me[t] = Account([Public(s.user) EXCEPT !.avatar = there])
        PROVE  Believing(t)'
    <3>1. s \in sessions /\ s.user \in Users /\ s.id = cookie[BrowserOf[t]]
      BY SessionUser
    <3>2. me[t].data = [user |-> s.user, profile |-> table[s.user].profile, avatar |-> there]
      BY <2>5 DEF Account, Public
    <3>3. me[t].data # Nobody
      BY <3>1, <3>2, AccountsAssumption DEF Nobody
    <3>4. CASE ~Leaving(t)
      <4>1. PICK r \in SessionOf(t) : j.data.avatar = table[r.user].avatar
        BY <1>1, <1>2, <1>15, <1>19, <3>4 DEF Worth, Owners
      <4>2. r = s
        BY <3>1, <4>1, SessionUser DEF Minded, Sound, Named
      <4>3. [me[t].data EXCEPT !.avatar = j.data.avatar] = Public(s.user)
        BY <3>2, <4>1, <4>2 DEF Public
      <4> QED BY <1>12, <2>1, <3>3, <4>3
    <3> QED BY <1>14, <1>19, <3>4 DEF Owners
  <2> QED BY <1>2, <2>2, <2>3, <2>4, <2>5 DEF Believing, Faithful
<1>20. ASSUME j.op # "logout" /\ ~(j.op \in {"upload", "remove"} /\ j.status = "ok")
       PROVE  Believing(t)'
  <2>1. me'[t] = Shown(j, t)
    BY <1>3, <1>20
  <2>2. CASE j.op = "me" /\ loading[t] = j.n /\ j.status # "ok"
    BY <1>17, <2>1, <2>2 DEF Shown
  <2>3. CASE j.op = "me" /\ loading[t] = j.n /\ j.status = "ok"
    BY <1>16, <2>1, <2>3 DEF Shown
  <2>4. CASE j.op = "profile" /\ j.status = "ok"
    BY <1>16, <2>1, <2>4 DEF Shown, Updated
  <2>5. CASE ~(j.op = "me" /\ loading[t] = j.n) /\ ~(j.op = "profile" /\ j.status = "ok")
    <3>1. me'[t] = me[t]
      BY <1>5, <1>20, <2>1, <2>5 DEF Shown, Enters
    <3> QED BY <1>18, <1>20, <2>5, <3>1
  <2> QED BY <2>2, <2>3, <2>4, <2>5
<1>21. Believing(t)'
  BY <1>13, <1>19, <1>20
<1> QED BY <1>1, <1>9, <1>21

LEMMA ReceiveMinded ==
  ASSUME Typed, Minded, NEW j \in jobs, Receive(j)
  PROVE  Minded'
<1>1. Sound'
  BY ReceiveSound DEF Minded
<1>2. /\ jobs \ {j} \subseteq jobs' /\ \A i \in jobs' \ (jobs \ {j}) : i.tab = j.tab
      /\ UNCHANGED <<sessions, table>> /\ strayed \subseteq strayed'
  <2>1. AskOn(j, j.tab)
    BY DEF Receive
  <2> QED BY <2>1, AskedOn, Received
<1>3. ASSUME NEW t \in Tabs \ (strayed' \cup {j.tab})
      PROVE  cookie'[BrowserOf[t]] = cookie[BrowserOf[t]] /\ me'[t] = me[t]
  <2>1. BrowserOf[t] \in Browsers /\ me'[t] = me[t]
    BY <1>3, AccountsAssumption, Received
  <2>2. CASE BrowserOf[t] # BrowserOf[j.tab]
    BY <2>1, <2>2, Received
  <2>3. CASE BrowserOf[t] = BrowserOf[j.tab]
    <3>1. t \in Others(j.tab)
      BY <1>3, <2>3 DEF Others
    <3>2. SetCookie(j) /\ t \notin strayed'
      BY <1>3 DEF Receive
    <3>3. cookie'[BrowserOf[j.tab]] = cookie[BrowserOf[j.tab]]
      <4> DEFINE new == IF j.op = "logout" /\ j.status = "ok" THEN 0
                        ELSE IF j.set # 0 THEN j.set ELSE cookie[BrowserOf[j.tab]]
      <4>1. cookie'[BrowserOf[j.tab]] = new
        BY Received
      <4>2. new # cookie[BrowserOf[j.tab]] => Others(j.tab) \subseteq strayed'
        BY <3>2 DEF SetCookie
      <4> HIDE DEF new
      <4> QED BY <3>1, <3>2, <4>1, <4>2
    <3> QED BY <2>1, <2>3, <3>3
  <2> QED BY <2>2, <2>3
<1>4. ASSUME j.tab \notin strayed'
      PROVE  /\ \A i \in jobs' : i.tab = j.tab => Current(i)'
             /\ Believing(j.tab)'
  BY <1>4, ReplacedMinded, UnchangedMinded
<1> QED BY <1>1, <1>2, <1>3, <1>4, GoneMinded

-----------------------------------------------------------------------------
(* What a tab shows                                                         *)

LEMMA InitMinded ==
  ASSUME Init
  PROVE  Minded
<1>1. Sound
  BY DEF Init, Sound, Named, Apart
<1>2. ASSUME NEW t \in Tabs PROVE Believing(t)
  BY <1>2 DEF Init, Believing, Faithful, SessionOf, Session
<1> QED BY <1>1, <1>2 DEF Init, Minded

LEMMA SameMinded ==
  ASSUME Minded, UNCHANGED <<jobs, sessions, cookie, me, table, strayed>>
  PROVE  Minded'
<1>1. Sound'
  BY DEF Minded, Sound, Named, Apart, Elsewhere, Coming, Issued
<1>2. ASSUME NEW j \in jobs, Current(j) PROVE Current(j)'
  BY <1>2 DEF Current, Leaving, Answered, Worth, SessionOf, Session, Public, Ids
<1>3. ASSUME NEW t, Believing(t) PROVE Believing(t)'
  BY <1>3 DEF Believing, Awaits, Waiting, Answered, Faithful, SessionOf, Session, Public,
     Pending, Refused, Nobody, Account
<1> QED BY <1>1, <1>2, <1>3 DEF Minded

LEMMA NextMinded ==
  ASSUME Typed, Minded, [Next]_vars
  PROVE  Minded'
<1>1. ASSUME NEW j \in jobs, Serve(j)
      PROVE  Minded'
  BY <1>1, LimiterMinded, AuthenticateMinded, ReadMinded, UpdateProfileMinded, SetAvatarMinded,
     CheckMinded, WriteMinded, EntryMinded, IssueMinded, ClearMinded, ClearFailsMinded DEF Serve
<1>2. ASSUME NEW j \in jobs, Receive(j) \/ Lose(j)
      PROVE  Minded'
  BY <1>2, ReceiveMinded, LoseMinded
<1>3. CASE UNCHANGED vars \/ \E k \in Counters : Elapse(k)
  BY <1>3, SameMinded DEF vars, Elapse, users, redis, tabs
<1> QED BY <1>1, <1>2, <1>3, TabsMinded, EndMinded DEF Next

(* What is left when no request is under way.                               *)
LEMMA MindedAgrees ==
  ASSUME Typed, Minded
  PROVE  MeAgrees
<1>1. SUFFICES ASSUME jobs = {}, NEW t \in Tabs \ strayed, me[t] # Pending
               PROVE  IF Session(BrowserOf[t]) = {}
                        THEN me[t] = Refused
                        ELSE \E s \in Session(BrowserOf[t]) : me[t] = Account(Public(s.user))
  BY DEF MeAgrees
<1>2. Faithful(t)
  BY <1>1 DEF Minded, Believing, Awaits, Waiting, Answered
<1>3. CASE SessionOf(t) # {}
  <2>1. PICK s \in SessionOf(t), there \in BOOLEAN :
          /\ me[t] = Account([Public(s.user) EXCEPT !.avatar = there])
          /\ there = table[s.user].avatar
    BY <1>1, <1>2, <1>3 DEF Faithful, Answered
  <2>2. [Public(s.user) EXCEPT !.avatar = there] = Public(s.user)
    BY <2>1 DEF Public
  <2> QED BY <1>3, <2>1, <2>2 DEF SessionOf
<1> QED BY <1>2, <1>3 DEF Faithful, SessionOf

(* For any tabs and browsers, whatever logs in and out, changes accounts    *)
(* and fails: once all is quiet, a tab shows the account its browser is     *)
(* logged in to, as it is stored, or that there is none; unless the account *)
(* was changed elsewhere, the session ran out, or an answer was lost or     *)
(* overtaken.                                                               *)
THEOREM TabsKnowTheAccount == Spec => []MeAgrees
BY InitTypes, NextTypes, InitMinded, NextMinded, MindedAgrees, PTL DEF Spec
=============================================================================
