------------------------------ MODULE Accounts ------------------------------
(* Registering, logging in and out, and the account a browser's tabs show:  *)
(* the users table and the sessions, the rate limiter before them, the      *)
(* session cookie that the tabs of a browser share, and what each tab       *)
(* believes of itself, its ["me"] query.                                    *)
(*                                                                          *)
(* A job is an HTTP request: the server carries it out in steps, then the   *)
(* tab takes in the answer, or the answer is lost.                          *)
EXTENDS Naturals, FiniteSets

CONSTANTS
  Users, NoUser,
  Tabs, Browsers, BrowserOf,
  Limit,       \* loginAttemptLimit and registrationLimit, for an address each
  Scenes       \* how behaviours begin: the users who are registered, and how
               \* often each thing will be done

Spent == {"login", "wrong", "register", "logout", "profile", "upload", "remove",
          "password", "query", "load", "bounce", "end", "fail", "lose"}

ASSUME AccountsAssumption ==
  /\ NoUser \notin Users
  /\ BrowserOf \in [Tabs -> Browsers]
  /\ Limit \in Nat \ {0}
  /\ Scenes \subseteq [known : SUBSET Users, left : [Spent -> Nat]]

VARIABLES
  table, registered,  \* the users: password, profile, whether there is an avatar
  sessions, made,     \* Redis: the sessions; their number, which names them
  counts, timed,      \* Redis: the limiter's counters, and those with a TTL
  cookie,             \* the session each browser sends, 0 without one
  me, loading,        \* each tab's ["me"] query, and the job fetching it or 0
  page,               \* the routes a tab is on: "public" (login) or "private"
  jobs, count,        \* requests under way; those begun, which numbers them
  left,               \* what is left of the scene
  strayed,   \* history: tabs whose account changed other than by their doing
  spare,     \* history: sessions no browser will send again
  stuck,     \* history: counters that were left without a TTL
  crossed,   \* history: users of whom two changes of password were checked at once
  usurped    \* history: a password was replaced that its replacer did not give

users == <<table, registered>>
redis == <<sessions, made>>
limiter == <<counts, timed, stuck>>
tabs == <<me, loading, page>>
passwords == <<crossed, usurped>>
vars == <<users, redis, limiter, cookie, tabs, jobs, count, left, strayed, spare, passwords>>

Counters == {"login", "register"} \X Browsers
Ids == {s.id : s \in sessions}

(* What a tab is told of an account; ... and keeps of it.                   *)
Nobody == [user |-> NoUser, profile |-> 0, avatar |-> FALSE]
Public(u) == [user |-> u, profile |-> table[u].profile, avatar |-> table[u].avatar]
Pending == [data |-> Nobody, failed |-> FALSE]
Refused == [data |-> Nobody, failed |-> TRUE]
Account(data) == [data |-> data, failed |-> FALSE]

Init ==
  /\ \E scene \in Scenes : registered = scene.known /\ left = scene.left
  /\ table = [u \in Users |-> [password |-> 1, profile |-> 1, avatar |-> FALSE]]
  /\ sessions = {} /\ made = 0
  /\ counts = [k \in Counters |-> 0] /\ timed = {}
  /\ cookie = [b \in Browsers |-> 0]
  /\ me = [t \in Tabs |-> Refused] /\ loading = [t \in Tabs |-> 0]
  /\ page = [t \in Tabs |-> "public"]
  /\ jobs = {} /\ count = 0
  /\ strayed = {} /\ spare = {} /\ stuck = {} /\ crossed = {} /\ usurped = FALSE

Spend(what) == left[what] > 0 /\ left' = [left EXCEPT ![what] = @ - 1]

-----------------------------------------------------------------------------
(* The tabs                                                                 *)

(* Passwords are numbered, 0 is a wrong one; a new password, profile or     *)
(* avatar takes the number of its job.                                      *)
Job(n, op, t, u, secret, sent) ==
  [n |-> n, op |-> op, tab |-> t, cookie |-> sent, who |-> u, secret |-> secret,
   stage |-> IF op \in {"login", "register"} THEN "arrived" ELSE "asked",
   turn |-> 0, status |-> "none", set |-> 0, data |-> Nobody]

Ask(op, t, u, secret) ==
  /\ jobs' = jobs \cup {Job(count + 1, op, t, u, secret, cookie[BrowserOf[t]])}
  /\ count' = count + 1

Waiting(t, ops) == \E j \in jobs : j.tab = t /\ j.op \in ops

(* The forms are there when the query has come to nothing, and busy while   *)
(* they wait.                                                               *)
Form(t) == page[t] = "public" /\ me[t] = Refused /\ ~Waiting(t, {"login", "register"})

Login(t, u) ==
  /\ Form(t) /\ u \in registered
  /\ \/ Spend("login") /\ Ask("login", t, u, table[u].password)
     \/ Spend("wrong") /\ Ask("login", t, u, 0)
  /\ UNCHANGED <<users, redis, limiter, cookie, tabs, strayed, spare, passwords>>

Register(t, u) ==
  /\ Form(t) /\ Spend("register")
  /\ Ask("register", t, u, table[u].password)
  /\ UNCHANGED <<users, redis, limiter, cookie, tabs, strayed, spare, passwords>>

(* A user inside, who is known; each mutation's button waits for its        *)
(* answer.                                                                  *)
Inside(t) == page[t] = "private" /\ me[t].data # Nobody /\ ~me[t].failed

Use(t, op) ==
  /\ Inside(t) /\ ~Waiting(t, {op})
  /\ Spend(op) /\ Ask(op, t, NoUser, 0)
  /\ UNCHANGED <<users, redis, limiter, cookie, tabs, strayed, spare, passwords>>

ChangePassword(t) ==
  LET u == me[t].data.user IN
  /\ Inside(t) /\ ~Waiting(t, {"password"})
  /\ \/ Spend("password") /\ Ask("password", t, NoUser, table[u].password)
     \/ Spend("wrong") /\ Ask("password", t, NoUser, 0)
  /\ UNCHANGED <<users, redis, limiter, cookie, tabs, strayed, spare, passwords>>

(* A query without data is pending while it is fetched; with data, an error *)
(* stays until there is an answer.                                          *)
Fetch(t) ==
  /\ Ask("me", t, NoUser, 0)
  /\ loading' = [loading EXCEPT ![t] = count + 1]
  /\ me' = [me EXCEPT ![t] = IF @.data = Nobody THEN Pending ELSE @]

(* The page is loaded afresh.                                               *)
Load(t) ==
  /\ Spend("load") /\ \A j \in jobs : j.tab # t
  /\ Ask("me", t, NoUser, 0)
  /\ me' = [me EXCEPT ![t] = Pending]
  /\ loading' = [loading EXCEPT ![t] = count + 1]
  /\ page' = [page EXCEPT ![t] = "private"]
  /\ strayed' = strayed \ {t}
  /\ UNCHANGED <<users, redis, limiter, cookie, spare, passwords>>

(* A rendering after the cache was cleared, or the window's focus, fetches  *)
(* what is not there.                                                       *)
Render(t) ==
  /\ loading[t] = 0
  /\ \/ me[t] = Pending /\ UNCHANGED left
     \/ me[t].failed /\ Spend("load")
  /\ Fetch(t)
  /\ UNCHANGED <<users, redis, limiter, cookie, page, strayed, spare, passwords>>

(* RequireAuth sends away who is refused, PublicOnlyRoute whom it knows;    *)
(* the other route mounts the query, which fetches if it has no data or     *)
(* failed.  A tab that is refused though it has data is sent to and fro;    *)
(* "bounce" bounds how often.                                               *)
Redirect(t) ==
  /\ IF me[t].failed /\ me[t].data # Nobody THEN Spend("bounce") ELSE UNCHANGED left
  /\ \/ page[t] = "private" /\ me[t].failed
     \/ page[t] = "public" /\ me[t].data # Nobody
  /\ page' = [page EXCEPT ![t] = IF @ = "public" THEN "private" ELSE "public"]
  /\ IF me[t].failed /\ loading[t] = 0
       THEN Fetch(t)
       ELSE UNCHANGED <<me, loading, jobs, count>>
  /\ UNCHANGED <<users, redis, limiter, cookie, strayed, spare, passwords>>

-----------------------------------------------------------------------------
(* The limiter                                                              *)

Change(j, k) == jobs' = (jobs \ {j}) \cup {k}
Counter(j) == <<j.op, BrowserOf[j.tab]>>
Answer(j, status) == [j EXCEPT !.stage = "answered", !.status = status]

(* INCR.                                                                    *)
Count(j) ==
  /\ j.stage = "arrived"
  /\ LET turn == counts[Counter(j)] + 1 IN
     /\ counts' = [counts EXCEPT ![Counter(j)] = turn]
     /\ Change(j, [j EXCEPT !.stage = "counted", !.turn = turn])
  /\ UNCHANGED <<users, redis, timed, stuck, cookie, tabs, count, left, strayed, spare, passwords>>

(* ... or an error, which lets the request through.                         *)
FailOpen(j) ==
  /\ j.stage = "arrived" /\ Spend("fail")
  /\ Change(j, [j EXCEPT !.stage = "asked"])
  /\ UNCHANGED <<users, redis, limiter, cookie, tabs, count, strayed, spare, passwords>>

Decide(j) == Change(j, IF j.turn <= Limit THEN [j EXCEPT !.stage = "asked"] ELSE Answer(j, "refused"))

(* Faulty: armed by nobody, INCR never returns 0.                           *)
ExpireNone(j) ==
  /\ j.stage = "counted"
  /\ timed' = IF j.turn = 0 THEN timed \cup {Counter(j)} ELSE timed
  /\ Decide(j)
  /\ UNCHANGED <<users, redis, counts, stuck, cookie, tabs, count, left, strayed,
                 spare, passwords>>

(* EXPIRE, by the first; its error is ignored.                              *)
Expire(j) ==
  /\ j.stage = "counted"
  /\ timed' = IF j.turn = 1 THEN timed \cup {Counter(j)} ELSE timed
  /\ Decide(j)
  /\ UNCHANGED <<users, redis, counts, stuck, cookie, tabs, count, left, strayed,
                 spare, passwords>>

ExpireFails(j) ==
  /\ j.stage = "counted" /\ j.turn = 1 /\ Spend("fail")
  /\ stuck' = stuck \cup {Counter(j)}
  /\ Decide(j)
  /\ UNCHANGED <<users, redis, counts, timed, cookie, tabs, count, strayed, spare, passwords>>

(* The window elapses.                                                      *)
Elapse(k) ==
  /\ k \in timed
  /\ timed' = timed \ {k}
  /\ counts' = [counts EXCEPT ![k] = 0]
  /\ UNCHANGED <<users, redis, stuck, cookie, tabs, jobs, count, left, strayed, spare, passwords>>

-----------------------------------------------------------------------------
(* The server                                                               *)

Others(t) == {w \in Tabs \ {t} : BrowserOf[w] = BrowserOf[t]}
Busy(j) == \E k \in jobs \ {j} : k.tab = j.tab /\ k.op \in {"me", "profile", "upload", "remove"}

(* RequireAuth: whatever goes wrong is a 401.                               *)
Authenticate(j) ==
  /\ j.stage = "asked" /\ j.op \notin {"login", "register"}
  /\ \/ \E s \in sessions :
          s.id = j.cookie /\ Change(j, [j EXCEPT !.stage = "known", !.who = s.user])
     \/ j.cookie \notin Ids /\ Change(j, Answer(j, "unauthorized"))
  /\ UNCHANGED <<users, redis, limiter, cookie, tabs, count, left, strayed, spare, passwords>>

AuthenticateFails(j) ==
  /\ j.stage = "asked" /\ j.op \notin {"login", "register"} /\ Spend("fail")
  /\ Change(j, Answer(j, "unauthorized"))
  /\ strayed' = strayed \cup {j.tab}
  /\ UNCHANGED <<users, redis, limiter, cookie, tabs, count, spare, passwords>>

(* Me, and any other reading.                                               *)
Read(j) ==
  /\ j.stage = "known" /\ j.op \in {"me", "query"}
  /\ Change(j, [Answer(j, "ok") EXCEPT !.data = Public(j.who)])
  /\ UNCHANGED <<users, redis, limiter, cookie, tabs, count, left, strayed, spare, passwords>>

(* UpdateProfile returns the row, UploadAvatar and DeleteAvatar nothing.    *)
UpdateProfile(j) ==
  /\ j.stage = "known" /\ j.op = "profile"
  /\ table' = [table EXCEPT ![j.who].profile = j.n]
  /\ Change(j, [Answer(j, "ok") EXCEPT !.data = [Public(j.who) EXCEPT !.profile = j.n]])
  /\ strayed' = strayed \cup (Tabs \ {j.tab})
                   \cup (IF Busy(j) \/ Waiting(j.tab, {"login"}) THEN {j.tab} ELSE {})
  /\ UNCHANGED <<registered, redis, limiter, cookie, tabs, count, left, spare, passwords>>

SetAvatar(j, there) ==
  /\ table' = [table EXCEPT ![j.who].avatar = there]
  /\ Change(j, [Answer(j, "ok") EXCEPT !.data.avatar = there])
  /\ strayed' = strayed \cup (Tabs \ {j.tab})
                   \cup (IF Busy(j) \/ Waiting(j.tab, {"login"}) THEN {j.tab} ELSE {})
  /\ UNCHANGED <<registered, redis, limiter, cookie, tabs, count, left, spare, passwords>>

UploadAvatar(j) == j.stage = "known" /\ j.op = "upload" /\ SetAvatar(j, TRUE)
DeleteAvatar(j) == j.stage = "known" /\ j.op = "remove" /\ SetAvatar(j, FALSE)

(* A change of password is checked while another one has been, and is yet   *)
(* to be written.                                                           *)
Cross(j) ==
  crossed' = IF j.op = "password" /\ \E k \in jobs \ {j} :
                  k.op = "password" /\ k.stage = "checked" /\ k.who = j.who
               THEN crossed \cup {j.who} ELSE crossed

(* Faulty: a change of password is not checked.                             *)
CheckLogin(j) ==
  /\ \/ j.stage = "asked" /\ j.op = "login"
     \/ j.stage = "known" /\ j.op = "password"
  /\ Change(j, IF j.op = "password" \/ j.secret = table[j.who].password
                 THEN [j EXCEPT !.stage = "checked", !.data = Public(j.who)]
                 ELSE Answer(j, "unauthorized"))
  /\ Cross(j)
  /\ UNCHANGED <<users, redis, limiter, cookie, tabs, count, left, strayed, spare, usurped>>

(* Login's GetByEmail, UpdatePassword's GetPasswordHash, and CheckPassword. *)
CheckPassword(j) ==
  /\ \/ j.stage = "asked" /\ j.op = "login"
     \/ j.stage = "known" /\ j.op = "password"
  /\ Change(j, IF j.secret = table[j.who].password
                 THEN [j EXCEPT !.stage = "checked", !.data = Public(j.who)]
                 ELSE Answer(j, "unauthorized"))
  /\ Cross(j)
  /\ UNCHANGED <<users, redis, limiter, cookie, tabs, count, left, strayed, spare, usurped>>

UpdatePasswordHash(j) ==
  /\ j.stage = "checked" /\ j.op = "password"
  /\ table' = [table EXCEPT ![j.who].password = j.n + 1]
  /\ usurped' = (usurped \/ (j.secret # table[j.who].password /\ j.who \notin crossed))
  /\ Change(j, Answer(j, "ok"))
  /\ UNCHANGED <<registered, redis, limiter, cookie, tabs, count, left, strayed, spare, crossed>>

(* users.Service.Create: names and addresses are unique.                    *)
CreateUser(j) ==
  /\ j.stage = "asked" /\ j.op = "register"
  /\ registered' = registered \cup {j.who}
  /\ Change(j, IF j.who \in registered THEN Answer(j, "refused") ELSE [j EXCEPT !.stage = "checked"])
  /\ UNCHANGED <<table, redis, limiter, cookie, tabs, count, left, strayed, spare, passwords>>

(* IssueCookie, or the error of its SET.                                    *)
IssueCookie(j) ==
  /\ j.stage = "checked" /\ j.op \in {"login", "register"}
  /\ sessions' = sessions \cup {[id |-> made + 1, user |-> j.who]}
  /\ made' = made + 1
  /\ Change(j, [Answer(j, "ok") EXCEPT !.set = made + 1])
  /\ UNCHANGED <<users, limiter, cookie, tabs, count, left, strayed, spare, passwords>>

IssueFails(j) ==
  /\ j.stage = "checked" /\ j.op \in {"login", "register"} /\ Spend("fail")
  /\ Change(j, Answer(j, "refused"))
  /\ UNCHANGED <<users, redis, limiter, cookie, tabs, count, strayed, spare, passwords>>

(* Faulty: only the browser forgets the session.                            *)
ForgetCookie(j) ==
  /\ j.stage = "known" /\ j.op = "logout"
  /\ Change(j, Answer(j, "ok"))
  /\ strayed' = strayed \cup Others(j.tab)
  /\ UNCHANGED <<users, redis, limiter, cookie, tabs, count, left, spare, passwords>>

(* Logout's ClearCookie; an error of its DEL is ignored.                    *)
ClearCookie(j) ==
  /\ j.stage = "known" /\ j.op = "logout"
  /\ sessions' = {s \in sessions : s.id # j.cookie}
  /\ Change(j, Answer(j, "ok"))
  /\ strayed' = strayed \cup Others(j.tab)
  /\ UNCHANGED <<users, made, limiter, cookie, tabs, count, left, spare, passwords>>

ClearFails(j) ==
  /\ j.stage = "known" /\ j.op = "logout" /\ Spend("fail")
  /\ Change(j, Answer(j, "ok"))
  /\ spare' = spare \cup {j.cookie}
  /\ UNCHANGED <<users, redis, limiter, cookie, tabs, count, strayed, passwords>>

(* The session's TTL.                                                       *)
End(s) ==
  /\ Spend("end") /\ \A j \in jobs : j.set # s.id
  /\ sessions' = sessions \ {s}
  /\ strayed' = strayed \cup {t \in Tabs : cookie[BrowserOf[t]] = s.id}
  /\ UNCHANGED <<users, made, limiter, cookie, tabs, jobs, count, spare, passwords>>

-----------------------------------------------------------------------------
(* The answers                                                              *)

(* Set-Cookie; a logout's clears the cookie, whichever it is by now.        *)
SetCookie(j) ==
  LET b == BrowserOf[j.tab]
      new == IF j.op = "logout" /\ j.status = "ok" THEN 0 ELSE IF j.set # 0 THEN j.set ELSE cookie[b]
  IN /\ cookie' = [cookie EXCEPT ![b] = new]
     /\ spare' = IF new = cookie[b] \/ (j.op = "logout" /\ cookie[b] = j.cookie)
                   THEN spare ELSE spare \cup {cookie[b]}
     /\ strayed' = IF new # cookie[b]
                     THEN strayed \cup Others(j.tab) \cup (IF Busy(j) THEN {j.tab} ELSE {})
                     ELSE IF j.op = "login" /\ new # 0 THEN strayed \cup {j.tab} ELSE strayed

(* useRegister logs in once it has registered; a query that is refused      *)
(* fetches ["me"] again, and sets it to undefined, which leaves it alone.   *)
AskOn(j, t) ==
  IF \/ j.op = "register" /\ j.status = "ok"
     \/ j.op = "query" /\ j.status = "unauthorized"
    THEN /\ jobs' = (jobs \ {j}) \cup
              {Job(count + 1, IF j.op = "query" THEN "me" ELSE "login", t, j.who, j.secret,
                   cookie'[BrowserOf[t]])}
         /\ count' = count + 1
    ELSE jobs' = jobs \ {j} /\ UNCHANGED count

(* useProfileMutations: a profile comes with the answer, an avatar is noted *)
(* in the account that is shown by now, if any.                             *)
Updated(j, known) ==
  IF j.op = "profile" THEN Account(j.data)
  ELSE IF known.data = Nobody THEN known
  ELSE Account([known.data EXCEPT !.avatar = j.data.avatar])

(* What the tab shows after the answer; that of a query given up counts for *)
(* nothing.                                                                 *)
Shown(j, t) ==
  LET mine == j.op = "me" /\ loading[t] = j.n IN
  CASE mine /\ j.status # "ok" -> [me[t] EXCEPT !.failed = TRUE]
    [] (mine \/ j.op = "login") /\ j.status = "ok" -> Account(j.data)
    [] j.op \in {"profile", "upload", "remove"} /\ j.status = "ok" -> Updated(j, me[t])
    [] OTHER -> me[t]

(* Faulty: a logout leaves the cache alone.                                 *)
ReceiveOnly(j) ==
  LET t == j.tab IN
  /\ j.stage = "answered"
  /\ SetCookie(j)
  /\ AskOn(j, t)
  /\ loading' = [loading EXCEPT ![t] =
       IF j.op = "query" /\ j.status = "unauthorized" THEN count + 1 ELSE IF @ = j.n THEN 0 ELSE @]
  /\ me' = [me EXCEPT ![t] = Shown(j, t)]
  /\ UNCHANGED <<users, redis, limiter, page, left, passwords>>

Receive(j) ==
  LET t == j.tab IN
  /\ j.stage = "answered"
  /\ SetCookie(j)
  /\ AskOn(j, t)
  /\ loading' = [loading EXCEPT ![t] =
       IF j.op = "query" /\ j.status = "unauthorized" THEN count + 1
       ELSE IF j.op = "logout" \/ @ = j.n THEN 0 ELSE @]
  /\ me' = [me EXCEPT ![t] = IF j.op = "logout" THEN Pending ELSE Shown(j, t)]
  /\ UNCHANGED <<users, redis, limiter, page, left, passwords>>

(* The answer is lost: the mutation or the query fails.                     *)
Lose(j) ==
  /\ j.stage = "answered" /\ Spend("lose")
  /\ jobs' = jobs \ {j}
  /\ spare' = spare \cup {j.set}
  /\ strayed' = strayed \cup {j.tab}
  /\ loading' = [loading EXCEPT ![j.tab] = IF j.op = "logout" \/ @ = j.n THEN 0 ELSE @]
  /\ me' = [me EXCEPT ![j.tab] =
       IF j.op = "logout" THEN Pending
       ELSE IF loading[j.tab] = j.n THEN [@ EXCEPT !.failed = TRUE] ELSE @]
  /\ UNCHANGED <<users, redis, limiter, cookie, page, count, passwords>>

-----------------------------------------------------------------------------
Serve(j) ==
  \/ Count(j) \/ FailOpen(j) \/ Expire(j) \/ ExpireFails(j)
  \/ Authenticate(j) \/ AuthenticateFails(j) \/ Read(j)
  \/ UpdateProfile(j) \/ UploadAvatar(j) \/ DeleteAvatar(j)
  \/ CheckPassword(j) \/ UpdatePasswordHash(j)
  \/ CreateUser(j) \/ IssueCookie(j) \/ IssueFails(j)
  \/ ClearCookie(j) \/ ClearFails(j)

Next ==
  \/ \E t \in Tabs :
       \/ \E u \in Users : Login(t, u) \/ Register(t, u)
       \/ \E op \in {"logout", "profile", "upload", "remove", "query"} : Use(t, op)
       \/ ChangePassword(t)
       \/ Load(t) \/ Render(t) \/ Redirect(t)
  \/ \E j \in jobs : Serve(j) \/ Receive(j) \/ Lose(j)
  \/ \E k \in Counters : Elapse(k)
  \/ \E s \in sessions : End(s)

Spec == Init /\ [][Next]_vars

(* TTLs run out, and a request that is counted is carried on with.          *)
FairSpec ==
  /\ Spec
  /\ \A k \in Counters : WF_vars(Elapse(k)) /\ WF_vars(\E j \in jobs : Counter(j) = k /\ Expire(j))

-----------------------------------------------------------------------------
(* Properties                                                               *)

Data == [user : Users \cup {NoUser}, profile : Nat, avatar : BOOLEAN]

(* Every variable keeps its type; sessions and jobs are numbered.           *)
TypeOK ==
  /\ table \in [Users -> [password : Nat, profile : Nat, avatar : BOOLEAN]]
  /\ registered \subseteq Users
  /\ made \in Nat /\ sessions \subseteq [id : 1 .. made, user : Users]
  /\ counts \in [Counters -> Nat]
  /\ timed \subseteq Counters /\ stuck \subseteq Counters
  /\ cookie \in [Browsers -> 0 .. made]
  /\ me \in [Tabs -> [data : Data, failed : BOOLEAN]]
  /\ count \in Nat /\ loading \in [Tabs -> 0 .. count]
  /\ page \in [Tabs -> {"public", "private"}]
  /\ \A j \in jobs :
       /\ j.n \in 1 .. count /\ j.tab \in Tabs /\ j.who \in Users \cup {NoUser}
       /\ j.cookie \in 0 .. made /\ j.set \in 0 .. made
       /\ j.secret \in Nat /\ j.turn \in Nat /\ j.data \in Data
  /\ left \in [Spent -> Nat]
  /\ strayed \subseteq Tabs /\ spare \subseteq 0 .. made /\ crossed \subseteq Users

Session(b) == {s \in sessions : s.id = cookie[b]}

(* When no request is under way, a tab that shows an account shows the one  *)
(* its browser is logged in to, as it is stored, and no tab that asks for a *)
(* login is logged in: unless another tab or browser changed the account,   *)
(* the session ran out, or an answer was lost or overtaken.                 *)
MeAgrees ==
  jobs = {} => \A t \in Tabs \ strayed : me[t] # Pending =>
    IF Session(BrowserOf[t]) = {}
      THEN me[t] = Refused
      ELSE \E s \in Session(BrowserOf[t]) : me[t] = Account(Public(s.user))

(* Every session can be ended by the browser that got it: none is left in   *)
(* Redis that no browser holds, but for those whose cookie was replaced or  *)
(* lost and those whose logout failed in Redis.                             *)
SessionsOwned ==
  Ids \subseteq spare \cup {cookie[b] : b \in Browsers} \cup {j.set : j \in jobs}

(* limiter.go:27 "resets the count after window elapses": nobody is refused *)
(* for ever, unless the TTL could not be set.                               *)
BlockEnds ==
  \A k \in Counters : counts[k] > Limit ~> counts[k] = 0 \/ k \in stuck

(* A password is only replaced by who has given it, unless a second change  *)
(* of the user's is checked between the check and the write of a first.     *)
PasswordsChain == ~usurped
=============================================================================
