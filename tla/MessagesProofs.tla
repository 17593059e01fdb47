--------------------------- MODULE MessagesProofs ---------------------------
(***************************************************************************)
(* Proofs about Messages, for any number of tabs, messages and requests    *)
(* and whatever the bounds on losses, drops and fetches.                   *)
(*                                                                         *)
(* Agreement is not inductive: a copy ahead of the database could clash    *)
(* with the next edit.  NotAhead supplies what is missing: no copy is      *)
(* ahead of the row.  An action then either moves copies about, or stores  *)
(* one row that is newer than every copy (lemmas Moved and Renewed).       *)
(***************************************************************************)
EXTENDS Messages, TLAPS

Behind(m) ==
  /\ m.gen <= rows[m.key].gen
  /\ m.gen = rows[m.key].gen => m.version <= rows[m.key].version

(* The version an accepted edit was made over has been superseded.          *)
Superseded(m) ==
  /\ m.gen <= rows[m.key].gen
  /\ m.gen = rows[m.key].gen => m.version < rows[m.key].version

NotAhead == \A m \in Copies : Behind(m)
LiveStored == \A k \in live : rows[k].gen > 0
EditsOver == \A r \in Accepted("edit") : Superseded(req[r].msg)

AnswersAsked ==
  \A r \in Requests : /\ pc[r] = "writing" => reply[r].key = req[r].msg.key
                      /\ pc[r] = "refused" => req[r].op # "create"

IInv == TypeOK /\ LiveStored /\ NotAhead /\ Agreement /\ EditsOver /\ OneWinner
          /\ AnswersAsked /\ PendingHasRequest

-----------------------------------------------------------------------------
(* The cache functions add no message but the one they are given.           *)

LEMMA ApplyMsgs ==
  ASSUME NEW C \in SUBSET ChatMessage, NEW m \in Message,
         NEW type \in {"create", "edit", "delete"}
  PROVE  /\ Apply(C, type, m) \in SUBSET ChatMessage
         /\ \A e \in Apply(C, type, m) : e = Sent(m) \/ e \in C
         /\ type = "create" =>
              \A e \in Apply(C, type, m) : e.status = "pending" => e.msg.key # m.key
<1>1. Sent(m) \in ChatMessage /\ Sent(m).status = "sent"
  BY DEF Sent, ChatMessage
<1>2. CASE type = "create"
  BY <1>1, <1>2 DEF Apply, InsertOrReconcile
<1>3. CASE type = "edit"
  BY <1>1, <1>3 DEF Apply, ReplaceIfNewer
<1>4. CASE type = "delete"
  BY <1>1, <1>4 DEF Apply, RemoveById
<1> QED BY <1>2, <1>3, <1>4

LEMMA MarkFailedMsgs ==
  ASSUME NEW C \in SUBSET ChatMessage, NEW k
  PROVE  /\ MarkFailed(C, k) \in SUBSET ChatMessage
         /\ \A e \in MarkFailed(C, k) : \E f \in C : e.msg = f.msg
         /\ \A e \in MarkFailed(C, k) : e.status = "pending" => e \in C /\ e.msg.key # k
BY DEF MarkFailed, ChatMessage

LEMMA MarkRetryingMsgs ==
  ASSUME NEW C \in SUBSET ChatMessage, NEW k
  PROVE  /\ MarkRetrying(C, k) \in SUBSET ChatMessage
         /\ \A e \in MarkRetrying(C, k) : \E f \in C : e.msg = f.msg
         /\ \A e \in MarkRetrying(C, k) :
              e.status = "pending" => e.msg.key = k \/ e \in C
BY DEF MarkRetrying, ChatMessage

LEMMA ShowType ==
  ASSUME TypeOK, NEW t \in Tabs, NEW C \in SUBSET ChatMessage, Show(t, C)
  PROVE  /\ cache' \in [Tabs -> SUBSET ChatMessage]
         /\ editor' \in [Tabs -> SUBSET Message]
BY DEF TypeOK, Show

LEMMA SubmitType ==
  ASSUME TypeOK, NEW t \in Tabs, NEW r \in Requests, NEW m \in Message,
         NEW op \in {"create", "edit", "delete"}, Submit(r, t, op, m),
         cache' \in [Tabs -> SUBSET ChatMessage], editor' \in [Tabs -> SUBSET Message]
  PROVE  TypeOK'
<1> DEFINE q == [op |-> op, tab |-> t, msg |-> m]
<1>1. q \in Request
  BY DEF Request
<1>2. pc' = [pc EXCEPT ![r] = "sent"] /\ req' = [req EXCEPT ![r] = q] /\ waiting' = waiting \cup {r}
  BY DEF Submit
<1> HIDE DEF q
<1>3. /\ pc' \in [Requests -> {"free", "sent", "writing", "refused"}]
      /\ req' \in [Requests -> Request \cup {None}]
      /\ waiting' \in SUBSET {x \in Requests : pc'[x] # "free"}
      /\ \A x \in Requests : pc'[x] # "free" => req'[x] \in Request
      /\ \A x \in Requests : pc'[x] = "writing" => pc[x] = "writing"
  BY <1>1, <1>2 DEF TypeOK
<1> QED BY <1>3 DEF TypeOK, Submit, serverVars, socketVars, fetchVars

LEMMA CommitType ==
  ASSUME TypeOK, NEW r \in Requests, NEW row \in Message, pc[r] = "sent", Commit(r, row),
         rows' \in [Keys -> Message], \A k \in Keys : rows'[k].key = k, live' \in SUBSET Keys
  PROVE  TypeOK'
<1>1. losses' \in 0..MaxLosses
  <2>1. losses \in 0..MaxLosses /\ MaxLosses \in Nat
    BY MessageConstants DEF TypeOK
  <2>2. losses' = losses \/ (losses < MaxLosses /\ losses' = losses + 1)
    BY DEF Commit, Lose
  <2> QED BY <2>1, <2>2
<1>2. todo' \in [Requests -> SUBSET Tabs]
  BY DEF TypeOK, Commit
<1>3. /\ pc' \in [Requests -> {"free", "sent", "writing", "refused"}]
      /\ reply' \in [Requests -> Message \cup {None}]
      /\ waiting' \in SUBSET {x \in Requests : pc'[x] # "free"}
      /\ \A x \in Requests : pc'[x] # "free" => pc[x] # "free"
      /\ \A x \in Requests : pc'[x] = "writing" => reply'[x] \in Message
  BY DEF TypeOK, Commit
<1> QED BY <1>1, <1>2, <1>3 DEF TypeOK, Commit, socketVars, tabVars, fetchVars

LEMMA AskType ==
  ASSUME TypeOK, NEW t \in Tabs, Ask(t)
  PROVE  /\ fetching' \in [Tabs -> {"no", "asked", "answered"}]
         /\ page' \in [Tabs -> SUBSET Message]
         /\ fetches' \in 0..MaxFetches
<1>1. fetches \in 0..MaxFetches /\ MaxFetches \in Nat
  BY MessageConstants DEF TypeOK
<1>2. fetches' \in 0..MaxFetches
  BY <1>1 DEF Ask, fetchVars
<1> QED BY <1>2 DEF TypeOK, Ask, fetchVars

(* HandleUpdate, seen from the request: the row it matched is the one the   *)
(* edit was made over, with the version moved on and the text replaced.     *)
Updated(m) == [m EXCEPT !.version = @ + 1]

LEMMA UpdateStep ==
  ASSUME TypeOK, NEW r \in Requests, HandleUpdate(r)
  PROVE  LET m == req[r].msg IN
         /\ pc[r] = "sent" /\ req[r].op = "edit" /\ m \in Message
         /\ m.key \in live /\ Id(rows[m.key]) = Id(m) /\ rows[m.key].version = m.version
         /\ Updated(m) \in Message
         /\ Updated(m) = [rows[m.key] EXCEPT !.version = @ + 1, !.text = m.text]
         /\ Commit(r, Updated(m))
         /\ rows' = [rows EXCEPT ![m.key] = Updated(m)] /\ live' = live
<1> DEFINE m == req[r].msg
           row == [rows[m.key] EXCEPT !.version = @ + 1, !.text = m.text]
<1>1. m \in Message /\ rows[m.key] \in Message
  BY DEF HandleUpdate, TypeOK, Request, Message
<1>2. /\ pc[r] = "sent" /\ req[r].op = "edit"
      /\ m.key \in live /\ Id(rows[m.key]) = Id(m) /\ rows[m.key].version = m.version
      /\ Commit(r, row) /\ rows' = [rows EXCEPT ![m.key] = row] /\ live' = live
  BY DEF HandleUpdate, Matches, Stored
<1>3. Updated(m) \in Message
  BY <1>1 DEF Updated, Message
<1>4. [m EXCEPT !.version = @ + 1] = [rows[m.key] EXCEPT !.version = @ + 1, !.text = m.text]
  BY <1>1, <1>2 DEF Message, Id
<1>5. Updated(m) = row
  BY <1>4 DEF Updated
<1> QED BY <1>1, <1>2, <1>3, <1>5

(* Send shows a placeholder, or nothing.                                    *)
LEMMA SendStep ==
  ASSUME NEW t \in Tabs, NEW r \in Requests, Send(t, r)
  PROVE  \E k \in Keys :
           /\ rows[k].gen = 0 /\ \A q \in Requests : pc[q] # "free" => req[q].msg.key # k
           /\ Submit(r, t, "create", [key |-> k, gen |-> 0, version |-> 1, text |-> r])
           /\ \/ UNCHANGED tabVars
              \/ Show(t, cache[t] \cup {[msg |-> [key |-> k, gen |-> 0, version |-> 1, text |-> r],
                                         status |-> "pending"]})
BY DEF Send

(* HandleDelete tells of a text that it is gone, and nobody of a clip.      *)
LEMMA DeleteStep ==
  ASSUME NEW r \in Requests, HandleDelete(r)
  PROVE  LET k == req[r].msg.key IN
         /\ pc[r] = "sent" /\ req[r].op = "delete" /\ k \in live
         /\ rows' = rows /\ live' = live \ {k}
         /\ (k \in Clips /\ AnswerError(r)) \/ (k \notin Clips /\ Commit(r, rows[k]))
BY DEF HandleDelete, Stored

LEMMA TypeStep == TypeOK /\ [Next]_vars => TypeOK'
<1> SUFFICES ASSUME TypeOK, [Next]_vars PROVE TypeOK'
  OBVIOUS
<1> USE DEF serverVars, requestVars, socketVars, tabVars, fetchVars
<1>1. ASSUME NEW t \in Tabs, OpenEditor(t) \/ CancelEdit(t) PROVE TypeOK'
  <2>1. editor' \in [Tabs -> SUBSET Message]
    <3>1. \A e \in cache[t] : e.msg \in Message
      BY DEF TypeOK, ChatMessage
    <3>2. CASE OpenEditor(t)
      BY <3>1, <3>2 DEF TypeOK, OpenEditor
    <3>3. CASE CancelEdit(t)
      BY <3>3 DEF TypeOK, CancelEdit
    <3> QED BY <1>1, <3>2, <3>3
  <2> QED BY <1>1, <2>1 DEF TypeOK, OpenEditor, CancelEdit
<1>2. ASSUME NEW t \in Tabs, NEW r \in Requests, Send(t, r) PROVE TypeOK'
  <2>1. PICK k \in Keys :
          LET m == [key |-> k, gen |-> 0, version |-> 1, text |-> r] IN
          /\ Submit(r, t, "create", m)
          /\ \/ UNCHANGED tabVars
             \/ Show(t, cache[t] \cup {[msg |-> m, status |-> "pending"]})
    BY <1>2, SendStep
  <2> DEFINE m == [key |-> k, gen |-> 0, version |-> 1, text |-> r]
             C == cache[t] \cup {[msg |-> m, status |-> "pending"]}
  <2>2. m \in Message /\ C \in SUBSET ChatMessage
    BY DEF TypeOK, Message, ChatMessage
  <2>3. Submit(r, t, "create", m) /\ (UNCHANGED tabVars \/ Show(t, C))
    BY <2>1
  <2> HIDE DEF m, C
  <2>4. cache' \in [Tabs -> SUBSET ChatMessage] /\ editor' \in [Tabs -> SUBSET Message]
    BY <2>2, <2>3, ShowType DEF TypeOK
  <2> QED BY <2>2, <2>3, <2>4, SubmitType
<1>3. ASSUME NEW t \in Tabs, NEW r \in Requests, Retry(t, r) PROVE TypeOK'
  <2>1. PICK e \in cache[t] :
          Submit(r, t, "create", e.msg) /\ Show(t, MarkRetrying(cache[t], e.msg.key))
    BY <1>3 DEF Retry
  <2>2. e.msg \in Message /\ MarkRetrying(cache[t], e.msg.key) \in SUBSET ChatMessage
    BY MarkRetryingMsgs DEF TypeOK, ChatMessage
  <2> QED BY <2>1, <2>2, ShowType, SubmitType
<1>4. ASSUME NEW t \in Tabs, NEW r \in Requests, SaveEdit(t, r) PROVE TypeOK'
  <2>1. PICK m \in editor[t], e \in cache[t] :
          /\ Submit(r, t, "edit", [e.msg EXCEPT !.text = r])
          /\ editor' = [editor EXCEPT ![t] = @ \ {m}] /\ cache' = cache
    BY <1>4 DEF SaveEdit
  <2>2. [e.msg EXCEPT !.text = r] \in Message /\ m.version \in Nat
    <3>1. e.msg \in Message /\ m \in Message
      BY DEF TypeOK, ChatMessage
    <3> QED BY <3>1 DEF Message
  <2>3. cache' \in [Tabs -> SUBSET ChatMessage] /\ editor' \in [Tabs -> SUBSET Message]
    BY <2>1 DEF TypeOK
  <2> QED BY <2>1, <2>2, <2>3, SubmitType
<1>5. ASSUME NEW t \in Tabs, NEW r \in Requests, Delete(t, r) PROVE TypeOK'
  <2>1. PICK e \in cache[t] : Submit(r, t, "delete", e.msg) /\ UNCHANGED tabVars
    BY <1>5 DEF Delete
  <2>2. e.msg \in Message
    BY DEF TypeOK, ChatMessage
  <2>3. cache' \in [Tabs -> SUBSET ChatMessage] /\ editor' \in [Tabs -> SUBSET Message]
    BY <2>1 DEF TypeOK
  <2> QED BY <2>1, <2>2, <2>3, SubmitType
<1>6. ASSUME NEW r \in Requests, HandleCreate(r) PROVE TypeOK'
  <2> DEFINE k == req[r].msg.key
             row == [key |-> k, gen |-> rows[k].gen + 1, version |-> 1, text |-> req[r].msg.text]
  <2>1. k \in Keys /\ req[r].msg.text \in Requests \cup {Original} /\ rows[k] \in Message
    BY <1>6 DEF HandleCreate, TypeOK, Request, Message
  <2>2. row \in Message
    BY <2>1 DEF Message
  <2>3. CASE Commit(r, rows[k]) /\ UNCHANGED serverVars
    BY <1>6, <2>1, <2>3, CommitType DEF HandleCreate, TypeOK
  <2>4. CASE Commit(r, row) /\ rows' = [rows EXCEPT ![k] = row] /\ live' = live \cup {k}
    <3>1. /\ rows' \in [Keys -> Message] /\ live' \in SUBSET Keys
          /\ \A x \in Keys : rows'[x].key = x
      BY <2>1, <2>2, <2>4 DEF TypeOK
    <3> QED BY <1>6, <2>2, <2>4, <3>1, CommitType DEF HandleCreate
  <2> QED BY <1>6, <2>3, <2>4 DEF HandleCreate
<1>7. ASSUME NEW r \in Requests, HandleUpdate(r) PROVE TypeOK'
  <2> DEFINE m == req[r].msg
             row == Updated(m)
  <2>1. m \in Message
    BY <1>7, UpdateStep
  <2>2. row \in Message /\ row.key = m.key
    BY <1>7, UpdateStep DEF Updated, Message
  <2>3. pc[r] = "sent" /\ Commit(r, row) /\ rows' = [rows EXCEPT ![m.key] = row] /\ live' = live
    BY <1>7, UpdateStep
  <2> HIDE DEF m, row
  <2>4. rows' \in [Keys -> Message] /\ live' \in SUBSET Keys /\ \A x \in Keys : rows'[x].key = x
    BY <2>2, <2>3 DEF TypeOK
  <2> QED BY <2>2, <2>3, <2>4, CommitType
<1>8. ASSUME NEW r \in Requests, HandleDelete(r) PROVE TypeOK'
  <2>1. rows[req[r].msg.key] \in Message
    BY <1>8 DEF HandleDelete, TypeOK, Request, Message
  <2>2. /\ pc[r] = "sent" /\ rows' = rows /\ live' \subseteq live
        /\ AnswerError(r) \/ Commit(r, rows[req[r].msg.key])
    BY <1>8, DeleteStep
  <2>3. rows' \in [Keys -> Message] /\ live' \in SUBSET Keys /\ \A x \in Keys : rows'[x].key = x
    BY <2>2 DEF TypeOK
  <2>4. CASE AnswerError(r)
    BY <2>2, <2>3, <2>4 DEF TypeOK, AnswerError
  <2> QED BY <2>1, <2>2, <2>3, <2>4, CommitType
<1>9. ASSUME NEW r \in Requests, Refuse(r) PROVE TypeOK'
  BY <1>9 DEF TypeOK, Refuse, AnswerError
<1>10. ASSUME NEW r \in Requests, NEW t \in Tabs, Write(r, t) PROVE TypeOK'
  <2>1. pc[r] = "writing" => [type |-> req[r].op, msg |-> reply[r]] \in Event
    BY DEF TypeOK, Request, Event
  <2> QED BY <1>10, <2>1 DEF TypeOK, Write
<1>11. ASSUME NEW r \in Requests, Receive(r) PROVE TypeOK'
  <2>1. /\ req[r].tab \in Tabs /\ req[r].op \in {"create", "edit", "delete"}
        /\ reply[r] \in Message
    BY <1>11 DEF Receive, TypeOK, Request
  <2>2. Apply(cache[req[r].tab], req[r].op, reply[r]) \in SUBSET ChatMessage
    BY <2>1, ApplyMsgs DEF TypeOK
  <2> QED BY <1>11, <2>1, <2>2, ShowType DEF TypeOK, Receive
<1>12. ASSUME NEW r \in Requests, ReceiveRefusal(r) PROVE TypeOK'
  <2>1. req[r].tab \in Tabs
    BY <1>12 DEF ReceiveRefusal, TypeOK, Request
  <2> QED BY <1>12, <2>1, AskType DEF TypeOK, ReceiveRefusal
<1>13. ASSUME NEW r \in Requests, LoseAnswer(r) PROVE TypeOK'
  <2>1. req[r].tab \in Tabs
    BY <1>13 DEF LoseAnswer, TypeOK, Request
  <2>2. MarkFailed(cache[req[r].tab], req[r].msg.key) \in SUBSET ChatMessage
    BY <2>1, MarkFailedMsgs DEF TypeOK
  <2>3. cache' \in [Tabs -> SUBSET ChatMessage] /\ editor' \in [Tabs -> SUBSET Message]
    BY <1>13, <2>1, <2>2, ShowType DEF LoseAnswer, TypeOK
  <2>4. losses' \in 0..MaxLosses
    BY <1>13, MessageConstants DEF LoseAnswer, Lose, TypeOK
  <2> QED BY <1>13, <2>3, <2>4 DEF TypeOK, LoseAnswer
<1>14. ASSUME NEW t \in Tabs, Refetch(t) PROVE TypeOK'
  BY <1>14, AskType DEF TypeOK, Refetch
<1>15. ASSUME NEW t \in Tabs, List(t) PROVE TypeOK'
  BY <1>15 DEF TypeOK, List
<1>16. ASSUME NEW t \in Tabs, LoadPage(t) PROVE TypeOK'
  <2>1. {Sent(m) : m \in page[t]} \in SUBSET ChatMessage
    BY DEF TypeOK, Sent, ChatMessage
  <2>2. cache' \in [Tabs -> SUBSET ChatMessage] /\ editor' \in [Tabs -> SUBSET Message]
    BY <1>16, <2>1, ShowType DEF LoadPage, TypeOK
  <2> QED BY <1>16, <2>2 DEF TypeOK, LoadPage
<1>17. ASSUME NEW t \in Tabs, LosePage(t) PROVE TypeOK'
  <2>1. losses' \in 0..MaxLosses
    BY <1>17, MessageConstants DEF LosePage, Lose, TypeOK
  <2> QED BY <1>17, <2>1 DEF TypeOK, LosePage
<1>18. ASSUME NEW t \in Tabs, Hear(t) PROVE TypeOK'
  <2>1. Head(inbox[t]) \in Event /\ Tail(inbox[t]) \in Seq(Event)
    BY <1>18 DEF TypeOK, Hear
  <2>2. Apply(cache[t], Head(inbox[t]).type, Head(inbox[t]).msg) \in SUBSET ChatMessage
    BY <2>1, ApplyMsgs DEF TypeOK, Event
  <2>3. cache' \in [Tabs -> SUBSET ChatMessage] /\ editor' \in [Tabs -> SUBSET Message]
    BY <1>18, <2>2, ShowType DEF Hear
  <2> QED BY <1>18, <2>1, <2>3 DEF TypeOK, Hear
<1>19. ASSUME NEW t \in Tabs, Drop(t) \/ Reconnect(t) PROVE TypeOK'
  <2>1. drops' \in 0..MaxDrops
    BY <1>19, MessageConstants DEF Drop, Reconnect, TypeOK
  <2>2. inbox' \in [Tabs -> Seq(Event)] /\ up' \in SUBSET Tabs
    <3>1. <<>> \in Seq(Event)
      OBVIOUS
    <3> QED BY <1>19, <3>1 DEF Drop, Reconnect, TypeOK
  <2> QED BY <1>19, <2>1, <2>2 DEF TypeOK, Drop, Reconnect
<1>20. CASE UNCHANGED vars
  BY <1>20 DEF TypeOK, vars
<1> QED
  BY <1>1, <1>2, <1>3, <1>4, <1>5, <1>6, <1>7, <1>8, <1>9, <1>10, <1>11, <1>12, <1>13,
     <1>14, <1>15, <1>16, <1>17, <1>18, <1>19, <1>20
     DEF Next, UserStep, TabStep, Handle, Answer

-----------------------------------------------------------------------------
(* Copies are moved about, or a newer row is stored.                        *)

LEMMA CopiesTyped == ASSUME TypeOK PROVE Copies \subseteq Message
<1>1. StoredCopies \subseteq Message /\ ReplyCopies \subseteq Message /\ PageCopies \subseteq Message
  BY DEF TypeOK, StoredCopies, ReplyCopies, PageCopies
<1>2. CacheCopies \subseteq Message
  BY DEF TypeOK, CacheCopies, ChatMessage
<1>3. SocketCopies \subseteq Message
  <2> SUFFICES ASSUME NEW t \in Tabs, NEW i \in 1..Len(inbox[t]) PROVE inbox[t][i].msg \in Message
    BY DEF SocketCopies
  <2>1. inbox[t] \in Seq(Event)
    BY DEF TypeOK
  <2>2. inbox[t][i] \in Event
    BY <2>1
  <2> QED BY <2>2 DEF Event
<1> QED BY <1>1, <1>2, <1>3 DEF Copies

LEMMA Moved ==
  ASSUME NotAhead, Agreement, rows' = rows, Copies' \subseteq Copies
  PROVE  NotAhead' /\ Agreement'
BY DEF NotAhead, Agreement, Behind

Newer(row) ==
  \/ row.gen > rows[row.key].gen
  \/ row.gen = rows[row.key].gen /\ row.version > rows[row.key].version

LEMMA Renewed ==
  ASSUME TypeOK, NotAhead, Agreement, NEW row \in Message, Newer(row),
         rows' = [rows EXCEPT ![row.key] = row], Copies' \subseteq Copies \cup {row}
  PROVE  NotAhead' /\ Agreement'
<1>1. Copies \subseteq Message
  BY CopiesTyped
<1>2. \A k \in Keys : rows[k] \in Message
  BY DEF TypeOK
<1>3. rows'[row.key] = row /\ \A k \in Keys : k # row.key => rows'[k] = rows[k]
  BY DEF TypeOK, Message
<1>4. ASSUME NEW m \in Copies PROVE Behind(m)' /\ ~(Id(m) = Id(row) /\ m.version = row.version)
  <2>1. /\ Behind(m) /\ m.key \in Keys /\ m.gen \in Nat /\ m.version \in Nat
        /\ row.gen \in Nat /\ row.version \in Nat
        /\ rows[m.key].gen \in Nat /\ rows[m.key].version \in Nat
    BY <1>1, <1>2, <1>4 DEF NotAhead, Message
  <2>2. CASE m.key # row.key
    BY <1>3, <2>1, <2>2 DEF Behind, Id
  <2>3. CASE m.key = row.key
    BY <1>3, <2>1, <2>3 DEF Behind, Id, Newer
  <2> QED BY <2>2, <2>3
<1>5. Behind(row)'
  BY <1>3 DEF Behind, Message
<1>6. NotAhead'
  BY <1>4, <1>5 DEF NotAhead
<1>7. Agreement'
  <2> SUFFICES ASSUME NEW m \in Copies \cup {row}, NEW n \in Copies \cup {row},
                      Id(m) = Id(n), m.version = n.version
               PROVE  m.text = n.text
    BY DEF Agreement, Id
  <2> QED BY <1>4 DEF Agreement
<1> QED BY <1>6, <1>7

LEMMA ShowCopies ==
  ASSUME TypeOK, NEW t \in Tabs, NEW C, NEW S, Show(t, C),
         \A e \in C : e.msg.gen = 0 \/ e.msg \in S \/ \E f \in cache[t] : e.msg = f.msg
  PROVE  CacheCopies' \subseteq CacheCopies \cup S
<1>1. cache' = [cache EXCEPT ![t] = C]
  BY DEF Show
<1> SUFFICES ASSUME NEW x \in Tabs, NEW e \in cache'[x], e.msg.gen > 0
             PROVE  e.msg \in CacheCopies \cup S
  BY DEF CacheCopies
<1>2. CASE x = t
  <2>1. e \in C
    BY <1>1, <1>2 DEF TypeOK
  <2>2. e.msg.gen # 0
    OBVIOUS
  <2> QED BY <2>1, <2>2 DEF CacheCopies
<1>3. CASE x # t
  BY <1>1, <1>3 DEF TypeOK, CacheCopies
<1> QED BY <1>2, <1>3

LEMMA CommitCopies ==
  ASSUME TypeOK, NEW r \in Requests, NEW row, Commit(r, row)
  PROVE  /\ ReplyCopies' \subseteq ReplyCopies \cup {row}
         /\ SocketCopies' = SocketCopies /\ CacheCopies' = CacheCopies /\ PageCopies' = PageCopies
<1>1. ReplyCopies' \subseteq ReplyCopies \cup {row}
  BY DEF TypeOK, Commit, ReplyCopies
<1> QED BY <1>1 DEF Commit, SocketCopies, CacheCopies, PageCopies, socketVars, tabVars, fetchVars

LEMMA AnswerCopies ==
  ASSUME TypeOK, NEW r \in Requests, pc[r] = "sent", AnswerError(r)
  PROVE  /\ ReplyCopies' = ReplyCopies /\ SocketCopies' = SocketCopies
         /\ CacheCopies' = CacheCopies /\ PageCopies' = PageCopies
<1>1. ReplyCopies' = ReplyCopies
  BY DEF TypeOK, AnswerError, ReplyCopies
<1> QED BY <1>1 DEF AnswerError, SocketCopies, CacheCopies, PageCopies, socketVars, tabVars,
   fetchVars

(* Submitting, refusing, writing, answering and loading only move copies.   *)
LEMMA SubmitCopies ==
  ASSUME TypeOK, NEW t, NEW r \in Requests, NEW m, NEW op,
         Submit(r, t, op, m)
  PROVE  /\ StoredCopies' = StoredCopies /\ ReplyCopies' = ReplyCopies
         /\ SocketCopies' = SocketCopies /\ PageCopies' = PageCopies
         /\ rows' = rows
<1>1. ReplyCopies' = ReplyCopies
  BY DEF TypeOK, Submit, ReplyCopies
<1> QED BY <1>1 DEF Submit, StoredCopies, SocketCopies, PageCopies, serverVars, socketVars,
   fetchVars

LEMMA HearCopies ==
  ASSUME TypeOK, NEW t \in Tabs, inbox[t] # <<>>, inbox' = [inbox EXCEPT ![t] = Tail(@)]
  PROVE  Head(inbox[t]) \in Event /\ Head(inbox[t]).msg \in SocketCopies
         /\ SocketCopies' \subseteq SocketCopies
<1>1. inbox[t] \in Seq(Event) /\ Len(inbox[t]) \in Nat /\ Len(inbox[t]) > 0
  BY DEF TypeOK
<1>2. Head(inbox[t]) = inbox[t][1] /\ 1 \in 1..Len(inbox[t]) /\ Head(inbox[t]) \in Event
  BY <1>1
<1>3. ASSUME NEW i \in 1..Len(Tail(inbox[t]))
      PROVE  i + 1 \in 1..Len(inbox[t]) /\ Tail(inbox[t])[i] = inbox[t][i + 1]
  BY <1>1
<1>4. SocketCopies' \subseteq SocketCopies
  <2> SUFFICES ASSUME NEW x \in Tabs, NEW i \in 1..Len(inbox'[x])
               PROVE  inbox'[x][i].msg \in SocketCopies
    BY DEF SocketCopies
  <2>1. CASE x = t
    <3>1. inbox'[x] = Tail(inbox[t])
      BY <2>1 DEF TypeOK
    <3> QED BY <1>3, <3>1 DEF SocketCopies
  <2>2. CASE x # t
    BY <2>2 DEF TypeOK, SocketCopies
  <2> QED BY <2>1, <2>2
<1> QED BY <1>2, <1>4 DEF SocketCopies

LEMMA WriteCopies ==
  ASSUME TypeOK, NEW r \in Requests, NEW t \in Tabs, Write(r, t)
  PROVE  SocketCopies' \subseteq SocketCopies \cup ReplyCopies
<1> DEFINE ev == [type |-> req[r].op, msg |-> reply[r]]
<1>1. pc[r] = "writing" /\ ev \in Event
  BY DEF TypeOK, Write, Event, Request
<1>2. inbox' = inbox \/ inbox' = [inbox EXCEPT ![t] = Append(@, ev)]
  BY DEF Write
<1>3. reply[r] \in ReplyCopies
  BY <1>1 DEF ReplyCopies
<1> HIDE DEF ev
<1>4. ASSUME NEW x \in Tabs, NEW i \in 1..Len(inbox'[x])
      PROVE  inbox'[x][i].msg \in SocketCopies \cup ReplyCopies
  <2>1. CASE inbox'[x] = inbox[x]
    BY <2>1 DEF SocketCopies
  <2>2. CASE inbox'[x] = Append(inbox[x], ev)
    <3>1. inbox[x] \in Seq(Event)
      BY DEF TypeOK
    <3>2. \/ i \in 1..Len(inbox[x]) /\ inbox'[x][i] = inbox[x][i]
          \/ inbox'[x][i] = ev
      BY <1>1, <2>2, <3>1
    <3> QED BY <1>3, <3>2 DEF SocketCopies, ev
  <2>3. inbox \in [Tabs -> Seq(Event)]
    BY DEF TypeOK
  <2>4. inbox'[x] = inbox[x] \/ inbox'[x] = Append(inbox[x], ev)
    BY <1>2, <2>3
  <2> QED BY <2>1, <2>2, <2>4
<1> DEFINE S == SocketCopies \cup ReplyCopies
<1>5. \A x \in Tabs : \A i \in 1..Len(inbox'[x]) : inbox'[x][i].msg \in S
  BY <1>4
<1> HIDE DEF S
<1>6. SocketCopies' \subseteq S
  BY <1>5 DEF SocketCopies
<1> QED BY <1>6 DEF S

-----------------------------------------------------------------------------
(* What each action does to the copies                                      *)

LEMMA CopiesStep ==
  ASSUME TypeOK, TypeOK', LiveStored, NotAhead, Agreement, [Next]_vars
  PROVE  LiveStored' /\ NotAhead' /\ Agreement'
<1> USE DEF serverVars, requestVars, socketVars, tabVars, fetchVars
<1> DEFINE Steady == /\ rows' = rows /\ live' = live /\ Copies' \subseteq Copies
<1>0. ASSUME Steady PROVE LiveStored' /\ NotAhead' /\ Agreement'
  BY <1>0, Moved DEF LiveStored
<1>1. ASSUME NEW t \in Tabs, NEW r \in Requests,
             Send(t, r) \/ Retry(t, r) \/ SaveEdit(t, r) \/ Delete(t, r)
      PROVE  Steady
  <2>1. /\ StoredCopies' = StoredCopies /\ ReplyCopies' = ReplyCopies
        /\ SocketCopies' = SocketCopies /\ PageCopies' = PageCopies
        /\ rows' = rows /\ live' = live
    <3>1. PICK op, m : Submit(r, t, op, m)
      BY <1>1 DEF Send, Retry, SaveEdit, Delete
    <3>2. live' = live
      BY <3>1 DEF Submit
    <3> QED BY <3>1, <3>2, SubmitCopies
  <2>2. CacheCopies' \subseteq CacheCopies
    <3>1. CASE Send(t, r)
      <4>1. PICK k :
              \/ UNCHANGED tabVars
              \/ Show(t, cache[t] \cup {[msg |-> [key |-> k, gen |-> 0, version |-> 1, text |-> r],
                                         status |-> "pending"]})
        BY <3>1, SendStep
      <4>2. UNCHANGED tabVars => CacheCopies' = CacheCopies
        BY DEF CacheCopies
      <4> QED BY <4>1, <4>2, ShowCopies
    <3>2. CASE Retry(t, r)
      <4>1. PICK e \in cache[t] : Show(t, MarkRetrying(cache[t], e.msg.key))
        BY <3>2 DEF Retry
      <4>2. cache[t] \in SUBSET ChatMessage
        BY DEF TypeOK
      <4> QED BY <4>1, <4>2, ShowCopies, MarkRetryingMsgs
    <3>3. CASE cache' = cache
      BY <3>3 DEF CacheCopies
    <3> QED BY <1>1, <3>1, <3>2, <3>3 DEF SaveEdit, Delete
  <2> QED BY <2>1, <2>2 DEF Copies
<1>2. ASSUME NEW r \in Requests, HandleCreate(r) PROVE LiveStored' /\ NotAhead' /\ Agreement'
  <2> DEFINE k == req[r].msg.key
             row == [key |-> k, gen |-> rows[k].gen + 1, version |-> 1, text |-> req[r].msg.text]
  <2>1. k \in Keys /\ req[r].msg.text \in Requests \cup {Original} /\ rows[k] \in Message
    BY <1>2 DEF HandleCreate, TypeOK, Request, Message
  <2>2. CASE k \in live /\ Commit(r, rows[k]) /\ UNCHANGED serverVars
    <3>1. rows[k] \in StoredCopies
      BY <2>1, <2>2 DEF LiveStored, StoredCopies
    <3>2. StoredCopies' = StoredCopies
      BY <2>2 DEF StoredCopies
    <3>3. Steady
      BY <2>2, <3>1, <3>2, CommitCopies DEF Copies
    <3> QED BY <1>0, <3>3
  <2>3. CASE Commit(r, row) /\ rows' = [rows EXCEPT ![k] = row] /\ live' = live \cup {k}
    <3>1. row \in Message /\ Newer(row) /\ row.key = k /\ row.gen > 0
      BY <2>1 DEF Message, Newer
    <3>2. StoredCopies' \subseteq StoredCopies \cup {row}
      <4>1. \A j \in Keys : rows'[j] = row \/ rows'[j] = rows[j]
        BY <2>3 DEF TypeOK
      <4> HIDE DEF row
      <4> QED BY <4>1 DEF StoredCopies
    <3>3. Copies' \subseteq Copies \cup {row}
      BY <2>3, <3>2, CommitCopies DEF Copies
    <3>4. LiveStored'
      BY <2>3, <3>1 DEF LiveStored, TypeOK
    <3>5. rows' = [rows EXCEPT ![row.key] = row]
      BY <2>3, <3>1
    <3>6. NotAhead /\ Agreement
      BY <1>1
    <3> HIDE DEF row, k
    <3>7. NotAhead' /\ Agreement'
      BY <3>1, <3>3, <3>5, <3>6, Renewed
    <3> QED BY <3>4, <3>7
  <2> QED BY <1>2, <2>2, <2>3 DEF HandleCreate
<1>3. ASSUME NEW r \in Requests, HandleUpdate(r) PROVE LiveStored' /\ NotAhead' /\ Agreement'
  <2> DEFINE m == req[r].msg
             row == Updated(m)
  <2>1. m \in Message
    BY <1>3, UpdateStep
  <2>2. /\ m.key \in live /\ Id(rows[m.key]) = Id(m) /\ rows[m.key].version = m.version
        /\ Commit(r, row) /\ rows' = [rows EXCEPT ![m.key] = row] /\ live' = live
    BY <1>3, UpdateStep
  <2>3. row \in Message /\ Newer(row) /\ row.key = m.key /\ row.gen = rows[m.key].gen
    BY <2>1, <2>2 DEF Updated, Message, Newer, Id
  <2> HIDE DEF m, row
  <2>4. StoredCopies' \subseteq StoredCopies \cup {row}
    BY <2>2, <2>3 DEF StoredCopies, TypeOK
  <2>5. Copies' \subseteq Copies \cup {row}
    BY <2>2, <2>4, CommitCopies DEF Copies
  <2>6. LiveStored'
    BY <2>2, <2>3 DEF LiveStored, TypeOK
  <2> QED BY <2>2, <2>3, <2>5, <2>6, Renewed
<1>4. ASSUME NEW r \in Requests, HandleDelete(r) PROVE LiveStored' /\ NotAhead' /\ Agreement'
  <2> DEFINE k == req[r].msg.key
  <2>1. /\ k \in live /\ live' = live \ {k} /\ rows' = rows
        /\ pc[r] = "sent" /\ (AnswerError(r) \/ Commit(r, rows[k]))
    BY <1>4, DeleteStep
  <2>2. rows[k] \in StoredCopies
    BY <2>1 DEF LiveStored, StoredCopies, TypeOK
  <2>3. StoredCopies' = StoredCopies
    BY <2>1 DEF StoredCopies
  <2>4. Copies' \subseteq Copies
    BY <2>1, <2>2, <2>3, AnswerCopies, CommitCopies DEF Copies
  <2> QED BY <2>1, <2>4, Moved DEF LiveStored
<1>5. ASSUME NEW r \in Requests, Refuse(r) PROVE Steady
  <2>1. pc[r] = "sent" /\ AnswerError(r) /\ rows' = rows /\ live' = live
    BY <1>5 DEF Refuse
  <2> QED BY <2>1, AnswerCopies DEF Copies, StoredCopies
<1>6. ASSUME NEW r \in Requests, NEW t \in Tabs, Write(r, t) PROVE Steady
  BY <1>6, WriteCopies DEF Write, Copies, StoredCopies, ReplyCopies, CacheCopies, PageCopies
<1>7. ASSUME NEW r \in Requests, Receive(r) PROVE Steady
  <2> DEFINE t == req[r].tab
  <2>1. /\ t \in Tabs /\ req[r].op \in {"create", "edit", "delete"}
        /\ reply[r] \in Message /\ reply[r] \in ReplyCopies
    BY <1>7 DEF Receive, TypeOK, Request, ReplyCopies
  <2>2. \A e \in Apply(cache[t], req[r].op, reply[r]) : e = Sent(reply[r]) \/ e \in cache[t]
    BY <2>1, ApplyMsgs DEF TypeOK
  <2>3. Show(t, Apply(cache[t], req[r].op, reply[r])) /\ Sent(reply[r]).msg = reply[r]
    BY <1>7 DEF Receive, Sent
  <2> DEFINE C == Apply(cache[t], req[r].op, reply[r])
             S == {reply[r]}
  <2>4. \A e \in C : e.msg \in S \/ \E f \in cache[t] : e.msg = f.msg
    BY <2>2, <2>3
  <2> HIDE DEF C, S, t
  <2>5. CacheCopies' \subseteq CacheCopies \cup S
    BY <2>1, <2>3, <2>4, ShowCopies DEF C, t
  <2> QED BY <1>7, <2>1, <2>5
          DEF S, Receive, Copies, StoredCopies, ReplyCopies, SocketCopies, PageCopies
<1>8. ASSUME NEW r \in Requests, ReceiveRefusal(r) PROVE Steady
  <2>1. PageCopies' \subseteq PageCopies
    <3>1. \A x \in Tabs : page'[x] \subseteq page[x]
      BY <1>8 DEF ReceiveRefusal, Ask, TypeOK
    <3> QED BY <3>1 DEF PageCopies
  <2> QED BY <1>8, <2>1
          DEF ReceiveRefusal, Copies, StoredCopies, ReplyCopies, SocketCopies, CacheCopies
<1>9. ASSUME NEW r \in Requests, LoseAnswer(r) PROVE Steady
  <2>1. req[r].tab \in Tabs /\ cache[req[r].tab] \in SUBSET ChatMessage
    BY <1>9 DEF LoseAnswer, TypeOK, Request
  <2>2. CacheCopies' \subseteq CacheCopies
    <3>1. CASE cache' = cache
      BY <3>1 DEF CacheCopies
    <3>2. CASE Show(req[r].tab, MarkFailed(cache[req[r].tab], req[r].msg.key))
      BY <2>1, <3>2, ShowCopies, MarkFailedMsgs
    <3> QED BY <1>9, <3>1, <3>2 DEF LoseAnswer
  <2> QED BY <1>9, <2>2
          DEF LoseAnswer, Copies, StoredCopies, ReplyCopies, SocketCopies, PageCopies
<1>10. ASSUME NEW t \in Tabs, List(t) PROVE Steady
  <2>1. page' = [page EXCEPT ![t] = {rows[k] : k \in live}] /\ rows' = rows
    BY <1>10 DEF List
  <2>2. {rows[k] : k \in live} \subseteq StoredCopies
    BY DEF LiveStored, StoredCopies, TypeOK
  <2>3. PageCopies' \subseteq PageCopies \cup StoredCopies
    BY <2>1, <2>2 DEF PageCopies, TypeOK
  <2> QED BY <1>10, <2>3
          DEF List, Copies, StoredCopies, ReplyCopies, SocketCopies, CacheCopies
<1>11. ASSUME NEW t \in Tabs, LoadPage(t) PROVE Steady
  <2>1. CacheCopies' \subseteq CacheCopies \cup page[t]
    <3>1. CASE cache' = cache
      BY <3>1 DEF CacheCopies
    <3>2. CASE Show(t, {Sent(m) : m \in page[t]})
      BY <3>2, ShowCopies DEF Sent
    <3> QED BY <1>11, <3>1, <3>2 DEF LoadPage
  <2>2. page[t] \subseteq PageCopies /\ PageCopies' \subseteq PageCopies
    BY <1>11 DEF LoadPage, PageCopies, TypeOK
  <2> QED BY <1>11, <2>1, <2>2
          DEF LoadPage, Copies, StoredCopies, ReplyCopies, SocketCopies
<1>12. ASSUME NEW t \in Tabs, LosePage(t) \/ Refetch(t) PROVE Steady
  <2>1. PageCopies' \subseteq PageCopies
    <3>1. \A x \in Tabs : page'[x] \subseteq page[x]
      BY <1>12 DEF LosePage, Refetch, Ask, TypeOK
    <3> QED BY <3>1 DEF PageCopies
  <2> QED BY <1>12, <2>1
          DEF LosePage, Refetch, Copies, StoredCopies, ReplyCopies, SocketCopies, CacheCopies
<1>13. ASSUME NEW t \in Tabs, Hear(t) PROVE Steady
  <2> DEFINE ev == Head(inbox[t])
  <2>1. ev \in Event /\ ev.msg \in SocketCopies /\ SocketCopies' \subseteq SocketCopies
    BY <1>13, HearCopies DEF Hear
  <2>2. \A e \in Apply(cache[t], ev.type, ev.msg) : e = Sent(ev.msg) \/ e \in cache[t]
    BY <2>1, ApplyMsgs DEF TypeOK, Event
  <2>3. Show(t, Apply(cache[t], ev.type, ev.msg))
    BY <1>13 DEF Hear
  <2> HIDE DEF ev
  <2> DEFINE C == Apply(cache[t], ev.type, ev.msg)
             S == {ev.msg}
  <2>4. \A e \in C : e.msg \in S \/ \E f \in cache[t] : e.msg = f.msg
    BY <2>2 DEF Sent
  <2> HIDE DEF C, S
  <2>5. CacheCopies' \subseteq CacheCopies \cup S
    BY <2>3, <2>4, ShowCopies DEF C
  <2> QED BY <1>13, <2>1, <2>5 DEF S, Hear, Copies, StoredCopies, ReplyCopies, PageCopies
<1>14. ASSUME NEW t \in Tabs, Drop(t) PROVE Steady
  <2>1. SocketCopies' \subseteq SocketCopies
    <3>1. inbox' = [inbox EXCEPT ![t] = <<>>] /\ inbox \in [Tabs -> Seq(Event)]
      BY <1>14 DEF Drop, TypeOK
    <3>2. ASSUME NEW x \in Tabs, NEW i \in 1..Len(inbox'[x]) PROVE inbox'[x] = inbox[x]
      BY <3>1, <3>2
    <3> QED BY <3>2 DEF SocketCopies
  <2> QED BY <1>14, <2>1 DEF Drop, Copies, StoredCopies, ReplyCopies, CacheCopies, PageCopies
<1>15. CASE \/ UNCHANGED vars
            \/ \E t \in Tabs : OpenEditor(t) \/ CancelEdit(t) \/ Reconnect(t)
  <2>1. /\ rows' = rows /\ live' = live /\ pc' = pc /\ reply' = reply
        /\ inbox' = inbox /\ cache' = cache /\ page' = page
    BY <1>15 DEF vars, OpenEditor, CancelEdit, Reconnect
  <2>2. Steady
    BY <2>1 DEF Copies, StoredCopies, ReplyCopies, SocketCopies, CacheCopies, PageCopies
  <2> QED BY <1>0, <2>2
<1> HIDE DEF Steady
<1> QED
  BY <1>0, <1>1, <1>2, <1>3, <1>4, <1>5, <1>6, <1>7, <1>8, <1>9, <1>10, <1>11, <1>12,
     <1>13, <1>14, <1>15 DEF Next, UserStep, TabStep, Handle, Answer

-----------------------------------------------------------------------------
(* Accepted edits                                                           *)

(* A row is only ever replaced by a newer one.                              *)
LEMMA RowsGrow ==
  ASSUME TypeOK, [Next]_vars, NEW k \in Keys
  PROVE  /\ rows[k].gen <= rows'[k].gen
         /\ rows'[k].gen = rows[k].gen => rows[k].version <= rows'[k].version
<1>0. rows[k] \in Message /\ rows[k].gen \in Nat /\ rows[k].version \in Nat
  BY DEF TypeOK, Message
<1>1. CASE rows' = rows
  BY <1>0, <1>1
<1>2. ASSUME NEW r \in Requests, HandleCreate(r)
      PROVE  rows'[k] = rows[k] \/ rows'[k].gen = rows[k].gen + 1
  <2> DEFINE x == req[r].msg.key
             row == [key |-> x, gen |-> rows[x].gen + 1, version |-> 1, text |-> req[r].msg.text]
  <2>1. rows' = rows \/ rows' = [rows EXCEPT ![x] = row]
    BY <1>2 DEF HandleCreate, serverVars
  <2> QED BY <2>1 DEF TypeOK
<1>3. ASSUME NEW r \in Requests, HandleUpdate(r)
      PROVE  rows'[k] = rows[k] \/ (rows'[k].gen = rows[k].gen /\ rows'[k].version = rows[k].version + 1)
  <2> DEFINE m == req[r].msg
  <2>1. m \in Message
    BY <1>3, UpdateStep
  <2>2. Id(rows[m.key]) = Id(m) /\ rows[m.key].version = m.version
        /\ rows' = [rows EXCEPT ![m.key] = Updated(m)]
    BY <1>3, UpdateStep
  <2> QED BY <1>0, <2>1, <2>2 DEF Updated, Message, Id, TypeOK
<1>4. \/ rows' = rows
      \/ \E r \in Requests : HandleCreate(r) \/ HandleUpdate(r)
  <2>1. ASSUME NEW t \in Tabs, NEW r \in Requests,
               Send(t, r) \/ Retry(t, r) \/ SaveEdit(t, r) \/ Delete(t, r)
        PROVE  rows' = rows
    BY <2>1 DEF Send, Retry, SaveEdit, Delete, Submit, serverVars
  <2>2. \/ rows' = rows
        \/ \E r \in Requests : HandleCreate(r) \/ HandleUpdate(r)
        \/ \E t \in Tabs, r \in Requests :
              Send(t, r) \/ Retry(t, r) \/ SaveEdit(t, r) \/ Delete(t, r)
    BY DEF Next, UserStep, TabStep, Handle, Answer, vars, serverVars, OpenEditor, CancelEdit,
           HandleDelete, Refuse, AnswerError, Write, Receive, ReceiveRefusal, LoseAnswer, Refetch, List,
           LoadPage, LosePage, Hear, Drop, Reconnect
  <2> QED BY <2>1, <2>2
<1> QED BY <1>0, <1>1, <1>2, <1>3, <1>4

(* Only HandleUpdate accepts an edit.                                       *)
LEMMA AcceptedSame ==
  ASSUME TypeOK, [Next]_vars, NEW x \in Requests, pc'[x] = "writing"
  PROVE  /\ req'[x] = req[x]
         /\ \/ pc[x] = "writing" /\ reply'[x] = reply[x]
            \/ HandleCreate(x) \/ HandleUpdate(x) \/ HandleDelete(x)
<1> USE DEF requestVars
<1>1. ASSUME NEW r \in Requests, NEW t, NEW op, NEW m, Submit(r, t, op, m)
      PROVE  pc[x] = "writing" /\ reply'[x] = reply[x] /\ req'[x] = req[x]
  BY <1>1 DEF Submit, TypeOK
<1>2. ASSUME NEW t \in Tabs, NEW r \in Requests,
             Send(t, r) \/ Retry(t, r) \/ SaveEdit(t, r) \/ Delete(t, r)
      PROVE  pc[x] = "writing" /\ reply'[x] = reply[x] /\ req'[x] = req[x]
  BY <1>1, <1>2 DEF Send, Retry, SaveEdit, Delete
<1>3. ASSUME NEW r \in Requests, HandleCreate(r) \/ HandleUpdate(r) \/ HandleDelete(r)
      PROVE  req'[x] = req[x] /\ (r = x \/ (pc[x] = "writing" /\ reply'[x] = reply[x]))
  BY <1>3 DEF HandleCreate, HandleUpdate, HandleDelete, AnswerError, Commit, TypeOK
<1>4. ASSUME NEW r \in Requests, Refuse(r)
      PROVE  pc[x] = "writing" /\ reply'[x] = reply[x] /\ req'[x] = req[x]
  BY <1>4 DEF Refuse, AnswerError, TypeOK
<1>5. CASE pc' = pc /\ reply' = reply /\ req' = req
  BY <1>5
<1>6. \/ pc' = pc /\ reply' = reply /\ req' = req
      \/ \E r \in Requests : Handle(r)
      \/ \E t \in Tabs, r \in Requests : Send(t, r) \/ Retry(t, r) \/ SaveEdit(t, r) \/ Delete(t, r)
  BY DEF Next, UserStep, TabStep, Answer, vars, OpenEditor, CancelEdit, Write, Receive,
         ReceiveRefusal, LoseAnswer, Refetch, List, LoadPage, LosePage, Hear, Drop, Reconnect
<1> QED BY <1>2, <1>3, <1>4, <1>5, <1>6 DEF Handle

LEMMA EditsStep ==
  ASSUME TypeOK, TypeOK', EditsOver, OneWinner, [Next]_vars
  PROVE  EditsOver' /\ OneWinner'
<1>1. ASSUME NEW x \in Accepted("edit")'
      PROVE  /\ x \in Requests /\ req'[x] = req[x] /\ req[x].op = "edit" /\ req[x].msg \in Message
             /\ x \in Accepted("edit") \/ HandleUpdate(x)
  <2>1. x \in Requests /\ pc'[x] = "writing" /\ req'[x].op = "edit" /\ req'[x].msg \in Message
    BY <1>1 DEF Accepted, TypeOK, Request
  <2> QED BY <2>1, AcceptedSame DEF Accepted, HandleCreate, HandleDelete, AnswerError
<1>2. ASSUME NEW x \in Requests, HandleUpdate(x), req[x].msg \in Message
      PROVE  /\ Superseded(req[x].msg)'
             /\ Id(rows[req[x].msg.key]) = Id(req[x].msg)
             /\ rows[req[x].msg.key].version = req[x].msg.version
  <2> DEFINE m == req[x].msg
             row == Updated(m)
  <2>1. /\ Id(rows[m.key]) = Id(m) /\ rows[m.key].version = m.version
        /\ rows' = [rows EXCEPT ![m.key] = row] /\ req' = req
    BY <1>2, UpdateStep DEF Commit
  <2>2. row.gen = m.gen /\ row.version = m.version + 1 /\ rows'[m.key] = row
    BY <1>2, <2>1 DEF Updated, Message, TypeOK
  <2> HIDE DEF row
  <2>3. m.gen \in Nat /\ m.version \in Nat
    BY <1>2 DEF Message
  <2> QED BY <2>1, <2>2, <2>3 DEF Superseded
<1>3. ASSUME NEW m \in Message, Superseded(m)
      PROVE  /\ m.gen <= rows'[m.key].gen
             /\ m.gen = rows'[m.key].gen => m.version < rows'[m.key].version
  <2>1. /\ m.key \in Keys /\ m.gen \in Nat /\ m.version \in Nat
        /\ rows[m.key] \in Message /\ rows'[m.key] \in Message
    BY DEF Message, TypeOK
  <2>2. /\ rows[m.key].gen \in Nat /\ rows[m.key].version \in Nat
        /\ rows'[m.key].gen \in Nat /\ rows'[m.key].version \in Nat
    BY <2>1 DEF Message
  <2> QED BY <1>3, <2>1, <2>2, RowsGrow DEF Superseded
<1>4. EditsOver'
  BY <1>1, <1>2, <1>3 DEF EditsOver, Superseded
<1>5. ASSUME NEW x \in Accepted("edit")', NEW y \in Accepted("edit"), HandleUpdate(x)
      PROVE  ~(Id(req[x].msg) = Id(req[y].msg) /\ req[x].msg.version = req[y].msg.version)
  <2>1. Superseded(req[y].msg) /\ req[y].msg \in Message /\ req[x].msg \in Message
    BY <1>1, <1>5 DEF EditsOver, Accepted, TypeOK, Request
  <2>2. /\ Id(rows[req[x].msg.key]) = Id(req[x].msg)
        /\ rows[req[x].msg.key].version = req[x].msg.version
    BY <1>1, <1>2, <1>5, <2>1
  <2>3. req[y].msg.version \in Nat
    BY <2>1 DEF Message
  <2>4. /\ rows[req[x].msg.key].gen = req[x].msg.gen
        /\ rows[req[x].msg.key].key = req[x].msg.key
        /\ Id(req[x].msg) = Id(req[y].msg) =>
             req[x].msg.gen = req[y].msg.gen /\ req[x].msg.key = req[y].msg.key
    BY <2>2 DEF Id
  <2>5. Id(req[x].msg) = Id(req[y].msg) => req[y].msg.version < rows[req[y].msg.key].version
    BY <2>1, <2>4 DEF Superseded
  <2> QED BY <2>2, <2>3, <2>4, <2>5
<1>6. ASSUME NEW x \in Requests, NEW y \in Requests, HandleUpdate(x), HandleUpdate(y) PROVE x = y
  <2>1. /\ pc' = [pc EXCEPT ![x] = "writing"] /\ pc' = [pc EXCEPT ![y] = "writing"]
        /\ pc[x] = "sent" /\ pc \in [Requests -> {"free", "sent", "writing", "refused"}]
    BY <1>6 DEF HandleUpdate, Commit, TypeOK
  <2>2. x # y => pc'[x] = "sent" /\ pc'[x] = "writing"
    BY <2>1
  <2> QED BY <2>2
<1>7. OneWinner'
  <2> SUFFICES ASSUME NEW x \in Accepted("edit")', NEW y \in Accepted("edit")',
                      Id(req'[x].msg) = Id(req'[y].msg),
                      req'[x].msg.version = req'[y].msg.version
               PROVE  x = y
    BY DEF OneWinner, Id
  <2>1. CASE x \in Accepted("edit") /\ y \in Accepted("edit")
    BY <1>1, <2>1 DEF OneWinner
  <2>2. CASE HandleUpdate(x) /\ y \in Accepted("edit")
    BY <1>1, <1>5, <2>2
  <2>3. CASE HandleUpdate(y) /\ x \in Accepted("edit")
    BY <1>1, <1>5, <2>3
  <2>4. CASE HandleUpdate(x) /\ HandleUpdate(y)
    BY <1>1, <1>6, <2>4
  <2> QED BY <1>1, <2>1, <2>2, <2>3, <2>4
<1> QED BY <1>4, <1>7

-----------------------------------------------------------------------------
(* Messages shown as being sent                                             *)

LEMMA RefusedSame ==
  ASSUME TypeOK, [Next]_vars, NEW x \in Requests, pc'[x] = "refused"
  PROVE  req'[x] = req[x] /\ (pc[x] = "refused" \/ req[x].op # "create")
<1> USE DEF requestVars
<1>1. ASSUME NEW r \in Requests, NEW t, NEW op, NEW m, Submit(r, t, op, m)
      PROVE  req'[x] = req[x] /\ pc[x] = "refused"
  BY <1>1 DEF Submit, TypeOK
<1>2. ASSUME NEW t \in Tabs, NEW r \in Requests,
             Send(t, r) \/ Retry(t, r) \/ SaveEdit(t, r) \/ Delete(t, r)
      PROVE  req'[x] = req[x] /\ pc[x] = "refused"
  BY <1>1, <1>2 DEF Send, Retry, SaveEdit, Delete
<1>3. ASSUME NEW r \in Requests, HandleCreate(r) \/ HandleUpdate(r) \/ HandleDelete(r)
      PROVE  req'[x] = req[x] /\ (pc[x] = "refused" \/ req[x].op # "create")
  BY <1>3 DEF HandleCreate, HandleUpdate, HandleDelete, AnswerError, Commit, TypeOK
<1>4. ASSUME NEW r \in Requests, Refuse(r)
      PROVE  req'[x] = req[x] /\ (pc[x] = "refused" \/ req[x].op # "create")
  BY <1>4 DEF Refuse, AnswerError, TypeOK
<1>5. \/ pc' = pc /\ req' = req
      \/ \E r \in Requests : Handle(r)
      \/ \E t \in Tabs, r \in Requests : Send(t, r) \/ Retry(t, r) \/ SaveEdit(t, r) \/ Delete(t, r)
  BY DEF Next, UserStep, TabStep, Answer, vars, OpenEditor, CancelEdit, Write, Receive,
         ReceiveRefusal, LoseAnswer, Refetch, List, LoadPage, LosePage, Hear, Drop, Reconnect
<1> QED BY <1>2, <1>3, <1>4, <1>5 DEF Handle

LEMMA AnswersStep ==
  ASSUME TypeOK, TypeOK', AnswersAsked, [Next]_vars
  PROVE  AnswersAsked'
<1>1. ASSUME NEW x \in Requests, pc'[x] = "writing" PROVE reply'[x].key = req'[x].msg.key
  <2>1. ASSUME HandleCreate(x) \/ HandleDelete(x) PROVE reply'[x].key = req[x].msg.key
    <3>1. req[x].msg.key \in Keys
      BY <2>1 DEF HandleCreate, HandleDelete, TypeOK, Request, Message
    <3> QED BY <1>1, <2>1, <3>1 DEF HandleCreate, HandleDelete, AnswerError, Commit, TypeOK
  <2>2. ASSUME HandleUpdate(x) PROVE reply'[x].key = req[x].msg.key
    <3>1. req[x].msg \in Message /\ Commit(x, Updated(req[x].msg))
      BY <2>2, UpdateStep
    <3> QED BY <3>1 DEF Updated, Commit, TypeOK, Message
  <2> QED BY <1>1, <2>1, <2>2, AcceptedSame DEF AnswersAsked
<1>2. ASSUME NEW x \in Requests, pc'[x] = "refused" PROVE req'[x].op # "create"
  BY <1>2, RefusedSame DEF AnswersAsked
<1> QED BY <1>1, <1>2 DEF AnswersAsked

Serves(r, t, k) == r \in waiting /\ req[r].op = "create" /\ req[r].tab = t /\ req[r].msg.key = k

LEMMA PendingStep ==
  ASSUME TypeOK, TypeOK', AnswersAsked, PendingHasRequest, [Next]_vars
  PROVE  PendingHasRequest'
<1> USE DEF serverVars, requestVars, socketVars, tabVars, fetchVars
<1> SUFFICES ASSUME NEW x \in Tabs, NEW e \in cache'[x], e.status = "pending"
             PROVE  \E r \in Requests : Serves(r, x, e.msg.key)'
  BY DEF PendingHasRequest, Serves, TypeOK
<1>0. ASSUME NEW f \in cache[x], f.status = "pending"
      PROVE  \E r \in Requests : Serves(r, x, f.msg.key)
  BY <1>0 DEF PendingHasRequest, Serves, TypeOK
<1>1. ASSUME NEW t \in Tabs, NEW q \in Requests, NEW op, NEW m, Submit(q, t, op, m)
      PROVE  /\ \A r \in Requests, k \in Keys : Serves(r, x, k) => Serves(r, x, k)'
             /\ op = "create" => Serves(q, t, m.key)'
  BY <1>1 DEF Submit, Serves, TypeOK
<1>2. e.msg.key \in Keys /\ \A f \in cache[x] : f \in ChatMessage /\ f.msg.key \in Keys
  BY DEF TypeOK, ChatMessage, Message
<1>3. ASSUME NEW t \in Tabs, NEW q \in Requests, Send(t, q)
      PROVE  \E r \in Requests : Serves(r, x, e.msg.key)'
  <2>1. PICK k \in Keys :
          /\ Submit(q, t, "create", [key |-> k, gen |-> 0, version |-> 1, text |-> q])
          /\ \/ UNCHANGED tabVars
             \/ Show(t, cache[t] \cup {[msg |-> [key |-> k, gen |-> 0, version |-> 1, text |-> q],
                                        status |-> "pending"]})
    BY <1>3, SendStep
  <2>2. Serves(q, t, k)'
    BY <1>1, <2>1
  <2>3. e \in cache[x] \/ (x = t /\ e.msg.key = k)
    BY <2>1 DEF Show, TypeOK
  <2> QED BY <1>0, <1>1, <1>2, <2>1, <2>2, <2>3
<1>4. ASSUME NEW t \in Tabs, NEW q \in Requests, Retry(t, q)
      PROVE  \E r \in Requests : Serves(r, x, e.msg.key)'
  <2>1. PICK f \in cache[t] :
          Submit(q, t, "create", f.msg) /\ Show(t, MarkRetrying(cache[t], f.msg.key))
    BY <1>4 DEF Retry
  <2>2. Serves(q, t, f.msg.key)'
    BY <1>1, <2>1
  <2>3. cache[t] \in SUBSET ChatMessage
    BY DEF TypeOK
  <2>4. e \in cache[x] \/ (x = t /\ e \in MarkRetrying(cache[t], f.msg.key))
    BY <2>1 DEF Show, TypeOK
  <2>5. e \in cache[x] \/ (x = t /\ e.msg.key = f.msg.key)
    BY <2>3, <2>4, MarkRetryingMsgs
  <2> QED BY <1>0, <1>1, <1>2, <2>1, <2>2, <2>5
<1>5. ASSUME NEW t \in Tabs, NEW q \in Requests, SaveEdit(t, q) \/ Delete(t, q)
      PROVE  \E r \in Requests : Serves(r, x, e.msg.key)'
  <2>1. (\E op, m : Submit(q, t, op, m)) /\ cache' = cache
    BY <1>5 DEF SaveEdit, Delete
  <2> QED BY <1>0, <1>1, <1>2, <2>1
<1>6. CASE (\A f \in cache'[x] : f.status = "pending" => f \in cache[x])
             /\ waiting' = waiting /\ req' = req
  BY <1>0, <1>6 DEF Serves
<1>7. ASSUME NEW q \in Requests, Receive(q)
      PROVE  \E r \in Requests : Serves(r, x, e.msg.key)'
  <2> DEFINE t == req[q].tab
  <2>1. /\ t \in Tabs /\ req[q].op \in {"create", "edit", "delete"} /\ reply[q] \in Message
        /\ reply[q].key = req[q].msg.key
    BY <1>7 DEF Receive, TypeOK, Request, AnswersAsked
  <2>2. /\ \A f \in Apply(cache[t], req[q].op, reply[q]) : f = Sent(reply[q]) \/ f \in cache[t]
        /\ req[q].op = "create" =>
             \A f \in Apply(cache[t], req[q].op, reply[q]) :
               f.status = "pending" => f.msg.key # reply[q].key
    <3>1. cache[t] \in SUBSET ChatMessage
      BY <2>1 DEF TypeOK
    <3> HIDE DEF t
    <3> QED BY <2>1, <3>1, ApplyMsgs
  <2>3. cache' = [cache EXCEPT ![t] = Apply(cache[t], req[q].op, reply[q])]
        /\ waiting' = waiting \ {q} /\ req' = req
    BY <1>7 DEF Receive, Show
  <2>4. e \in cache[x] /\ ~(x = t /\ req[q].op = "create" /\ e.msg.key = reply[q].key)
    <3>1. CASE x = t
      <4>1. e \in Apply(cache[t], req[q].op, reply[q])
        BY <2>1, <2>3, <3>1 DEF TypeOK
      <4>2. Sent(reply[q]).status # "pending"
        BY DEF Sent
      <4> QED BY <2>2, <3>1, <4>1, <4>2
    <3>2. CASE x # t
      BY <2>1, <2>3, <3>2 DEF TypeOK
    <3> QED BY <3>1, <3>2
  <2>5. PICK r \in Requests : Serves(r, x, e.msg.key)
    BY <1>0, <2>4
  <2>6. r # q
    BY <2>1, <2>4, <2>5 DEF Serves
  <2> QED BY <2>3, <2>5, <2>6 DEF Serves
<1>8. ASSUME NEW q \in Requests, LoseAnswer(q)
      PROVE  \E r \in Requests : Serves(r, x, e.msg.key)'
  <2> DEFINE t == req[q].tab
  <2>1. t \in Tabs /\ cache[t] \in SUBSET ChatMessage /\ waiting' = waiting \ {q} /\ req' = req
    BY <1>8 DEF LoseAnswer, TypeOK, Request
  <2>2. e \in cache[x] /\ ~(x = t /\ req[q].op = "create" /\ e.msg.key = req[q].msg.key)
    <3>1. CASE req[q].op = "create" /\ x = t
      <4>1. cache' = [cache EXCEPT ![t] = MarkFailed(cache[t], req[q].msg.key)]
        BY <1>8, <3>1 DEF LoseAnswer, Show
      <4>2. e \in MarkFailed(cache[t], req[q].msg.key)
        BY <2>1, <3>1, <4>1 DEF TypeOK
      <4> QED BY <2>1, <3>1, <4>2, MarkFailedMsgs
    <3>2. CASE req[q].op # "create" \/ x # t
      <4>1. cache' = cache \/ cache' = [cache EXCEPT ![t] = MarkFailed(cache[t], req[q].msg.key)]
        BY <1>8 DEF LoseAnswer, Show
      <4>2. req[q].op # "create" => cache' = cache
        BY <1>8 DEF LoseAnswer
      <4> QED BY <3>2, <4>1, <4>2 DEF TypeOK
    <3> QED BY <3>1, <3>2
  <2>3. PICK r \in Requests : Serves(r, x, e.msg.key)
    BY <1>0, <2>2
  <2>4. r # q
    BY <2>2, <2>3 DEF Serves
  <2> QED BY <2>1, <2>3, <2>4 DEF Serves
<1>9. ASSUME NEW q \in Requests, ReceiveRefusal(q)
      PROVE  \E r \in Requests : Serves(r, x, e.msg.key)'
  <2>1. waiting' = waiting \ {q} /\ req' = req /\ cache' = cache /\ req[q].op # "create"
    BY <1>9 DEF ReceiveRefusal, AnswersAsked
  <2>2. e \in cache[x]
    BY <2>1
  <2> QED BY <1>0, <2>1, <2>2 DEF Serves
<1>10. ASSUME NEW t \in Tabs, Hear(t)
       PROVE  \A f \in cache'[x] : f.status = "pending" => f \in cache[x]
  <2> DEFINE ev == Head(inbox[t])
  <2>1. ev \in Event
    BY <1>10, HearCopies DEF Hear
  <2>2. \A f \in Apply(cache[t], ev.type, ev.msg) : f = Sent(ev.msg) \/ f \in cache[t]
    BY <2>1, ApplyMsgs DEF TypeOK, Event
  <2>3. cache' = [cache EXCEPT ![t] = Apply(cache[t], ev.type, ev.msg)]
    BY <1>10 DEF Hear, Show
  <2> QED BY <2>2, <2>3 DEF TypeOK, Sent
<1>11. ASSUME NEW t \in Tabs, LoadPage(t)
       PROVE  \A f \in cache'[x] : f.status = "pending" => f \in cache[x]
  <2>1. cache' = cache \/ cache' = [cache EXCEPT ![t] = {Sent(m) : m \in page[t]}]
    BY <1>11 DEF LoadPage, Show
  <2>2. ASSUME NEW f \in {Sent(m) : m \in page[t]} PROVE f.status # "pending"
    BY DEF Sent
  <2> QED BY <2>1, <2>2 DEF TypeOK
<1>12. ASSUME NEW q \in Requests, Handle(q)
       PROVE  cache' = cache /\ waiting' = waiting /\ req' = req
  BY <1>12 DEF Handle, HandleCreate, HandleUpdate, HandleDelete, Refuse, AnswerError, Commit
<1>13. \/ cache' = cache /\ waiting' = waiting /\ req' = req
       \/ \E t \in Tabs, q \in Requests :
             Send(t, q) \/ Retry(t, q) \/ SaveEdit(t, q) \/ Delete(t, q)
       \/ \E q \in Requests : Handle(q) \/ Receive(q) \/ LoseAnswer(q) \/ ReceiveRefusal(q)
       \/ \E t \in Tabs : (Hear(t) \/ LoadPage(t)) /\ waiting' = waiting /\ req' = req
  BY DEF Next, UserStep, TabStep, Answer, vars, OpenEditor, CancelEdit, Write, Refetch, List,
         LosePage, Drop, Reconnect, Hear, LoadPage
<1> QED
  BY <1>3, <1>4, <1>5, <1>6, <1>7, <1>8, <1>9, <1>10, <1>11, <1>12, <1>13

-----------------------------------------------------------------------------
(* The theorems                                                             *)

LEMMA InitIInv == Init => IInv
<1> SUFFICES ASSUME Init PROVE IInv
  OBVIOUS
<1>1. \A k \in Keys : rows[k] \in Message /\ rows[k].key = k /\ rows[k].version = 1
                        /\ rows[k].text = Original
  BY DEF Init, Message
<1>2. TypeOK
  <2>1. \A t \in Tabs : cache[t] \in SUBSET ChatMessage
    BY <1>1, MessageConstants DEF Init, Sent, ChatMessage
  <2>2. <<>> \in Seq(Event)
    OBVIOUS
  <2>3. cache \in [Tabs -> SUBSET ChatMessage] /\ inbox \in [Tabs -> Seq(Event)]
    BY <2>1, <2>2 DEF Init
  <2>4. rows \in [Keys -> Message] /\ live \in SUBSET Keys /\ (\A k \in Keys : rows[k].key = k)
    BY <1>1, MessageConstants DEF Init
  <2>5. fetches \in 0..MaxFetches /\ drops \in 0..MaxDrops /\ losses \in 0..MaxLosses
    BY MessageConstants DEF Init
  <2>6. /\ req \in [Requests -> Request \cup {None}] /\ reply \in [Requests -> Message \cup {None}]
        /\ todo \in [Requests -> SUBSET Tabs] /\ (\A r \in Requests : todo[r] = {} /\ pc[r] = "free")
        /\ pc \in [Requests -> {"free", "sent", "writing", "refused"}] /\ waiting = {}
    BY DEF Init
  <2>7. /\ up \in SUBSET Tabs /\ editor \in [Tabs -> SUBSET Message]
        /\ fetching \in [Tabs -> {"no", "asked", "answered"}] /\ page \in [Tabs -> SUBSET Message]
    BY DEF Init
  <2> QED BY <2>3, <2>4, <2>5, <2>6, <2>7 DEF TypeOK
<1>3. LiveStored
  BY MessageConstants DEF Init, LiveStored
<1>4. Copies \subseteq {rows[k] : k \in Keys}
  <2>1. SocketCopies = {} /\ ReplyCopies = {} /\ PageCopies = {}
    BY DEF Init, SocketCopies, ReplyCopies, PageCopies
  <2>2. CacheCopies \subseteq {rows[k] : k \in Keys}
    <3>1. ASSUME NEW t \in Tabs, NEW e \in cache[t] PROVE e.msg \in {rows[k] : k \in Keys}
      BY MessageConstants DEF Init, Sent
    <3> QED BY <3>1 DEF CacheCopies
  <2> QED BY <2>1, <2>2 DEF Copies, StoredCopies
<1>5. NotAhead /\ Agreement
  BY <1>1, <1>4 DEF NotAhead, Agreement, Behind, Message
<1>6. EditsOver /\ OneWinner /\ AnswersAsked
  BY DEF Init, EditsOver, OneWinner, AnswersAsked, Accepted
<1>7. PendingHasRequest
  BY DEF Init, PendingHasRequest, Sent
<1> QED BY <1>2, <1>3, <1>5, <1>6, <1>7 DEF IInv

(* The invariant that carries the properties below is inductive.            *)
THEOREM Inductive == Spec => []IInv
<1>1. IInv /\ [Next]_vars => IInv'
  BY TypeStep, CopiesStep, EditsStep, AnswersStep, PendingStep DEF IInv
<1> QED BY InitIInv, <1>1, PTL DEF Spec

(* Two copies of a message with the same version have the same text, however*)
(* many tabs, edits, retries, drops and losses there are.                   *)
THEOREM CopiesAgree == Spec => []Agreement
<1>1. IInv => Agreement
  BY DEF IInv
<1> QED BY Inductive, <1>1, PTL

(* The server never accepts two edits of one version of a message.          *)
THEOREM EditsExclusive == Spec => []OneWinner
<1>1. IInv => OneWinner
  BY DEF IInv
<1> QED BY Inductive, <1>1, PTL

(* A message shown as being sent has a request that is still waited for.    *)
THEOREM SpinnerHonest == Spec => []PendingHasRequest
<1>1. IInv => PendingHasRequest
  BY DEF IInv
<1> QED BY Inductive, <1>1, PTL

(* Every variable keeps its type; in particular an event is written only for*)
(* a request that was carried out, never for one that was refused.          *)
THEOREM TypeCorrect == Spec => []TypeOK
<1>1. IInv => TypeOK
  BY DEF IInv
<1> QED BY Inductive, <1>1, PTL

-----------------------------------------------------------------------------
(* Refinement                                                               *)

LEMMA LogStep == TypeOK /\ [Next]_vars => [Log!LogNext]_(Log!logVars)
<1> SUFFICES ASSUME TypeOK, [Next]_vars PROVE Log!LogNext \/ UNCHANGED <<rows, live>>
  BY DEF Log!logVars
<1> USE DEF serverVars
<1>1. ASSUME NEW t \in Tabs, NEW r \in Requests,
             Send(t, r) \/ Retry(t, r) \/ SaveEdit(t, r) \/ Delete(t, r)
      PROVE  UNCHANGED <<rows, live>>
  BY <1>1 DEF Send, Retry, SaveEdit, Delete, Submit
<1>2. ASSUME NEW r \in Requests, HandleCreate(r) PROVE Log!LogNext \/ UNCHANGED <<rows, live>>
  <2> DEFINE k == req[r].msg.key
             text == req[r].msg.text
  <2>1. k \in Keys /\ text \in Requests \cup {Original}
    BY <1>2 DEF HandleCreate, TypeOK, Request, Message
  <2>2. \/ UNCHANGED <<rows, live>>
        \/ /\ k \notin live /\ live' = live \cup {k}
           /\ rows' = [rows EXCEPT ![k] = [key |-> k, gen |-> rows[k].gen + 1,
                                           version |-> 1, text |-> text]]
    BY <1>2 DEF HandleCreate
  <2> HIDE DEF k, text
  <2>3. UNCHANGED <<rows, live>> \/ Log!Post(k, text)
    BY <2>2 DEF Log!Post
  <2> QED BY <2>1, <2>3 DEF Log!LogNext
<1>3. ASSUME NEW r \in Requests, HandleUpdate(r) PROVE Log!LogNext
  <2> DEFINE m == req[r].msg
             k == m.key
  <2>1. /\ m \in Message /\ k \in live /\ live' = live
        /\ rows' = [rows EXCEPT ![k] = [rows[k] EXCEPT !.version = @ + 1, !.text = m.text]]
    BY <1>3, UpdateStep
  <2>2. k \in Keys /\ m.text \in Requests \cup {Original}
    BY <2>1 DEF Message
  <2> HIDE DEF m, k
  <2>3. Log!Revise(k, m.text)
    BY <2>1 DEF Log!Revise
  <2> QED BY <2>2, <2>3 DEF Log!LogNext
<1>4. ASSUME NEW r \in Requests, HandleDelete(r) PROVE Log!LogNext
  BY <1>4 DEF HandleDelete, AnswerError, Stored, TypeOK, Log!Remove, Log!LogNext
<1>5. \/ UNCHANGED <<rows, live>>
      \/ \E r \in Requests : HandleCreate(r) \/ HandleUpdate(r) \/ HandleDelete(r)
      \/ \E t \in Tabs, r \in Requests :
            Send(t, r) \/ Retry(t, r) \/ SaveEdit(t, r) \/ Delete(t, r)
  BY DEF Next, UserStep, TabStep, Handle, Answer, vars, OpenEditor, CancelEdit, Refuse,
     AnswerError, Write, Receive, ReceiveRefusal, LoseAnswer, Refetch, List, LoadPage, LosePage,
     Hear, Drop, Reconnect
<1> QED BY <1>1, <1>2, <1>3, <1>4, <1>5

(* The messages table implements the message log.                           *)
THEOREM TableImplementsLog == Spec => ImplementsLog
<1>1. Init => Log!LogInit
  BY MessageConstants DEF Init, Log!LogInit
<1>2. TypeOK /\ [Next]_vars => [Log!LogNext]_(Log!logVars)
  BY LogStep
<1>3. IInv => TypeOK
  BY DEF IInv
<1> QED BY Inductive, <1>1, <1>2, <1>3, PTL DEF Spec, ImplementsLog, Log!LogSpec

-----------------------------------------------------------------------------
(* While no answer is lost.  A key is then sent once, so that its rows have *)
(* one generation, and a tab's bubble for it is a placeholder of gen 0 or a *)
(* confirmed message of gen 1.                                              *)

Answer1(r) == [type |-> req[r].op, msg |-> reply[r]]
Answers == {Answer1(r) : r \in {x \in Requests : pc[x] = "writing"}}

(* The events on their way to tab t.                                        *)
Coming(t) ==
  {Answer1(r) : r \in {x \in Requests : pc[x] = "writing" /\ t \in todo[x]}}
    \cup {inbox[t][i] : i \in 1..Len(inbox[t])}

Creating(r, k) == pc[r] # "free" /\ req[r].op = "create" /\ req[r].msg.key = k

HeardAnswers == \A t \in Tabs : \A i \in 1..Len(inbox[t]) : inbox[t][i] \in Answers
FreshRequests == \A r \in Requests : pc[r] = "free" => req[r] = None
RealAnswers == \A m \in ReplyCopies \cup PageCopies : m.gen > 0

OneGeneration == \A k \in Keys : rows[k].gen <= 1
OneCreate ==
  \A k \in Keys, r \in Requests : Creating(r, k) =>
    /\ pc[r] = "sent" => rows[k].gen = 0
    /\ \A q \in Requests : Creating(q, k) => q = r
OnePerKey(messages) == \A e, f \in messages : e.msg.key = f.msg.key => e = f
Tidy(messages) ==
  /\ messages \in SUBSET ChatMessage /\ OnePerKey(messages)
  /\ \A e \in messages : \/ e.status = "pending" /\ e.msg.gen = 0
                         \/ e.status = "sent" /\ e.msg.gen = 1
Bubbles ==
  \A t \in Tabs :
    /\ Tidy(cache[t])
    /\ \A e \in cache[t] : e.status = "pending" => \E r \in Requests : Creating(r, e.msg.key)
PagesTidy == \A t \in Tabs : \A m, n \in page[t] : m.key = n.key => m = n
DeletedGone == \A a \in Answers : a.type = "delete" => a.msg.key \notin live

Orderly ==
  losses = 0 =>
    OneGeneration /\ OneCreate /\ Bubbles /\ PagesTidy /\ DeletedGone

(* While no socket is lost either and nothing is fetched, what a tab does   *)
(* not show yet is on its way to it.                                        *)
Shown(t, k) ==
  \/ Sent(rows[k]) \in cache[t]
  \/ [type |-> "create", msg |-> rows[k]] \in Coming(t)
  \/ /\ [type |-> "edit", msg |-> rows[k]] \in Coming(t)
     /\ \E e \in cache[t] : Id(e.msg) = Id(rows[k])

Removed(t, k) ==
  (\E e \in cache[t] : e.msg.key = k /\ e.status = "sent") =>
    \E a \in Coming(t) : a.type = "delete" /\ a.msg.key = k

(* Nobody is told of a clip that is deleted: it may stay, as it was stored. *)
Gone(t, k) == Removed(t, k) \/ (k \in Clips /\ Shown(t, k))

CreatedStays(k) ==
  \A a \in Answers : a.type = "create" /\ a.msg.key = k => k \in live /\ rows[k] = a.msg

Undisturbed == losses = 0 /\ drops = 0 /\ fetches = 0

Settling ==
  Undisturbed =>
    /\ up = Tabs /\ \A t \in Tabs : fetching[t] = "no"
    /\ \A k \in Keys : ~Overtaken(k) =>
         /\ CreatedStays(k)
         /\ \A t \in Tabs : (k \in live => Shown(t, k)) /\ (k \notin live => Gone(t, k))

LEMMA Calm ==
  ASSUME TypeOK, [Next]_vars, losses' = 0
  PROVE  losses = 0 /\ ~Lose
<1>1. losses \in Nat
  BY MessageConstants DEF TypeOK
<1>2. ASSUME NEW t \in Tabs, UserStep(t) PROVE losses' = losses
  <2>1. ASSUME NEW r \in Requests, NEW op, NEW m, Submit(r, t, op, m) PROVE losses' = losses
    BY <2>1 DEF Submit
  <2> QED BY <1>2, <2>1 DEF UserStep, OpenEditor, CancelEdit, Send, Retry, SaveEdit, Delete
<1>3. ASSUME NEW t \in Tabs, TabStep(t) \/ Refetch(t) \/ LosePage(t) \/ Drop(t) \/ Reconnect(t)
      PROVE  losses' = losses \/ Lose
  BY <1>3 DEF TabStep, Refetch, List, LoadPage, LosePage, Hear, Drop, Reconnect
<1>4. ASSUME NEW r \in Requests, Handle(r) PROVE losses' = losses \/ Lose
  BY <1>4 DEF Handle, HandleCreate, HandleUpdate, HandleDelete, Commit, Refuse, AnswerError
<1>5. ASSUME NEW r \in Requests, Answer(r) \/ LoseAnswer(r) PROVE losses' = losses \/ Lose
  BY <1>5 DEF Answer, Write, Receive, ReceiveRefusal, LoseAnswer
<1>6. losses' = losses \/ Lose
  BY <1>2, <1>3, <1>4, <1>5 DEF Next, vars
<1> QED BY <1>1, <1>6 DEF Lose

LEMMA SubmitTracks ==
  ASSUME TypeOK, NEW t, NEW r \in Requests, NEW m, NEW op, Submit(r, t, op, m)
  PROVE  /\ Answers' = Answers /\ \A x \in Tabs : Coming(x)' = Coming(x)
         /\ UNCHANGED <<rows, live, inbox, page, up, fetching, fetches, drops>>
         /\ pc'[r] = "sent" /\ req'[r].op = op /\ req'[r].msg = m /\ req'[r] # None
         /\ \A q \in Requests \ {r} : pc'[q] = pc[q] /\ req'[q] = req[q]
<1>1. /\ UNCHANGED <<rows, live, inbox, page, up, fetching, fetches, drops, reply, todo>>
      /\ pc[r] = "free" /\ pc'[r] = "sent" /\ req'[r] = [op |-> op, tab |-> t, msg |-> m]
      /\ \A q \in Requests \ {r} : pc'[q] = pc[q] /\ req'[q] = req[q]
  BY DEF Submit, TypeOK, serverVars, socketVars, fetchVars
<1>2. \A q \in Requests : /\ pc'[q] = "writing" <=> pc[q] = "writing"
                          /\ pc[q] = "writing" => Answer1(q)' = Answer1(q)
  BY <1>1 DEF Answer1
<1>3. Answers' = Answers
  BY <1>2 DEF Answers
<1>4. \A x \in Tabs : Coming(x)' = Coming(x)
  BY <1>1, <1>2 DEF Coming
<1>5. req'[r] # None
  BY <1>1 DEF None
<1> QED BY <1>1, <1>3, <1>4, <1>5

LEMMA CommitTracks ==
  ASSUME TypeOK, NEW r \in Requests, NEW row, pc[r] = "sent", Commit(r, row)
  PROVE  LET a == [type |-> req[r].op, msg |-> row] IN
         /\ Answers' = Answers \cup {a}
         /\ ~Lose => \A x \in Tabs : Coming(x)' = Coming(x) \cup {a}
         /\ UNCHANGED <<req, inbox, cache, page, up, fetching, fetches, drops>>
         /\ pc'[r] = "writing" /\ \A q \in Requests \ {r} : pc'[q] = pc[q]
<1> DEFINE a == [type |-> req[r].op, msg |-> row]
<1>1. /\ UNCHANGED <<req, inbox, cache, page, up, fetching, fetches, drops>>
      /\ pc'[r] = "writing" /\ \A q \in Requests \ {r} : pc'[q] = pc[q] /\ reply'[q] = reply[q]
      /\ reply'[r] = row
  BY DEF Commit, TypeOK, socketVars, tabVars, fetchVars
<1>2. Answer1(r)' = a /\ \A q \in Requests \ {r} : Answer1(q)' = Answer1(q)
  BY <1>1 DEF Answer1
<1> HIDE DEF a
<1>3. Answers' = Answers \cup {a}
  BY <1>1, <1>2 DEF Answers
<1>4. ASSUME ~Lose, NEW x \in Tabs PROVE Coming(x)' = Coming(x) \cup {a}
  <2>1. todo'[r] = Tabs /\ \A q \in Requests \ {r} : todo'[q] = todo[q]
    BY <1>4 DEF Commit, TypeOK
  <2>2. {Answer1(q)' : q \in {y \in Requests : pc'[y] = "writing" /\ x \in todo'[y]}}
          = {Answer1(q) : q \in {y \in Requests : pc[y] = "writing" /\ x \in todo[y]}} \cup {a}
    BY <1>1, <1>2, <2>1
  <2> QED BY <1>1, <2>2 DEF Coming
<1> QED BY <1>1, <1>3, <1>4 DEF a

LEMMA WriteTracks ==
  ASSUME TypeOK, NEW r \in Requests, NEW t \in Tabs, Write(r, t)
  PROVE  /\ Answers' = Answers /\ Answer1(r) \in Answers
         /\ up = Tabs => \A x \in Tabs : Coming(x) \subseteq Coming(x)'
         /\ \A x \in Tabs : \A i \in 1..Len(inbox'[x]) :
              inbox'[x][i] = Answer1(r) \/ \E j \in 1..Len(inbox[x]) : inbox'[x][i] = inbox[x][j]
<1>1. /\ pc[r] = "writing" /\ pc' = pc /\ req' = req /\ reply' = reply
      /\ todo' = [todo EXCEPT ![r] = @ \ {t}]
  BY DEF TypeOK, Write
<1>2. Answers' = Answers /\ Answer1(r) \in Answers /\ \A q \in Requests : Answer1(q)' = Answer1(q)
  BY <1>1 DEF Answers, Answer1
<1> DEFINE a == Answer1(r)
<1>3. \A x \in Tabs : inbox[x] \in Seq(Event)
  BY DEF TypeOK
<1>4. a \in Event
  BY <1>1 DEF Answer1, Event, Request, TypeOK
<1>5. /\ inbox' = inbox \/ inbox' = [inbox EXCEPT ![t] = Append(@, a)]
      /\ up = Tabs => inbox' = [inbox EXCEPT ![t] = Append(@, a)]
  BY DEF Write, Answer1
<1> HIDE DEF a
<1>6. \A x \in Tabs : /\ inbox'[x] = inbox[x] \/ inbox'[x] = Append(inbox[x], a)
                      /\ up = Tabs => /\ x = t => inbox'[x] = Append(inbox[x], a)
                                      /\ x # t => inbox'[x] = inbox[x]
  BY <1>5 DEF TypeOK
<1>7. ASSUME NEW x \in Tabs, inbox'[x] = Append(inbox[x], a)
      PROVE  /\ \A i \in 1..Len(inbox'[x]) :
                  inbox'[x][i] = a \/ \E j \in 1..Len(inbox[x]) : inbox'[x][i] = inbox[x][j]
             /\ \A j \in 1..Len(inbox[x]) : \E i \in 1..Len(inbox'[x]) : inbox'[x][i] = inbox[x][j]
             /\ \E i \in 1..Len(inbox'[x]) : inbox'[x][i] = a
  <2>1. inbox[x] \in Seq(Event) /\ Len(inbox[x]) \in Nat /\ Len(inbox'[x]) = Len(inbox[x]) + 1
    BY <1>3, <1>4, <1>7
  <2>2. \A i \in 1..Len(inbox[x]) : inbox'[x][i] = inbox[x][i]
    BY <1>3, <1>4, <1>7
  <2>3. inbox'[x][Len(inbox[x]) + 1] = a
    BY <1>3, <1>4, <1>7
  <2>4. \A i \in 1..Len(inbox'[x]) : i \in 1..Len(inbox[x]) \/ i = Len(inbox[x]) + 1
    BY <2>1
  <2>5. Len(inbox[x]) + 1 \in 1..Len(inbox'[x]) /\ 1..Len(inbox[x]) \subseteq 1..Len(inbox'[x])
    BY <2>1
  <2> QED BY <2>2, <2>3, <2>4, <2>5
<1>8. ASSUME up = Tabs, NEW x \in Tabs, NEW e \in Coming(x) PROVE e \in Coming(x)'
  <2>1. CASE \E j \in 1..Len(inbox[x]) : e = inbox[x][j]
    <3>1. \E i \in 1..Len(inbox'[x]) : e = inbox'[x][i]
      BY <1>6, <1>7, <2>1
    <3> QED BY <3>1 DEF Coming
  <2>2. ASSUME NEW q \in Requests, pc[q] = "writing", x \in todo[q], e = Answer1(q)
        PROVE  e \in Coming(x)'
    <3>1. CASE q = r /\ x = t
      <4>1. \E i \in 1..Len(inbox'[x]) : inbox'[x][i] = a
        BY <1>6, <1>7, <1>8, <3>1
      <4> QED BY <2>2, <3>1, <4>1 DEF Coming, a
    <3>2. CASE ~(q = r /\ x = t)
      <4>1. x \in todo'[q]
        BY <1>1, <2>2, <3>2 DEF TypeOK
      <4> QED BY <1>1, <1>2, <2>2, <4>1 DEF Coming
    <3> QED BY <3>1, <3>2
  <2> QED BY <2>1, <2>2 DEF Coming
<1> QED BY <1>2, <1>6, <1>7, <1>8 DEF a

LEMMA HearTracks ==
  ASSUME TypeOK, NEW t \in Tabs, Hear(t)
  PROVE  LET a == Head(inbox[t]) IN
         /\ Answers' = Answers
         /\ \A x \in Tabs : Coming(x) \subseteq Coming(x)' \cup (IF x = t THEN {a} ELSE {})
         /\ \E i \in 1..Len(inbox[t]) : a = inbox[t][i]
         /\ \A x \in Tabs : \A i \in 1..Len(inbox'[x]) :
              \E j \in 1..Len(inbox[x]) : inbox'[x][i] = inbox[x][j]
<1>1. /\ pc' = pc /\ req' = req /\ reply' = reply /\ todo' = todo
      /\ inbox[t] # <<>> /\ inbox' = [inbox EXCEPT ![t] = Tail(@)]
  BY DEF Hear, requestVars
<1>2. Answers' = Answers /\ \A q \in Requests : Answer1(q)' = Answer1(q)
  BY <1>1 DEF Answers, Answer1
<1>3. inbox[t] \in Seq(Event) /\ Len(inbox[t]) \in Nat /\ Len(inbox[t]) > 0
  BY <1>1 DEF TypeOK
<1>4. inbox'[t] = Tail(inbox[t]) /\ \A x \in Tabs \ {t} : inbox'[x] = inbox[x]
  BY <1>1 DEF TypeOK
<1>5. Head(inbox[t]) = inbox[t][1] /\ 1 \in 1..Len(inbox[t])
  BY <1>3
<1>6. Len(inbox'[t]) = Len(inbox[t]) - 1
        /\ \A i \in 1..Len(inbox'[t]) : i + 1 \in 1..Len(inbox[t]) /\ inbox'[t][i] = inbox[t][i + 1]
  BY <1>3, <1>4
<1>7. \A j \in 1..Len(inbox[t]) : j = 1 \/ (j - 1 \in 1..Len(inbox'[t])
                                             /\ inbox[t][j] = inbox'[t][j - 1])
  BY <1>3, <1>6
<1>8. ASSUME NEW x \in Tabs, NEW e \in Coming(x)
      PROVE  e \in Coming(x)' \/ (x = t /\ e = Head(inbox[t]))
  <2>1. ASSUME NEW j \in 1..Len(inbox[x]), e = inbox[x][j]
        PROVE  e \in Coming(x)' \/ (x = t /\ e = Head(inbox[t]))
    <3>1. CASE x = t
      BY <1>5, <1>7, <2>1, <3>1 DEF Coming
    <3>2. CASE x # t
      BY <1>4, <2>1, <3>2 DEF Coming
    <3> QED BY <3>1, <3>2
  <2>2. ASSUME NEW q \in Requests, pc[q] = "writing", x \in todo[q], e = Answer1(q)
        PROVE  e \in Coming(x)'
    BY <1>1, <1>2, <2>2 DEF Coming
  <2> QED BY <2>1, <2>2 DEF Coming
<1>9. \A x \in Tabs : Coming(x) \subseteq Coming(x)' \cup (IF x = t THEN {Head(inbox[t])} ELSE {})
  BY <1>8
<1>10. \A x \in Tabs : \A i \in 1..Len(inbox'[x]) :
         \E j \in 1..Len(inbox[x]) : inbox'[x][i] = inbox[x][j]
  BY <1>4, <1>6
<1> QED BY <1>2, <1>5, <1>9, <1>10

(* Every other step leaves the answers and the events alone.                *)
RequestMove(r) == Refuse(r) \/ Receive(r) \/ ReceiveRefusal(r) \/ LoseAnswer(r)
TabMove(t) ==
  \/ OpenEditor(t) \/ CancelEdit(t) \/ Reconnect(t)
  \/ Refetch(t) \/ List(t) \/ LoadPage(t) \/ LosePage(t)
OtherMove ==
  (\E r \in Requests : RequestMove(r)) \/ (\E t \in Tabs : TabMove(t)) \/ UNCHANGED vars

LEMMA OtherTracks ==
  ASSUME TypeOK, OtherMove
  PROVE  /\ Answers' = Answers /\ \A x \in Tabs : Coming(x)' = Coming(x)
         /\ UNCHANGED <<rows, live, req, inbox>>
         /\ \A q \in Requests : /\ pc'[q] = "free" <=> pc[q] = "free"
                                /\ pc'[q] = "writing" <=> pc[q] = "writing"
                                /\ pc'[q] = "sent" => pc[q] = "sent"
<1>1. /\ UNCHANGED <<rows, live, req, inbox, reply, todo>>
      /\ \A q \in Requests : /\ pc'[q] = "free" <=> pc[q] = "free"
                             /\ pc'[q] = "writing" <=> pc[q] = "writing"
                             /\ pc'[q] = "sent" => pc[q] = "sent"
  <2>1. ASSUME NEW r \in Requests, Refuse(r)
        PROVE  /\ UNCHANGED <<rows, live, req, inbox, reply, todo>>
               /\ \A q \in Requests : /\ pc'[q] = "free" <=> pc[q] = "free"
                                      /\ pc'[q] = "writing" <=> pc[q] = "writing"
                                      /\ pc'[q] = "sent" => pc[q] = "sent"
    BY <2>1 DEF Refuse, AnswerError, serverVars, socketVars, TypeOK
  <2>2. ASSUME \A r \in Requests : ~Refuse(r)
        PROVE  UNCHANGED <<rows, live, req, inbox, reply, todo, pc>>
    BY <2>2 DEF OtherMove, RequestMove, TabMove, Receive, ReceiveRefusal, LoseAnswer, OpenEditor,
       CancelEdit, Refetch, List, LoadPage, LosePage, Reconnect, vars, serverVars, requestVars,
       socketVars
  <2> QED BY <2>1, <2>2
<1>2. \A q \in Requests : Answer1(q)' = Answer1(q)
  BY <1>1 DEF Answer1
<1>3. Answers' = Answers
  BY <1>1, <1>2 DEF Answers
<1>4. \A x \in Tabs : Coming(x)' = Coming(x)
  BY <1>1, <1>2 DEF Coming
<1> QED BY <1>1, <1>3, <1>4

(* The deletion of a clip ends its request and changes no answer.           *)
LEMMA ClipTracks ==
  ASSUME TypeOK, NEW r \in Requests, pc[r] = "sent", AnswerError(r)
  PROVE  /\ Answers' = Answers /\ \A x \in Tabs : Coming(x)' = Coming(x)
         /\ UNCHANGED <<req, inbox, cache, page, up, fetching>>
         /\ \A q \in Requests : /\ pc'[q] = "free" <=> pc[q] = "free"
                                /\ pc'[q] = "sent" => pc[q] = "sent"
<1>1. /\ UNCHANGED <<req, reply, todo, inbox, cache, page, up, fetching>>
      /\ \A q \in Requests : /\ pc'[q] = "free" <=> pc[q] = "free"
                             /\ pc'[q] = "writing" <=> pc[q] = "writing"
                             /\ pc'[q] = "sent" => pc[q] = "sent"
  BY DEF AnswerError, TypeOK, socketVars, tabVars, fetchVars
<1>2. \A q \in Requests : Answer1(q)' = Answer1(q)
  BY <1>1 DEF Answer1
<1>3. Answers' = Answers
  BY <1>1, <1>2 DEF Answers
<1>4. \A x \in Tabs : Coming(x)' = Coming(x)
  BY <1>1, <1>2 DEF Coming
<1> QED BY <1>1, <1>3, <1>4

LEMMA DropTracks ==
  ASSUME TypeOK, NEW t \in Tabs, Drop(t)
  PROVE  /\ Answers' = Answers /\ UNCHANGED <<rows, live, pc, req, cache, page>>
         /\ \A x \in Tabs : inbox'[x] = inbox[x] \/ inbox'[x] = <<>>
<1>1. UNCHANGED <<rows, live, pc, req, cache, page, reply>> /\ inbox' = [inbox EXCEPT ![t] = <<>>]
  BY DEF Drop, serverVars, requestVars, tabVars, fetchVars
<1>2. Answers' = Answers
  BY <1>1 DEF Answers, Answer1
<1> QED BY <1>1, <1>2 DEF TypeOK

LEMMA UserSubmits ==
  ASSUME NEW t \in Tabs, UserStep(t)
  PROVE  \/ OpenEditor(t) \/ CancelEdit(t)
         \/ \E r \in Requests : \E op, m : Submit(r, t, op, m)
BY DEF UserStep, Send, Retry, SaveEdit, Delete

(* A handler that answers no error commits a row under the key it was asked *)
(* about.                                                                   *)
LEMMA HandleCommits ==
  ASSUME TypeOK, LiveStored, NEW r \in Requests, Handle(r)
  PROVE  \/ Refuse(r)
         \/ pc[r] = "sent" /\ AnswerError(r)
         \/ \E row \in Message :
              /\ pc[r] = "sent" /\ Commit(r, row) /\ row.gen > 0 /\ row.key = req[r].msg.key
              /\ rows' = rows \/ rows' = [rows EXCEPT ![row.key] = row]
<1>1. CASE HandleCreate(r)
  <2> DEFINE k == req[r].msg.key
             row == [key |-> k, gen |-> rows[k].gen + 1, version |-> 1, text |-> req[r].msg.text]
  <2>1. pc[r] = "sent" /\ k \in Keys /\ row \in Message /\ rows[k] \in Message /\ rows[k].key = k
    BY <1>1 DEF HandleCreate, TypeOK, Request, Message
  <2>2. rows[k].gen \in Nat
    BY <2>1 DEF Message
  <2>3. CASE k \in live /\ Commit(r, rows[k]) /\ UNCHANGED serverVars
    <3>1. rows[k].gen > 0
      BY <2>3 DEF LiveStored
    <3> QED BY <2>1, <2>3, <3>1 DEF serverVars
  <2>4. CASE Commit(r, row) /\ rows' = [rows EXCEPT ![k] = row]
    <3>1. row.gen > 0 /\ row.key = k
      BY <2>2
    <3> QED BY <2>1, <2>4, <3>1
  <2> QED BY <1>1, <2>3, <2>4 DEF HandleCreate
<1>2. CASE HandleUpdate(r)
  <2> DEFINE m == req[r].msg
  <2>1. /\ pc[r] = "sent" /\ m \in Message /\ m.key \in live /\ Id(rows[m.key]) = Id(m)
        /\ Updated(m) \in Message /\ Commit(r, Updated(m))
        /\ rows' = [rows EXCEPT ![m.key] = Updated(m)]
    BY <1>2, UpdateStep
  <2>2. Updated(m).key = m.key /\ Updated(m).gen = m.gen
    BY <2>1 DEF Updated, Message
  <2>3. rows[m.key].gen > 0 /\ m.gen = rows[m.key].gen
    BY <2>1 DEF LiveStored, Id
  <2> QED BY <2>1, <2>2, <2>3
<1>3. CASE HandleDelete(r)
  <2> DEFINE k == req[r].msg.key
  <2>1. pc[r] = "sent" /\ k \in live /\ rows' = rows /\ (AnswerError(r) \/ Commit(r, rows[k]))
    BY <1>3, DeleteStep
  <2>2. rows[k] \in Message /\ rows[k].key = k /\ rows[k].gen > 0
    BY <2>1 DEF TypeOK, LiveStored
  <2> QED BY <2>1, <2>2
<1> QED BY <1>1, <1>2, <1>3 DEF Handle

General == HeardAnswers /\ FreshRequests /\ RealAnswers

LEMMA GeneralStep ==
  ASSUME TypeOK, LiveStored, General, [Next]_vars
  PROVE  General'
<1>1. ASSUME NEW a \in Answers PROVE a.msg \in ReplyCopies /\ a.msg.gen > 0
  BY DEF General, RealAnswers, Answers, Answer1, ReplyCopies
<1>2. ASSUME Answers \subseteq Answers', \A x \in Tabs : inbox'[x] = inbox[x] \/ inbox'[x] = <<>>
      PROVE  HeardAnswers'
  BY <1>2 DEF General, HeardAnswers
<1>3. ASSUME \A a \in Answers' : a \in Answers \/ a.msg.gen > 0,
             \A m \in PageCopies' : m \in PageCopies \/ m.gen > 0
      PROVE  RealAnswers'
  <2>1. ASSUME NEW m \in ReplyCopies' PROVE m.gen > 0
    <3>1. PICK r \in Requests : pc'[r] = "writing" /\ m = reply'[r]
      BY DEF ReplyCopies
    <3>2. Answer1(r)' \in Answers' /\ Answer1(r)'.msg = m
      BY <3>1 DEF Answers, Answer1
    <3> QED BY <1>1, <1>3, <3>2
  <2> QED BY <1>3, <2>1 DEF General, RealAnswers
<1>4. ASSUME NEW t \in Tabs, NEW r \in Requests, NEW op, NEW m, Submit(r, t, op, m) PROVE General'
  <2>1. HeardAnswers' /\ RealAnswers'
    BY <1>2, <1>3, <1>4, SubmitTracks DEF PageCopies
  <2>2. FreshRequests'
    BY <1>4, SubmitTracks DEF General, FreshRequests
  <2> QED BY <2>1, <2>2 DEF General
<1>5. ASSUME NEW r \in Requests, NEW row \in Message, pc[r] = "sent", Commit(r, row), row.gen > 0
      PROVE  General'
  <2> DEFINE a == [type |-> req[r].op, msg |-> row]
  <2>1. /\ Answers' = Answers \cup {a} /\ UNCHANGED <<req, inbox, page>>
        /\ pc'[r] = "writing" /\ \A q \in Requests \ {r} : pc'[q] = pc[q]
    BY <1>5, CommitTracks
  <2>2. a.msg = row
    OBVIOUS
  <2> HIDE DEF a
  <2>3. HeardAnswers' /\ RealAnswers'
    BY <1>2, <1>3, <1>5, <2>1, <2>2 DEF PageCopies
  <2>4. FreshRequests'
    BY <2>1 DEF General, FreshRequests
  <2> QED BY <2>3, <2>4 DEF General
<1>6. ASSUME NEW t \in Tabs, (\E r \in Requests : Write(r, t)) \/ Hear(t) PROVE General'
  <2>1. Answers' = Answers /\ page' = page /\ req' = req /\ pc' = pc
    BY <1>6, WriteTracks, HearTracks DEF Write, Hear, requestVars, fetchVars
  <2>2. HeardAnswers'
    BY <1>6, <2>1, WriteTracks, HearTracks DEF General, HeardAnswers
  <2> QED BY <1>3, <2>1, <2>2 DEF General, FreshRequests, PageCopies
<1>7. ASSUME OtherMove PROVE General'
  <2>1. /\ Answers' = Answers /\ UNCHANGED <<rows, live, req, inbox>>
        /\ \A q \in Requests : pc'[q] = "free" <=> pc[q] = "free"
    BY <1>7, OtherTracks
  <2>2. HeardAnswers' /\ FreshRequests'
    BY <1>2, <2>1 DEF General, FreshRequests
  <2>3. ASSUME NEW x \in Tabs, NEW m \in page'[x] PROVE m \in page[x] \/ m.gen > 0
    <3>1. ASSUME NEW t \in Tabs, List(t) PROVE m \in page[x] \/ m.gen > 0
      <4>1. page'[x] = page[x] \/ page'[x] = {rows[k] : k \in live}
        BY <3>1 DEF List, TypeOK
      <4> QED BY <4>1 DEF LiveStored
    <3>2. ASSUME NEW t \in Tabs, LoadPage(t) \/ LosePage(t) \/ Refetch(t) PROVE m \in page[x]
      BY <3>2 DEF LoadPage, LosePage, Refetch, Ask, TypeOK, fetchVars
    <3>3. ASSUME NEW r \in Requests, ReceiveRefusal(r) PROVE m \in page[x]
      BY <3>3 DEF ReceiveRefusal, Ask, TypeOK, fetchVars, Request
    <3>4. CASE page' = page
      BY <3>4
    <3>5. \/ page' = page
          \/ \E t \in Tabs : List(t) \/ LoadPage(t) \/ LosePage(t) \/ Refetch(t)
          \/ \E r \in Requests : ReceiveRefusal(r)
      BY <1>7 DEF OtherMove, RequestMove, TabMove, Refuse, AnswerError, Receive, LoseAnswer,
         OpenEditor, CancelEdit, Reconnect, vars, fetchVars
    <3> QED BY <3>1, <3>2, <3>3, <3>4, <3>5
  <2>4. RealAnswers'
    BY <1>3, <2>1, <2>3 DEF PageCopies
  <2> QED BY <2>2, <2>4 DEF General
<1>8. ASSUME NEW t \in Tabs, Drop(t) PROVE General'
  BY <1>2, <1>3, <1>8, DropTracks DEF General, FreshRequests, PageCopies
<1>9. ASSUME NEW r \in Requests, Handle(r) PROVE General'
  <2>1. CASE pc[r] = "sent" /\ AnswerError(r)
    <3>1. /\ Answers' = Answers /\ UNCHANGED <<req, inbox, page>>
          /\ \A q \in Requests : pc'[q] = "free" <=> pc[q] = "free"
      BY <2>1, ClipTracks
    <3> QED BY <1>2, <1>3, <3>1 DEF General, FreshRequests, PageCopies
  <2> QED BY <1>5, <1>7, <1>9, <2>1, HandleCommits DEF OtherMove, RequestMove
<1>10. ASSUME NEW t \in Tabs, UserStep(t) PROVE General'
  BY <1>4, <1>7, <1>10, UserSubmits DEF OtherMove, TabMove
<1>11. ASSUME NEW t \in Tabs, TabStep(t) \/ Refetch(t) \/ LosePage(t) \/ Drop(t) \/ Reconnect(t)
       PROVE  General'
  <2>1. Hear(t) \/ Drop(t) \/ OtherMove
    BY <1>11 DEF TabStep, OtherMove, TabMove
  <2> QED BY <1>6, <1>7, <1>8, <2>1
<1>12. ASSUME NEW r \in Requests, Answer(r) \/ LoseAnswer(r) PROVE General'
  <2>1. (\E t \in Tabs : Write(r, t)) \/ OtherMove
    BY <1>12 DEF Answer, OtherMove, RequestMove
  <2> QED BY <1>6, <1>7, <2>1
<1> QED BY <1>7, <1>9, <1>10, <1>11, <1>12 DEF Next, OtherMove

(* The cache functions, on a tab's messages of one generation.              *)
LEMMA TidyCreate ==
  ASSUME NEW C, Tidy(C), NEW m \in Message, m.gen = 1
  PROVE  LET D == Apply(C, "create", m) IN
         /\ Sent(m) \in D
         /\ \A e \in D : e = Sent(m) \/ (e \in C /\ e.msg.key # m.key)
         /\ \A e \in C : e.msg.key # m.key => e \in D
<1>1. ASSUME NEW e \in C, ~(e.status = "pending" /\ e.msg.key = m.key), Id(e.msg) # Id(m)
      PROVE  e.msg.key # m.key
  BY <1>1 DEF Tidy, Id
<1> QED BY <1>1 DEF Apply, InsertOrReconcile, Id

LEMMA TidyEdit ==
  ASSUME NEW C, Tidy(C), NEW m \in Message, m.gen = 1
  PROVE  LET D == Apply(C, "edit", m) IN
         /\ \A e \in D : e \in C \/ (e = Sent(m) /\ \E f \in C : Id(f.msg) = Id(m))
         /\ \A e \in D : \E f \in C : e.status = f.status /\ Id(e.msg) = Id(f.msg)
         /\ \A e \in C : \/ e \in D
                         \/ Id(e.msg) = Id(m) /\ m.version >= e.msg.version /\ Sent(m) \in D
         /\ \A e \in C : Id(e.msg) = Id(m) /\ m.version >= e.msg.version => Sent(m) \in D
<1>1. Sent(m).status = "sent" /\ Sent(m).msg = m
  BY DEF Sent
<1>2. ASSUME NEW e \in C, Id(e.msg) = Id(m) PROVE e.status = "sent"
  BY <1>2 DEF Tidy, Id
<1> QED BY <1>1, <1>2 DEF Apply, ReplaceIfNewer

LEMMA TidyDelete ==
  ASSUME NEW C, NEW m
  PROVE  Apply(C, "delete", m) = {e \in C : Id(e.msg) # Id(m)}
BY DEF Apply, RemoveById

LEMMA TidyStays ==
  ASSUME NEW C, Tidy(C), NEW m \in Message, m.gen = 1, NEW type \in {"create", "edit", "delete"}
  PROVE  Tidy(Apply(C, type, m))
<1> DEFINE D == Apply(C, type, m)
<1>1. D \in SUBSET ChatMessage
  BY ApplyMsgs DEF Tidy
<1>2. Sent(m).status = "sent" /\ Sent(m).msg = m
  BY DEF Sent
<1>3. CASE type = "create"
  <2>1. \A e \in D : e = Sent(m) \/ (e \in C /\ e.msg.key # m.key)
    BY <1>3, TidyCreate
  <2> HIDE DEF D
  <2> QED BY <1>1, <1>2, <2>1 DEF Tidy, OnePerKey, D
<1>4. CASE type = "edit"
  <2> DEFINE New(e) == IF Id(e.msg) = Id(m) /\ m.version >= e.msg.version THEN Sent(m) ELSE e
  <2>1. D = {New(e) : e \in C}
    BY <1>4 DEF Apply, ReplaceIfNewer
  <2>2. \A e \in C : New(e).msg.key = e.msg.key /\ (New(e) = e \/ New(e) = Sent(m))
    BY <1>2 DEF Id
  <2> HIDE DEF New
  <2>3. OnePerKey(D)
    <3> SUFFICES ASSUME NEW e \in C, NEW f \in C, New(e).msg.key = New(f).msg.key
                 PROVE  New(e) = New(f)
      BY <2>1 DEF OnePerKey
    <3>1. e = f
      BY <2>2 DEF Tidy, OnePerKey
    <3> QED BY <3>1
  <2> QED BY <1>1, <1>2, <2>1, <2>2, <2>3 DEF Tidy
<1>5. CASE type = "delete"
  <2>1. D \subseteq C
    BY <1>5, TidyDelete
  <2> HIDE DEF D
  <2> QED BY <1>1, <2>1 DEF Tidy, OnePerKey, D
<1> QED BY <1>3, <1>4, <1>5

LEMMA AnswerFacts ==
  ASSUME IInv, General, OneGeneration, NEW a \in Answers
  PROVE  /\ a.msg \in Message /\ a.msg.key \in Keys /\ a.msg.gen = 1 /\ rows[a.msg.key].gen = 1
         /\ a.type \in {"create", "edit", "delete"}
         /\ \E r \in Requests : /\ pc[r] = "writing" /\ req[r] # None
                                /\ req[r].op = a.type /\ req[r].msg.key = a.msg.key
<1>1. PICK r \in Requests : pc[r] = "writing" /\ a = Answer1(r)
  BY DEF Answers
<1>2. /\ a.type = req[r].op /\ a.msg = reply[r] /\ a.msg \in Message /\ req[r] \in Request
      /\ req[r].msg.key = a.msg.key
  BY <1>1 DEF Answer1, IInv, TypeOK, AnswersAsked
<1>3. a.msg \in ReplyCopies
  BY <1>1, <1>2 DEF ReplyCopies
<1>4. a.msg.gen > 0 /\ a.msg.gen <= rows[a.msg.key].gen
  BY <1>3 DEF General, RealAnswers, IInv, NotAhead, Behind, Copies
<1>5. a.msg.key \in Keys /\ a.msg.gen \in Nat /\ rows[a.msg.key].gen \in Nat
        /\ rows[a.msg.key].gen <= 1
  BY <1>2 DEF Message, IInv, TypeOK, OneGeneration
<1>6. req[r].op \in {"create", "edit", "delete"} /\ req[r] # None
  BY <1>2 DEF Request, None
<1> QED BY <1>1, <1>2, <1>4, <1>5, <1>6

(* A confirmed message of a tab is stored, and not ahead.                   *)
LEMMA ShownFacts ==
  ASSUME IInv, NEW t \in Tabs, NEW e \in cache[t], e.msg.gen = 1
  PROVE  /\ e.msg \in Copies /\ e.msg \in Message /\ Behind(e.msg) /\ e.msg.key \in Keys
         /\ rows[e.msg.key].gen >= 1
<1>1. e.msg \in Message
  BY DEF IInv, TypeOK, ChatMessage
<1>2. e.msg \in CacheCopies
  BY <1>1 DEF CacheCopies
<1>3. e.msg \in Copies /\ Behind(e.msg)
  BY <1>2 DEF Copies, IInv, NotAhead
<1> QED BY <1>1, <1>3 DEF Behind, Message

(* Whatever a tab is given came with an answer or an event.                 *)
Applies(t, a) == Show(t, Apply(cache[t], a.type, a.msg))

LEMMA AppliesAnswer ==
  ASSUME TypeOK, General
  PROVE  /\ \A r \in Requests : Receive(r) =>
              req[r].tab \in Tabs /\ Answer1(r) \in Answers /\ Applies(req[r].tab, Answer1(r))
         /\ \A t \in Tabs : Hear(t) => Head(inbox[t]) \in Answers /\ Applies(t, Head(inbox[t]))
<1>1. ASSUME NEW r \in Requests, Receive(r)
      PROVE  req[r].tab \in Tabs /\ Answer1(r) \in Answers /\ Applies(req[r].tab, Answer1(r))
  BY <1>1 DEF Receive, TypeOK, Request, Answers, Answer1, Applies
<1>2. ASSUME NEW t \in Tabs, Hear(t)
      PROVE  Head(inbox[t]) \in Answers /\ Applies(t, Head(inbox[t]))
  BY <1>2, HearTracks DEF Hear, Applies, General, HeardAnswers
<1> QED BY <1>1, <1>2

LEMMA OrderlyStep ==
  ASSUME IInv, TypeOK', General, General', Orderly, [Next]_vars
  PROVE  Orderly'
<1> SUFFICES ASSUME losses' = 0
             PROVE  OneGeneration' /\ OneCreate' /\ Bubbles' /\ PagesTidy' /\ DeletedGone'
  BY DEF Orderly
<1>1. /\ OneGeneration /\ OneCreate /\ Bubbles /\ PagesTidy /\ DeletedGone /\ ~Lose
      /\ TypeOK /\ LiveStored /\ losses = 0
  BY Calm DEF IInv, Orderly
<1> DEFINE Good == OneGeneration' /\ OneCreate' /\ Bubbles' /\ PagesTidy' /\ DeletedGone'
           SameTable == UNCHANGED <<rows, live>> /\ Answers' = Answers
           SameRequests == /\ req' = req
                           /\ \A q \in Requests : /\ pc'[q] = "free" <=> pc[q] = "free"
                                                  /\ pc'[q] = "sent" => pc[q] = "sent"
           NoSpinner == \A x \in Tabs :
             Tidy(cache'[x]) /\ \A e \in cache'[x] : e.status = "pending" => e \in cache[x]
           SamePages == \A x \in Tabs : page'[x] \subseteq page[x]
<1>2. ASSUME SameTable, SameRequests, NoSpinner, SamePages PROVE Good
  <2>1. \A q \in Requests, k \in Keys : Creating(q, k)' <=> Creating(q, k)
    BY <1>2 DEF Creating
  <2>2. OneGeneration' /\ DeletedGone'
    BY <1>1, <1>2 DEF OneGeneration, DeletedGone
  <2>3. OneCreate'
    BY <1>1, <1>2, <2>1 DEF OneCreate
  <2>4. \A x \in Tabs : \A e \in cache[x] : e.msg.key \in Keys
    BY <1>1 DEF TypeOK, ChatMessage, Message
  <2>5. Bubbles'
    BY <1>1, <1>2, <2>1, <2>4 DEF Bubbles
  <2>6. PagesTidy'
    BY <1>1, <1>2 DEF PagesTidy
  <2> QED BY <2>2, <2>3, <2>5, <2>6
<1>3. ASSUME cache' = cache PROVE NoSpinner
  BY <1>1, <1>3 DEF Bubbles
<1>4. ASSUME NEW t \in Tabs, NEW C, Tidy(C), \A e \in C : e.status = "pending" => e \in cache[t],
             Show(t, C)
      PROVE  NoSpinner
  <2>1. \A x \in Tabs : cache'[x] = (IF x = t THEN C ELSE cache[x])
    BY <1>1, <1>4 DEF Show, TypeOK
  <2> QED BY <1>1, <1>4, <2>1 DEF Bubbles
<1>5. ASSUME NEW t \in Tabs, NEW a \in Answers, Applies(t, a) PROVE NoSpinner
  <2>1. a.msg \in Message /\ a.msg.gen = 1 /\ a.type \in {"create", "edit", "delete"}
    BY <1>1, AnswerFacts
  <2>2. Tidy(cache[t]) /\ cache[t] \in SUBSET ChatMessage
    BY <1>1 DEF Bubbles, TypeOK
  <2>3. Tidy(Apply(cache[t], a.type, a.msg))
    BY <2>1, <2>2, TidyStays
  <2>4. \A e \in Apply(cache[t], a.type, a.msg) : e = Sent(a.msg) \/ e \in cache[t]
    BY <2>1, <2>2, ApplyMsgs
  <2>5. Sent(a.msg).status # "pending"
    BY DEF Sent
  <2> DEFINE C == Apply(cache[t], a.type, a.msg)
  <2>6. Show(t, C) /\ Tidy(C) /\ \A e \in C : e.status = "pending" => e \in cache[t]
    BY <1>5, <2>3, <2>4, <2>5 DEF Applies
  <2> HIDE DEF C
  <2> QED BY <1>4, <2>6
<1>6. ASSUME NEW t \in Tabs, NEW r \in Requests, Send(t, r) PROVE Good
  <2> DEFINE m(k) == [key |-> k, gen |-> 0, version |-> 1, text |-> r]
             b(k) == [msg |-> m(k), status |-> "pending"]
  <2>1. PICK k \in Keys :
          /\ rows[k].gen = 0 /\ \A q \in Requests : pc[q] # "free" => req[q].msg.key # k
          /\ Submit(r, t, "create", m(k))
          /\ UNCHANGED tabVars \/ Show(t, cache[t] \cup {b(k)})
    BY <1>6, SendStep
  <2>2. /\ SameTable /\ page' = page /\ pc'[r] = "sent" /\ req'[r].op = "create"
        /\ req'[r].msg = m(k)
        /\ \A q \in Requests \ {r} : pc'[q] = pc[q] /\ req'[q] = req[q]
    <3>1. Submit(r, t, "create", m(k)) /\ TypeOK
      BY <1>1, <2>1
    <3> HIDE DEF m
    <3> QED BY <3>1, SubmitTracks
  <2>3. \A j \in Keys, q \in Requests :
          /\ q # r => (Creating(q, j)' <=> Creating(q, j))
          /\ Creating(r, j)' <=> j = k
          /\ ~Creating(q, k)
    BY <2>1, <2>2 DEF Creating
  <2>4. pc[r] = "free"
    BY <2>1 DEF Submit
  <2>5. \A j \in Keys : ~Creating(r, j)
    BY <2>4 DEF Creating
  <2>6. OneGeneration' /\ DeletedGone' /\ PagesTidy'
    BY <1>1, <2>2 DEF OneGeneration, DeletedGone, PagesTidy
  <2>7. OneCreate'
    BY <1>1, <2>1, <2>2, <2>3 DEF OneCreate
  <2>8. \A e \in cache[t] : e.msg.key # k
    <3> SUFFICES ASSUME NEW e \in cache[t], e.msg.key = k PROVE FALSE
      OBVIOUS
    <3>1. e.status = "pending" \/ e.msg.gen = 1
      BY <1>1 DEF Bubbles, Tidy
    <3>2. CASE e.status = "pending"
      BY <1>1, <2>3, <3>2 DEF Bubbles
    <3>3. CASE e.msg.gen = 1
      BY <2>1, <3>3, ShownFacts
    <3> QED BY <3>1, <3>2, <3>3
  <2>9. b(k) \in ChatMessage /\ b(k).status = "pending" /\ b(k).msg.gen = 0 /\ b(k).msg.key = k
    BY DEF ChatMessage, Message
  <2>10. \A x \in Tabs : \/ cache'[x] = cache[x]
                         \/ x = t /\ cache'[x] = cache[t] \cup {b(k)}
    BY <1>1, <2>1 DEF Show, TypeOK, tabVars
  <2> HIDE DEF b
  <2>11. Tidy(cache[t] \cup {b(k)})
    BY <1>1, <2>8, <2>9 DEF Bubbles, Tidy, OnePerKey
  <2>12. ASSUME NEW x \in Tabs, NEW e \in cache'[x], e.status = "pending"
         PROVE  \E q \in Requests : Creating(q, e.msg.key)'
    <3>1. CASE e \in cache[x]
      <4>1. PICK q \in Requests : Creating(q, e.msg.key)
        BY <1>1, <2>12, <3>1 DEF Bubbles
      <4>2. e.msg.key \in Keys
        BY <1>1, <3>1 DEF TypeOK, ChatMessage, Message
      <4> QED BY <2>3, <2>5, <4>1, <4>2
    <3>2. CASE e = b(k)
      BY <2>3, <2>9, <3>2
    <3> QED BY <2>10, <3>1, <3>2
  <2>13. Bubbles'
    BY <1>1, <2>10, <2>11, <2>12 DEF Bubbles
  <2> QED BY <2>6, <2>7, <2>13
<1>7. ASSUME NEW t \in Tabs, NEW r \in Requests, Retry(t, r) PROVE FALSE
  BY <1>1, <1>7 DEF Retry, Bubbles, Tidy
<1>8. ASSUME NEW t \in Tabs, NEW r \in Requests, SaveEdit(t, r) \/ Delete(t, r) PROVE Good
  <2>0. PICK op \in {"edit", "delete"} : \E m : Submit(r, t, op, m)
    BY <1>8 DEF SaveEdit, Delete
  <2>1. PICK m : Submit(r, t, op, m)
    BY <2>0
  <2>2. /\ SameTable /\ page' = page /\ pc'[r] = "sent" /\ req'[r].op = op
        /\ \A q \in Requests \ {r} : pc'[q] = pc[q] /\ req'[q] = req[q]
    BY <1>1, <2>1, SubmitTracks
  <2>3. cache' = cache /\ pc[r] = "free"
    BY <1>8, <2>1 DEF SaveEdit, Delete, Submit, tabVars
  <2>4. \A q \in Requests : \A k : Creating(q, k)' <=> Creating(q, k)
    BY <2>2, <2>3 DEF Creating
  <2>5. OneGeneration' /\ DeletedGone' /\ PagesTidy'
    BY <1>1, <2>2 DEF OneGeneration, DeletedGone, PagesTidy
  <2>6. \A k : ~Creating(r, k)
    BY <2>3 DEF Creating
  <2>7. OneCreate'
    BY <1>1, <2>2, <2>4, <2>6 DEF OneCreate
  <2>8. Bubbles'
    BY <1>1, <2>3, <2>4 DEF Bubbles
  <2> QED BY <2>5, <2>7, <2>8
<1>9. ASSUME NEW r \in Requests, NEW row \in Message, pc[r] = "sent", Commit(r, row),
             row.gen = 1, row.key = req[r].msg.key,
             \A k \in Keys : rows'[k] = IF k = row.key THEN row ELSE rows[k],
             req[r].op = "delete" => row.key \notin live',
             IF req[r].op = "create"
               THEN rows[row.key].gen = 0 /\ live' = live \cup {row.key}
               ELSE rows[row.key].gen = 1 /\ live' \subseteq live
      PROVE  Good
  <2> DEFINE a == [type |-> req[r].op, msg |-> row]
  <2>1. /\ Answers' = Answers \cup {a} /\ UNCHANGED <<req, cache, page>>
        /\ pc'[r] = "writing" /\ \A q \in Requests \ {r} : pc'[q] = pc[q]
    BY <1>1, <1>9, CommitTracks
  <2>2. \A q \in Requests : \A k : Creating(q, k)' <=> Creating(q, k)
    BY <1>9, <2>1 DEF Creating
  <2>3. OneGeneration'
    BY <1>1, <1>9 DEF OneGeneration
  <2>4. ASSUME NEW k \in Keys, NEW q \in Requests, Creating(q, k), pc'[q] = "sent"
        PROVE  rows'[k].gen = 0
    <3>1. q # r /\ pc[q] = "sent" /\ rows[k].gen = 0
      BY <1>1, <2>1, <2>4 DEF OneCreate
    <3>2. CASE k = row.key
      <4>1. req[r].op # "create"
        BY <1>1, <1>9, <2>4, <3>1, <3>2 DEF OneCreate, Creating
      <4> QED BY <1>9, <3>1, <3>2, <4>1
    <3>3. CASE k # row.key
      BY <1>9, <3>1, <3>3
    <3> QED BY <3>2, <3>3
  <2>5. OneCreate'
    BY <1>1, <2>2, <2>4 DEF OneCreate
  <2>6. Bubbles' /\ PagesTidy'
    BY <1>1, <2>1, <2>2 DEF Bubbles, PagesTidy
  <2>7. ASSUME NEW c \in Answers', c.type = "delete" PROVE c.msg.key \notin live'
    <3>1. CASE c = a
      BY <1>9, <2>7, <3>1
    <3>2. CASE c \in Answers
      <4>1. c.msg.key \notin live /\ rows[c.msg.key].gen = 1
        BY <1>1, <2>7, <3>2, AnswerFacts DEF DeletedGone
      <4> QED BY <1>9, <4>1
    <3> QED BY <2>1, <3>1, <3>2
  <2> QED BY <2>3, <2>5, <2>6, <2>7 DEF DeletedGone
<1>10. ASSUME NEW r \in Requests, HandleCreate(r) PROVE Good
  <2> DEFINE k == req[r].msg.key
             row == [key |-> k, gen |-> rows[k].gen + 1, version |-> 1, text |-> req[r].msg.text]
  <2>1. /\ pc[r] = "sent" /\ req[r].op = "create" /\ k \in Keys /\ rows[k] \in Message
        /\ req[r].msg.text \in Requests \cup {Original}
    BY <1>1, <1>10 DEF HandleCreate, TypeOK, Request, Message
  <2>2. rows[k].gen = 0 /\ k \notin live
    <3>1. Creating(r, k)
      BY <2>1 DEF Creating
    <3> QED BY <1>1, <2>1, <3>1 DEF OneCreate, LiveStored
  <2>3. Commit(r, row) /\ rows' = [rows EXCEPT ![k] = row] /\ live' = live \cup {k}
    BY <1>10, <2>2 DEF HandleCreate
  <2>4. row \in Message /\ row.gen = 1 /\ row.key = k
    BY <2>1, <2>2 DEF Message
  <2>5. \A j \in Keys : rows'[j] = IF j = k THEN row ELSE rows[j]
    BY <1>1, <2>3 DEF TypeOK
  <2> HIDE DEF row
  <2> QED BY <1>9, <2>1, <2>2, <2>3, <2>4, <2>5
<1>11. ASSUME NEW r \in Requests, HandleUpdate(r) PROVE Good
  <2> DEFINE m == req[r].msg
             row == Updated(m)
  <2>1. /\ pc[r] = "sent" /\ req[r].op = "edit" /\ m \in Message /\ m.key \in live
        /\ Id(rows[m.key]) = Id(m) /\ row \in Message /\ Commit(r, row)
        /\ rows' = [rows EXCEPT ![m.key] = row] /\ live' = live
    BY <1>1, <1>11, UpdateStep
  <2>2. row.key = m.key /\ row.gen = m.gen /\ m.key \in Keys
    BY <2>1 DEF Updated, Message
  <2>3. rows[m.key].gen = 1
    BY <1>1, <2>1, <2>2 DEF LiveStored, OneGeneration, TypeOK, Message
  <2>4. row.gen = 1
    BY <2>1, <2>2, <2>3 DEF Id
  <2>5. \A j \in Keys : rows'[j] = IF j = row.key THEN row ELSE rows[j]
    BY <1>1, <2>1, <2>2 DEF TypeOK
  <2> HIDE DEF row
  <2> QED BY <1>9, <2>1, <2>2, <2>3, <2>4, <2>5
<1>12. ASSUME NEW r \in Requests, HandleDelete(r) PROVE Good
  <2> DEFINE k == req[r].msg.key
  <2>1. /\ pc[r] = "sent" /\ req[r].op = "delete" /\ k \in live
        /\ rows' = rows /\ live' = live \ {k} /\ k \in Keys
        /\ AnswerError(r) \/ Commit(r, rows[k])
    BY <1>1, <1>12, DeleteStep DEF TypeOK
  <2>2. rows[k] \in Message /\ rows[k].key = k /\ rows[k].gen = 1
    BY <1>1, <2>1 DEF LiveStored, OneGeneration, TypeOK, Message
  <2>3. \A j \in Keys : rows'[j] = IF j = k THEN rows[k] ELSE rows[j]
    BY <2>1
  <2>4. CASE Commit(r, rows[k])
    BY <1>9, <2>1, <2>2, <2>3, <2>4
  <2>5. CASE AnswerError(r)
    <3>1. /\ Answers' = Answers /\ UNCHANGED <<rows, req, cache, page>>
          /\ \A q \in Requests : /\ pc'[q] = "free" <=> pc[q] = "free"
                                 /\ pc'[q] = "sent" => pc[q] = "sent"
      BY <1>1, <2>1, <2>5, ClipTracks
    <3>2. \A q \in Requests : \A j : Creating(q, j)' <=> Creating(q, j)
      BY <3>1 DEF Creating
    <3>3. OneGeneration' /\ OneCreate'
      BY <1>1, <3>1, <3>2 DEF OneGeneration, OneCreate
    <3>4. Bubbles' /\ PagesTidy'
      BY <1>1, <3>1, <3>2 DEF Bubbles, PagesTidy
    <3>5. DeletedGone'
      BY <1>1, <2>1, <3>1 DEF DeletedGone
    <3> QED BY <3>3, <3>4, <3>5
  <2> QED BY <2>1, <2>4, <2>5
<1>13. ASSUME NEW r \in Requests, NEW t \in Tabs, Write(r, t) PROVE Good
  <2>1. Answers' = Answers
    BY <1>1, <1>13, WriteTracks
  <2>2. UNCHANGED <<rows, live, req, pc, page, cache>>
    BY <1>13 DEF Write, serverVars, tabVars, fetchVars
  <2> QED BY <1>2, <1>3, <2>1, <2>2
<1>14. ASSUME NEW t \in Tabs, Hear(t) PROVE Good
  <2>1. Answers' = Answers
    BY <1>1, <1>14, HearTracks
  <2>2. UNCHANGED <<rows, live, req, pc, page>>
    BY <1>14 DEF Hear, serverVars, requestVars, fetchVars
  <2>3. NoSpinner
    BY <1>1, <1>5, <1>14, AppliesAnswer
  <2> HIDE DEF NoSpinner
  <2> QED BY <1>2, <2>1, <2>2, <2>3
<1>15. ASSUME NEW t \in Tabs, Drop(t) PROVE Good
  <2>1. Answers' = Answers /\ UNCHANGED <<rows, live, pc, req, cache, page>>
    BY <1>1, <1>15, DropTracks
  <2> QED BY <1>2, <1>3, <2>1
<1>16. ASSUME OtherMove PROVE SameTable /\ SameRequests
  BY <1>1, <1>16, OtherTracks
<1>17. ASSUME NEW r \in Requests, Receive(r) PROVE Good
  <2>1. page' = page /\ NoSpinner
    BY <1>1, <1>5, <1>17, AppliesAnswer DEF Receive, fetchVars
  <2>2. SameTable /\ SameRequests
    BY <1>16, <1>17 DEF OtherMove, RequestMove
  <2> HIDE DEF NoSpinner
  <2> QED BY <1>2, <2>1, <2>2
<1>18. ASSUME NEW t \in Tabs, LoadPage(t) PROVE Good
  <2>1. SameTable /\ SameRequests
    BY <1>16, <1>18 DEF OtherMove, TabMove
  <2>2. SamePages
    BY <1>1, <1>18 DEF LoadPage, TypeOK
  <2>3. NoSpinner
    <3> DEFINE C == {Sent(m) : m \in page[t]}
    <3>1. \A m \in page[t] : m \in Message /\ m.gen = 1
      <4> SUFFICES ASSUME NEW m \in page[t] PROVE m \in Message /\ m.gen = 1
        OBVIOUS
      <4>1. m \in Message /\ m \in PageCopies
        BY <1>1 DEF TypeOK, PageCopies
      <4>2. m.gen > 0 /\ m.gen <= rows[m.key].gen /\ rows[m.key].gen <= 1
        BY <1>1, <4>1 DEF General, RealAnswers, IInv, NotAhead, Behind, Copies, OneGeneration,
           Message
      <4>3. m.gen \in Nat /\ rows[m.key].gen \in Nat
        BY <1>1, <4>1 DEF TypeOK, Message
      <4> QED BY <4>1, <4>2, <4>3
    <3>2. Tidy(C)
      BY <1>1, <3>1 DEF Tidy, OnePerKey, PagesTidy, Sent, ChatMessage
    <3>3. \A e \in C : e.status # "pending"
      BY DEF Sent
    <3>4. CASE Show(t, C)
      <4> HIDE DEF C
      <4> QED BY <1>4, <3>2, <3>3, <3>4
    <3>5. Show(t, C) \/ cache' = cache
      BY <1>18 DEF LoadPage, tabVars
    <3> HIDE DEF C, NoSpinner
    <3> QED BY <1>3, <3>4, <3>5
  <2> HIDE DEF NoSpinner
  <2> QED BY <1>2, <2>1, <2>2, <2>3
<1>19. ASSUME NEW t \in Tabs, List(t) PROVE Good
  <2>1. SameTable /\ SameRequests
    BY <1>16, <1>19 DEF OtherMove, TabMove
  <2>2. cache' = cache /\ page' = [page EXCEPT ![t] = {rows[k] : k \in live}]
    BY <1>19 DEF List, tabVars
  <2>3. PagesTidy'
    BY <1>1, <2>2 DEF PagesTidy, TypeOK
  <2>4. \A q \in Requests : \A k : Creating(q, k)' <=> Creating(q, k)
    BY <2>1 DEF Creating
  <2>5. OneGeneration' /\ DeletedGone' /\ OneCreate' /\ Bubbles'
    BY <1>1, <2>1, <2>2, <2>4 DEF OneGeneration, DeletedGone, OneCreate, Bubbles
  <2> QED BY <2>3, <2>5
<1>20. ASSUME OtherMove, cache' = cache, SamePages PROVE Good
  BY <1>2, <1>3, <1>16, <1>20
<1>21. ASSUME NEW t \in Tabs, OpenEditor(t) \/ CancelEdit(t) \/ Refetch(t) \/ LosePage(t)
                               \/ Reconnect(t)
       PROVE  Good
  <2>1. OtherMove /\ cache' = cache
    BY <1>21 DEF OtherMove, TabMove, OpenEditor, CancelEdit, Refetch, LosePage, Reconnect, tabVars
  <2>2. SamePages
    BY <1>1, <1>21 DEF OpenEditor, CancelEdit, Refetch, LosePage, Reconnect, Ask, fetchVars,
       TypeOK
  <2> QED BY <1>20, <2>1, <2>2
<1>22. ASSUME NEW r \in Requests, Refuse(r) \/ ReceiveRefusal(r) PROVE Good
  <2>1. OtherMove /\ cache' = cache
    BY <1>22 DEF OtherMove, RequestMove, Refuse, AnswerError, ReceiveRefusal, tabVars
  <2>2. SamePages
    BY <1>1, <1>22 DEF Refuse, AnswerError, ReceiveRefusal, Ask, fetchVars, TypeOK
  <2> QED BY <1>20, <2>1, <2>2
<1>23. ASSUME NEW r \in Requests, LoseAnswer(r) PROVE FALSE
  BY <1>1, <1>23 DEF LoseAnswer
<1>24. CASE UNCHANGED vars
  BY <1>20, <1>24 DEF OtherMove, vars, tabVars, fetchVars
<1> HIDE DEF Good
<1> QED BY <1>6, <1>7, <1>8, <1>10, <1>11, <1>12, <1>13, <1>14, <1>15, <1>17, <1>18, <1>19, <1>21,
           <1>22, <1>23, <1>24 DEF Next, UserStep, TabStep, Handle, Answer, Good

-----------------------------------------------------------------------------
(* What a tab does not show yet is on its way to it.                        *)

LEMMA Untouched ==
  ASSUME TypeOK, [Next]_vars, Undisturbed'
  PROVE  Undisturbed /\ ~Lose /\ (\A t \in Tabs : ~Drop(t)) /\ fetches' = fetches
<1>1. fetches \in Nat /\ drops \in Nat
  BY MessageConstants DEF TypeOK
<1>2. losses = 0 /\ ~Lose
  BY Calm DEF Undisturbed
<1>3. \A t \in Tabs : ~Drop(t)
  BY <1>1 DEF Drop, Undisturbed
<1>4. ASSUME NEW t \in Tabs, NEW r \in Requests, NEW op, NEW m, Submit(r, t, op, m)
      PROVE  UNCHANGED <<drops, fetches>>
  BY <1>4 DEF Submit, fetchVars
<1>5. ASSUME NEW t \in Tabs, UserStep(t) PROVE UNCHANGED <<drops, fetches>>
  BY <1>4, <1>5, UserSubmits DEF OpenEditor, CancelEdit, fetchVars
<1>6. ASSUME NEW t \in Tabs, TabStep(t) \/ Refetch(t) \/ LosePage(t) \/ Reconnect(t)
      PROVE  drops' = drops /\ fetches' \in {fetches, fetches + 1}
  BY <1>6 DEF TabStep, Refetch, List, LoadPage, LosePage, Hear, Reconnect, Ask, fetchVars
<1>7. ASSUME NEW r \in Requests, Handle(r) PROVE UNCHANGED <<drops, fetches>>
  BY <1>7 DEF Handle, HandleCreate, HandleUpdate, HandleDelete, Commit, Refuse, AnswerError,
     fetchVars
<1>8. ASSUME NEW r \in Requests, Answer(r) \/ LoseAnswer(r)
      PROVE  drops' = drops /\ fetches' \in {fetches, fetches + 1}
  BY <1>8 DEF Answer, Write, Receive, ReceiveRefusal, LoseAnswer, Ask, fetchVars
<1>9. drops' = drops /\ fetches' \in {fetches, fetches + 1}
  BY <1>3, <1>5, <1>6, <1>7, <1>8 DEF Next, vars, fetchVars
<1> QED BY <1>1, <1>2, <1>3, <1>9 DEF Undisturbed

LEMMA OvertakenStays ==
  ASSUME TypeOK, General, [Next]_vars, NEW k \in Keys, Overtaken(k)
  PROVE  Overtaken(k)'
<1>1. ASSUME \A r \in Requests : req[r] # None => req'[r] = req[r] PROVE Overtaken(k)'
  BY <1>1 DEF Overtaken
<1>2. ASSUME NEW t \in Tabs, NEW r \in Requests, NEW op, NEW m, Submit(r, t, op, m)
      PROVE  Overtaken(k)'
  BY <1>1, <1>2 DEF Submit, General, FreshRequests, TypeOK
<1>3. ASSUME NEW t \in Tabs, UserStep(t) PROVE Overtaken(k)'
  BY <1>1, <1>2, <1>3, UserSubmits DEF OpenEditor, CancelEdit, requestVars
<1>4. ASSUME NEW t \in Tabs, TabStep(t) \/ Refetch(t) \/ LosePage(t) \/ Drop(t) \/ Reconnect(t)
      PROVE  req' = req
  BY <1>4 DEF TabStep, Refetch, List, LoadPage, LosePage, Hear, Drop, Reconnect, requestVars
<1>5. ASSUME NEW r \in Requests, Handle(r) \/ Answer(r) \/ LoseAnswer(r) PROVE req' = req
  BY <1>5 DEF Handle, HandleCreate, HandleUpdate, HandleDelete, Commit, Refuse, AnswerError,
     Answer, Write, Receive, ReceiveRefusal, LoseAnswer
<1> QED BY <1>1, <1>3, <1>4, <1>5 DEF Next, vars, requestVars

LEMMA OvertakenBy ==
  ASSUME IInv, General, OneGeneration, NEW a \in Answers, a.type = "create",
         NEW r \in Requests, pc[r] # "free", req[r].op # "create", req[r].msg.key = a.msg.key
  PROVE  Overtaken(a.msg.key)
<1>1. req[r] # None
  BY DEF IInv, TypeOK, Request, None
<1> QED BY <1>1, AnswerFacts DEF Overtaken

LEMMA ComingAnswers ==
  ASSUME General, NEW t \in Tabs
  PROVE  Coming(t) \subseteq Answers
BY DEF General, HeardAnswers, Coming, Answers

(* An answer or an event is applied in one tab, and taken from its inbox.   *)
LEMMA AppliedSettles ==
  ASSUME IInv, General, Orderly, Settling, Undisturbed, UNCHANGED <<rows, live>>,
         Answers' = Answers, NEW t \in Tabs, NEW a \in Answers, Applies(t, a),
         \A x \in Tabs : Coming(x) \subseteq Coming(x)' \cup {a}, NEW k \in Keys, ~Overtaken(k),
         \A x \in Tabs \ {t} : Coming(x) \subseteq Coming(x)'
  PROVE  /\ CreatedStays(k)'
         /\ \A x \in Tabs : (k \in live' => Shown(x, k)') /\ (k \notin live' => Gone(x, k)')
<1> DEFINE m == a.msg
           C == cache[t]
           D == Apply(C, a.type, m)
<1>1. OneGeneration /\ Bubbles /\ DeletedGone /\ TypeOK
  BY DEF Orderly, Undisturbed, IInv
<1>2. /\ CreatedStays(k)
      /\ \A x \in Tabs : (k \in live => Shown(x, k)) /\ (k \notin live => Gone(x, k))
  BY DEF Settling
<1>3. m \in Message /\ m.gen = 1 /\ m.key \in Keys /\ a.type \in {"create", "edit", "delete"}
  BY <1>1, AnswerFacts
<1>4. Tidy(C) /\ cache'[t] = D /\ \A x \in Tabs \ {t} : cache'[x] = cache[x]
  BY <1>1 DEF Bubbles, Applies, Show, TypeOK
<1>5. CreatedStays(k)'
  BY <1>2 DEF CreatedStays
<1>6. rows[k].key = k /\ Sent(m).status = "sent" /\ Sent(m).msg = m
  BY <1>1 DEF TypeOK, Sent
<1>7. ASSUME NEW x \in Tabs \ {t}
      PROVE  (k \in live => Shown(x, k)') /\ (k \notin live => Gone(x, k)')
  <2>1. Shown(x, k) => Shown(x, k)'
    BY <1>4, <1>7 DEF Shown
  <2>2. Removed(x, k) => Removed(x, k)'
    BY <1>4, <1>7 DEF Removed
  <2> QED BY <1>2, <2>1, <2>2 DEF Gone
<1> HIDE DEF m, D, C
<1>8. CASE m.key # k
  <2>1. \A e : e.msg.key = k => (e \in D <=> e \in C)
    <3>1. CASE a.type = "create"
      BY <1>3, <1>4, <1>6, <1>8, <3>1, TidyCreate DEF D
    <3>2. CASE a.type = "edit"
      <4>1. /\ \A e \in D : e \in C \/ (e = Sent(m) /\ \E f \in C : Id(f.msg) = Id(m))
            /\ \A e \in C : \/ e \in D
                            \/ Id(e.msg) = Id(m) /\ m.version >= e.msg.version /\ Sent(m) \in D
        BY <1>3, <1>4, <3>2, TidyEdit DEF D
      <4> QED BY <1>6, <1>8, <4>1 DEF Id
    <3>3. CASE a.type = "delete"
      BY <1>8, <3>3, TidyDelete DEF D, Id
    <3> QED BY <1>3, <3>1, <3>2, <3>3
  <2>2. Sent(rows[k]).msg.key = k /\ \A e : Id(e.msg) = Id(rows[k]) => e.msg.key = k
    BY <1>6 DEF Sent, Id
  <2>3. \A c \in Coming(t) : c.msg.key = k => c \in Coming(t)'
    BY <1>8 DEF m
  <2>4. Shown(t, k) => Shown(t, k)'
    BY <1>4, <1>6, <2>1, <2>2, <2>3 DEF Shown, C
  <2>5. Removed(t, k) => Removed(t, k)'
    BY <1>4, <2>1, <2>3 DEF Removed, C
  <2>6. k \notin live => Gone(t, k)'
    BY <1>2, <2>4, <2>5 DEF Gone
  <2> QED BY <1>2, <1>5, <1>7, <2>4, <2>6
<1>9. CASE m.key = k /\ a.type = "create"
  <2>1. k \in live /\ rows[k] = m
    BY <1>2, <1>9 DEF CreatedStays, m
  <2>2. Sent(m) \in D
    BY <1>3, <1>4, <1>9, TidyCreate DEF D
  <2>3. Shown(t, k)'
    BY <1>4, <2>1, <2>2 DEF Shown
  <2> QED BY <1>5, <1>7, <2>1, <2>3
<1>10. CASE m.key = k /\ a.type = "edit"
  <2>1. /\ \A e \in D : \E f \in C : e.status = f.status /\ Id(e.msg) = Id(f.msg)
        /\ \A e \in C : \/ e \in D
                        \/ Id(e.msg) = Id(m) /\ m.version >= e.msg.version /\ Sent(m) \in D
        /\ \A e \in C : Id(e.msg) = Id(m) /\ m.version >= e.msg.version => Sent(m) \in D
    BY <1>3, <1>4, <1>10, TidyEdit DEF D
  <2>2. ASSUME Shown(t, k) PROVE Shown(t, k)'
    <3>1. rows[k].gen = 1 /\ rows[k] \in Message
      BY <1>1, <1>10, AnswerFacts DEF m, TypeOK
    <3>2. Id(m) = Id(rows[k])
      BY <1>3, <1>6, <1>10, <3>1 DEF Id
    <3>3. m \in Copies /\ rows[k] \in Copies
      <4>1. m \in ReplyCopies
        BY DEF m, Answers, Answer1, ReplyCopies
      <4> QED BY <3>1, <4>1 DEF Copies, StoredCopies
    <3>4. m.version = rows[k].version => m = rows[k]
      BY <1>3, <1>6, <1>10, <3>1, <3>2, <3>3 DEF IInv, Agreement, Message
    <3>5. m.version <= rows[k].version /\ m.version \in Nat /\ rows[k].version \in Nat
      BY <1>3, <1>10, <3>1, <3>3 DEF IInv, NotAhead, Behind, Message
    <3>6. CASE Sent(rows[k]) \in C
      <4>1. Sent(rows[k]) \in D
        BY <2>1, <3>4, <3>5, <3>6 DEF Sent
      <4> QED BY <1>4, <4>1 DEF Shown
    <3>7. ASSUME [type |-> "edit", msg |-> rows[k]] \in Coming(t), NEW e \in C,
                 Id(e.msg) = Id(rows[k])
          PROVE  Shown(t, k)'
      <4>1. \E d \in D : Id(d.msg) = Id(rows[k])
        BY <1>6, <2>1, <3>2, <3>7
      <4>2. CASE [type |-> "edit", msg |-> rows[k]] \in Coming(t)'
        BY <1>4, <4>1, <4>2 DEF Shown
      <4>3. CASE [type |-> "edit", msg |-> rows[k]] = a
        <5>1. m = rows[k]
          BY <4>3 DEF m
        <5>2. e.msg.gen = 1 /\ e.msg.key = k
          BY <1>6, <3>1, <3>7 DEF Id
        <5>3. e.msg.version <= rows[k].version
          BY <3>1, <3>7, <5>2, ShownFacts DEF C, Behind
        <5>4. Sent(rows[k]) \in D
          BY <2>1, <3>7, <5>1, <5>3
        <5> QED BY <1>4, <5>4 DEF Shown
      <4> QED BY <3>7, <4>2, <4>3
    <3>8. ASSUME [type |-> "create", msg |-> rows[k]] \in Coming(t) PROVE FALSE
      <4>1. [type |-> "create", msg |-> rows[k]] \in Answers
        BY <3>8, ComingAnswers
      <4>2. PICK r \in Requests :
              /\ pc[r] = "writing" /\ req[r].op = "edit" /\ req[r].msg.key = k
        BY <1>1, <1>10, AnswerFacts DEF m
      <4> QED BY <1>1, <1>6, <4>1, <4>2, OvertakenBy
    <3> QED BY <2>2, <3>6, <3>7, <3>8 DEF Shown, C
  <2>3. ASSUME Removed(t, k) PROVE Removed(t, k)'
    <3>1. (\E e \in D : e.msg.key = k /\ e.status = "sent") =>
            \E e \in C : e.msg.key = k /\ e.status = "sent"
      BY <2>1 DEF Id
    <3>2. \A c \in Coming(t) : c.type = "delete" => c \in Coming(t)'
      BY <1>10
    <3> QED BY <1>4, <2>3, <3>1, <3>2 DEF Removed, C
  <2>4. k \notin live => Gone(t, k)'
    BY <1>2, <2>2, <2>3 DEF Gone
  <2> QED BY <1>2, <1>5, <1>7, <2>2, <2>4
<1>11. CASE m.key = k /\ a.type = "delete"
  <2>1. k \notin live
    BY <1>1, <1>11 DEF DeletedGone, m
  <2>2. \A e \in D : ~(e.msg.key = k /\ e.status = "sent")
    BY <1>3, <1>4, <1>11, TidyDelete DEF D, Tidy, Id
  <2>3. Gone(t, k)'
    BY <1>4, <2>2 DEF Gone, Removed
  <2> QED BY <1>5, <1>7, <2>1, <2>3
<1> QED BY <1>3, <1>8, <1>9, <1>10, <1>11

LEMMA SettlingStep ==
  ASSUME IInv, TypeOK', General, General', Orderly, Settling, [Next]_vars
  PROVE  Settling'
<1> SUFFICES ASSUME Undisturbed'
             PROVE  /\ up' = Tabs /\ \A t \in Tabs : fetching'[t] = "no"
                    /\ \A k \in Keys : ~Overtaken(k)' =>
                         /\ CreatedStays(k)'
                         /\ \A t \in Tabs : /\ k \in live' => Shown(t, k)'
                                            /\ k \notin live' => Gone(t, k)'
  BY DEF Settling
<1> DEFINE Settles(k) == /\ CreatedStays(k)'
                         /\ \A t \in Tabs : /\ k \in live' => Shown(t, k)'
                                            /\ k \notin live' => Gone(t, k)'
           SameNet == up' = up /\ fetching' = fetching
           Goal == /\ up' = Tabs /\ \A t \in Tabs : fetching'[t] = "no"
                   /\ \A k \in Keys : ~Overtaken(k)' => Settles(k)
<1>1. /\ Undisturbed /\ ~Lose /\ (\A t \in Tabs : ~Drop(t)) /\ fetches' = fetches
      /\ TypeOK /\ LiveStored
  BY Untouched DEF IInv
<1>2. /\ OneGeneration /\ OneCreate /\ Bubbles /\ DeletedGone
      /\ up = Tabs /\ \A t \in Tabs : fetching[t] = "no"
  BY <1>1 DEF Orderly, Undisturbed, Settling
<1>3. ASSUME NEW k \in Keys, ~Overtaken(k)'
      PROVE  /\ ~Overtaken(k) /\ CreatedStays(k)
             /\ \A t \in Tabs : (k \in live => Shown(t, k)) /\ (k \notin live => Gone(t, k))
  BY <1>1, <1>3, OvertakenStays DEF Settling
<1>4. ASSUME SameNet, \A k \in Keys : ~Overtaken(k)' => Settles(k) PROVE Goal
  BY <1>2, <1>4
<1>5. ASSUME SameNet, UNCHANGED <<rows, live>>, Answers' = Answers,
             \A x \in Tabs : Coming(x) \subseteq Coming(x)',
             \A x \in Tabs : cache[x] \subseteq cache'[x],
             \A x \in Tabs : \A e \in cache'[x] : e \in cache[x] \/ e.status = "pending"
      PROVE  Goal
  <2> SUFFICES ASSUME NEW k \in Keys, ~Overtaken(k)' PROVE Settles(k)
    BY <1>4, <1>5
  <2>1. CreatedStays(k)'
    BY <1>3, <1>5 DEF CreatedStays
  <2>2. ASSUME NEW t \in Tabs PROVE Shown(t, k) => Shown(t, k)'
    BY <1>5, <2>2 DEF Shown
  <2>3. ASSUME NEW t \in Tabs PROVE Removed(t, k) => Removed(t, k)'
    BY <1>5, <2>3 DEF Removed
  <2>4. \A t \in Tabs : k \notin live => Gone(t, k)'
    BY <1>3, <2>2, <2>3 DEF Gone
  <2> QED BY <1>3, <1>5, <2>1, <2>2, <2>4
<1>6. ASSUME NEW t \in Tabs, NEW r \in Requests, Send(t, r) PROVE Goal
  <2> DEFINE m(k) == [key |-> k, gen |-> 0, version |-> 1, text |-> r]
             b(k) == [msg |-> m(k), status |-> "pending"]
  <2>1. PICK k \in Keys : /\ Submit(r, t, "create", m(k))
                          /\ UNCHANGED tabVars \/ Show(t, cache[t] \cup {b(k)})
    BY <1>6, SendStep
  <2>2. b(k).status = "pending"
    OBVIOUS
  <2>3. \A x \in Tabs : \/ cache'[x] = cache[x]
                        \/ x = t /\ cache'[x] = cache[t] \cup {b(k)}
    BY <1>1, <2>1 DEF Show, TypeOK, tabVars
  <2> HIDE DEF m, b
  <2>6. \E msg : Submit(r, t, "create", msg)
    BY <2>1
  <2>7. PICK msg : Submit(r, t, "create", msg)
    BY <2>6
  <2>4. /\ UNCHANGED <<rows, live, up, fetching>> /\ Answers' = Answers
        /\ \A x \in Tabs : Coming(x)' = Coming(x)
    BY <1>1, <2>7, SubmitTracks
  <2>5. ASSUME NEW x \in Tabs
        PROVE  /\ cache[x] \subseteq cache'[x]
               /\ \A e \in cache'[x] : e \in cache[x] \/ e.status = "pending"
    BY <2>2, <2>3
  <2> QED BY <1>5, <2>4, <2>5
<1>7. ASSUME NEW t \in Tabs, NEW r \in Requests, Retry(t, r) PROVE FALSE
  BY <1>2, <1>7 DEF Retry, Bubbles, Tidy
<1>8. ASSUME NEW t \in Tabs, NEW r \in Requests, SaveEdit(t, r) \/ Delete(t, r) PROVE Goal
  <2>1. PICK op, m : Submit(r, t, op, m)
    BY <1>8 DEF SaveEdit, Delete
  <2>2. /\ UNCHANGED <<rows, live, up, fetching>> /\ Answers' = Answers
        /\ \A x \in Tabs : Coming(x)' = Coming(x)
    BY <1>1, <2>1, SubmitTracks
  <2>3. cache' = cache
    BY <1>8 DEF SaveEdit, Delete, tabVars
  <2> QED BY <1>5, <2>2, <2>3
<1>9. ASSUME NEW r \in Requests, NEW row \in Message, pc[r] = "sent", Commit(r, row),
             row.key = req[r].msg.key, NEW k \in Keys, k = row.key,
             NEW a, a = [type |-> req[r].op, msg |-> row],
             \A c \in Keys : c # k => rows'[c] = rows[c] /\ (c \in live' <=> c \in live)
      PROVE  /\ Answers' = Answers \cup {a} /\ cache' = cache
             /\ \A x \in Tabs : Coming(x)' = Coming(x) \cup {a}
             /\ (~Overtaken(k)' => Settles(k)) => Goal
  <2>1. /\ Answers' = Answers \cup {a} /\ UNCHANGED <<req, cache, up, fetching>>
        /\ \A x \in Tabs : Coming(x)' = Coming(x) \cup {a}
    BY <1>1, <1>9, CommitTracks
  <2>2. a.msg.key = k
    BY <1>9
  <2>3. ASSUME NEW c \in Keys, c # k, ~Overtaken(c)' PROVE Settles(c)
    <3>1. CreatedStays(c)'
      BY <1>3, <1>9, <2>1, <2>2, <2>3 DEF CreatedStays
    <3>2. ASSUME NEW t \in Tabs PROVE Shown(t, c) => Shown(t, c)'
      BY <1>9, <2>1, <2>3, <3>2 DEF Shown
    <3>3. ASSUME NEW t \in Tabs PROVE Removed(t, c) => Removed(t, c)'
      BY <1>9, <2>1, <2>3, <3>3 DEF Removed
    <3>4. \A t \in Tabs : c \notin live => Gone(t, c)'
      BY <1>3, <2>3, <3>2, <3>3 DEF Gone
    <3> QED BY <1>3, <1>9, <2>3, <3>1, <3>2, <3>4
  <2>4. ASSUME ~Overtaken(k)' => Settles(k) PROVE Goal
    <3> HIDE DEF Settles
    <3> QED BY <1>4, <2>1, <2>3, <2>4
  <2> HIDE DEF Goal, Settles
  <2> QED BY <2>1, <2>4
<1>10. ASSUME NEW r \in Requests, HandleCreate(r) PROVE Goal
  <2>1. /\ pc[r] = "sent" /\ req[r].op = "create" /\ req[r].msg.key \in Keys
        /\ req[r].msg.text \in Requests \cup {Original}
    BY <1>1, <1>10 DEF HandleCreate, TypeOK, Request, Message
  <2>2. PICK k \in Keys : k = req[r].msg.key
    BY <2>1
  <2>3. rows[k].gen = 0 /\ k \notin live
    <3>1. Creating(r, k)
      BY <2>1, <2>2 DEF Creating
    <3> QED BY <1>1, <1>2, <2>1, <3>1 DEF OneCreate, LiveStored
  <2>4. PICK row : /\ row = [key |-> k, gen |-> 1, version |-> 1, text |-> req[r].msg.text]
                   /\ Commit(r, row) /\ rows' = [rows EXCEPT ![k] = row]
                   /\ live' = live \cup {k}
    BY <1>10, <2>2, <2>3 DEF HandleCreate
  <2>5. row \in Message /\ row.key = k
    BY <2>1, <2>4 DEF Message
  <2>6. rows'[k] = row /\ \A c \in Keys : c # k => rows'[c] = rows[c] /\ (c \in live' <=> c \in live)
    BY <1>1, <2>4 DEF TypeOK
  <2>7. PICK a : a = [type |-> req[r].op, msg |-> row]
    OBVIOUS
  <2>8. a = [type |-> "create", msg |-> row] /\ a.type = "create" /\ a.msg = row
    BY <2>1, <2>7
  <2>9. /\ Answers' = Answers \cup {a} /\ \A x \in Tabs : Coming(x)' = Coming(x) \cup {a}
        /\ (~Overtaken(k)' => Settles(k)) => Goal
    <3> HIDE DEF Settles, Goal
    <3> QED BY <1>9, <2>1, <2>2, <2>4, <2>5, <2>6, <2>7
  <2>10. \A c \in Answers : c.msg.key # k
    BY <1>2, <2>3, AnswerFacts
  <2>11. CreatedStays(k)'
    BY <2>4, <2>6, <2>8, <2>9, <2>10 DEF CreatedStays
  <2>12. \A t \in Tabs : Shown(t, k)'
    BY <2>6, <2>8, <2>9 DEF Shown
  <2>13. Settles(k)
    BY <2>4, <2>11, <2>12
  <2> HIDE DEF Settles, Goal
  <2> QED BY <2>9, <2>13
<1>11. ASSUME NEW r \in Requests, HandleUpdate(r) PROVE Goal
  <2> DEFINE m == req[r].msg
  <2>1. /\ pc[r] = "sent" /\ req[r].op = "edit" /\ m \in Message /\ m.key \in live
        /\ Id(rows[m.key]) = Id(m) /\ Updated(m) \in Message /\ Commit(r, Updated(m))
        /\ rows' = [rows EXCEPT ![m.key] = Updated(m)] /\ live' = live
    BY <1>1, <1>11, UpdateStep
  <2>2. PICK k \in Keys : k = m.key
    BY <2>1 DEF Message
  <2>3. PICK row : row = Updated(m)
    OBVIOUS
  <2>4. row \in Message /\ row.key = k /\ Id(row) = Id(rows[k]) /\ k \in live
    BY <2>1, <2>2, <2>3 DEF Updated, Message, Id
  <2>5. rows'[k] = row /\ \A c \in Keys : c # k => rows'[c] = rows[c] /\ (c \in live' <=> c \in live)
    BY <1>1, <2>1, <2>2, <2>3 DEF TypeOK
  <2>6. PICK a : a = [type |-> req[r].op, msg |-> row]
    OBVIOUS
  <2>7. a = [type |-> "edit", msg |-> row] /\ a.type = "edit"
    BY <2>1, <2>6
  <2>8. /\ Answers' = Answers \cup {a} /\ \A x \in Tabs : Coming(x)' = Coming(x) \cup {a}
        /\ cache' = cache
        /\ (~Overtaken(k)' => Settles(k)) => Goal
    <3> HIDE DEF Settles, Goal
    <3> QED BY <1>9, <2>1, <2>2, <2>3, <2>4, <2>5, <2>6
  <2>9. ASSUME ~Overtaken(k)' PROVE Settles(k)
    <3>1. \A c \in Answers : c.type = "create" => c.msg.key # k
      BY <1>2, <1>3, <2>1, <2>2, <2>9, OvertakenBy
    <3>2. CreatedStays(k)'
      BY <2>7, <2>8, <3>1 DEF CreatedStays
    <3>3. ASSUME NEW t \in Tabs PROVE \E e \in cache[t] : Id(e.msg) = Id(rows[k])
      <4>1. Shown(t, k)
        BY <1>3, <2>4, <2>9
      <4>2. [type |-> "create", msg |-> rows[k]] \notin Coming(t)
        <5>1. rows[k].key = k
          BY <1>1 DEF TypeOK
        <5> QED BY <3>1, <5>1, ComingAnswers
      <4> QED BY <4>1, <4>2 DEF Shown, Sent
    <3>4. \A t \in Tabs : Shown(t, k)'
      BY <2>4, <2>5, <2>7, <2>8, <3>3 DEF Shown
    <3>5. k \in live'
      BY <2>1, <2>4
    <3> QED BY <3>2, <3>4, <3>5
  <2> HIDE DEF Settles, Goal
  <2> QED BY <2>8, <2>9
<1>12. ASSUME NEW r \in Requests, HandleDelete(r), Commit(r, rows[req[r].msg.key]) PROVE Goal
  <2>1. /\ pc[r] = "sent" /\ req[r].op = "delete" /\ Commit(r, rows[req[r].msg.key])
        /\ rows' = rows /\ live' = live \ {req[r].msg.key} /\ req[r].msg.key \in Keys
    BY <1>1, <1>12, DeleteStep DEF TypeOK
  <2>2. PICK k \in Keys : k = req[r].msg.key
    BY <2>1
  <2>3. PICK row : row = rows[k]
    OBVIOUS
  <2>4. row \in Message /\ row.key = k
    BY <1>1, <2>3 DEF TypeOK
  <2>5. \A c \in Keys : c # k => rows'[c] = rows[c] /\ (c \in live' <=> c \in live)
    BY <2>1, <2>2
  <2>6. PICK a : a = [type |-> req[r].op, msg |-> row]
    OBVIOUS
  <2>7. a.type = "delete" /\ a.msg.key = k
    BY <2>1, <2>4, <2>6
  <2>8. /\ Answers' = Answers \cup {a} /\ \A x \in Tabs : Coming(x)' = Coming(x) \cup {a}
        /\ (~Overtaken(k)' => Settles(k)) => Goal
    <3> HIDE DEF Settles, Goal
    <3> QED BY <1>9, <2>1, <2>2, <2>3, <2>4, <2>5, <2>6
  <2>9. ASSUME ~Overtaken(k)' PROVE Settles(k)
    <3>1. \A c \in Answers : c.type = "create" => c.msg.key # k
      BY <1>2, <1>3, <2>1, <2>2, <2>9, OvertakenBy
    <3>2. CreatedStays(k)'
      BY <2>7, <2>8, <3>1 DEF CreatedStays
    <3>3. \A t \in Tabs : Gone(t, k)'
      BY <2>7, <2>8 DEF Gone, Removed
    <3>4. k \notin live'
      BY <2>1, <2>2
    <3> QED BY <3>2, <3>3, <3>4
  <2> HIDE DEF Settles, Goal
  <2> QED BY <2>8, <2>9
<1>24. ASSUME NEW r \in Requests, HandleDelete(r), AnswerError(r), req[r].msg.key \in Clips
       PROVE  Goal
  <2>1. PICK k \in Keys : k = req[r].msg.key
    BY <1>1, <1>24, DeleteStep DEF TypeOK
  <2>2. pc[r] = "sent" /\ req[r].op = "delete" /\ k \in live /\ rows' = rows /\ live' = live \ {k}
    BY <1>24, <2>1, DeleteStep
  <2>3. /\ Answers' = Answers /\ UNCHANGED <<req, cache, up, fetching>>
        /\ \A x \in Tabs : Coming(x)' = Coming(x)
    BY <1>1, <1>24, <2>2, ClipTracks
  <2>4. ASSUME NEW c \in Keys, NEW t \in Tabs
        PROVE  (Shown(t, c) => Shown(t, c)') /\ (Removed(t, c) => Removed(t, c)')
    BY <2>2, <2>3 DEF Shown, Removed
  <2>5. ASSUME NEW c \in Keys, ~Overtaken(c)' PROVE Settles(c)
    <3>1. \A a \in Answers : a.type = "create" /\ a.msg.key = k => c # k
      BY <1>2, <1>3, <2>1, <2>2, <2>5, OvertakenBy
    <3>2. CreatedStays(c)'
      BY <1>3, <2>2, <2>3, <2>5, <3>1 DEF CreatedStays
    <3>3. \A t \in Tabs : c \in live' => Shown(t, c)'
      BY <1>3, <2>2, <2>4, <2>5
    <3>4. ASSUME NEW t \in Tabs, c \notin live' PROVE Gone(t, c)'
      BY <1>3, <1>24, <2>1, <2>2, <2>4, <2>5, <3>4 DEF Gone
    <3> QED BY <3>2, <3>3, <3>4
  <2> HIDE DEF Settles
  <2> QED BY <1>4, <2>3, <2>5
<1>13. ASSUME NEW r \in Requests, NEW t \in Tabs, Write(r, t) PROVE Goal
  <2>1. Answers' = Answers /\ \A x \in Tabs : Coming(x) \subseteq Coming(x)'
    BY <1>1, <1>2, <1>13, WriteTracks
  <2>2. UNCHANGED <<rows, live, cache, up, fetching>>
    BY <1>13 DEF Write, serverVars, tabVars, fetchVars
  <2> QED BY <1>5, <2>1, <2>2
<1>14. ASSUME NEW t \in Tabs, NEW a \in Answers, Applies(t, a), UNCHANGED <<rows, live>>, SameNet,
              Answers' = Answers,
              \A x \in Tabs : Coming(x) \subseteq Coming(x)' \cup (IF x = t THEN {a} ELSE {})
       PROVE  Goal
  <2>1. /\ \A x \in Tabs : Coming(x) \subseteq Coming(x)' \cup {a}
        /\ \A x \in Tabs \ {t} : Coming(x) \subseteq Coming(x)'
    BY <1>14
  <2>2. ASSUME NEW k \in Keys, ~Overtaken(k)' PROVE Settles(k)
    BY <1>1, <1>3, <1>14, <2>1, <2>2, AppliedSettles
  <2> HIDE DEF Settles
  <2> QED BY <1>4, <1>14, <2>2
<1>15. ASSUME NEW t \in Tabs, Hear(t) PROVE Goal
  <2> DEFINE a == Head(inbox[t])
  <2>1. a \in Answers /\ Applies(t, a)
    BY <1>1, <1>15, AppliesAnswer
  <2>2. /\ Answers' = Answers
        /\ \A x \in Tabs : Coming(x) \subseteq Coming(x)' \cup (IF x = t THEN {a} ELSE {})
    BY <1>1, <1>15, HearTracks
  <2>3. UNCHANGED <<rows, live>> /\ SameNet
    BY <1>15 DEF Hear, serverVars, fetchVars
  <2> HIDE DEF a, Goal
  <2> QED BY <1>14, <2>1, <2>2, <2>3
<1>16. ASSUME OtherMove
       PROVE  /\ UNCHANGED <<rows, live>> /\ Answers' = Answers
              /\ \A x \in Tabs : Coming(x)' = Coming(x)
  BY <1>1, <1>16, OtherTracks
<1>17. ASSUME NEW r \in Requests, Receive(r) PROVE Goal
  <2>1. req[r].tab \in Tabs /\ Answer1(r) \in Answers /\ Applies(req[r].tab, Answer1(r))
    BY <1>1, <1>17, AppliesAnswer
  <2>2. OtherMove /\ SameNet
    BY <1>17 DEF OtherMove, RequestMove, Receive, socketVars, fetchVars
  <2> HIDE DEF Goal
  <2> QED BY <1>14, <1>16, <2>1, <2>2
<1>18. ASSUME OtherMove, cache' = cache, SameNet PROVE Goal
  BY <1>5, <1>16, <1>18
<1>19. ASSUME NEW t \in Tabs, OpenEditor(t) \/ CancelEdit(t) PROVE Goal
  <2>1. OtherMove /\ cache' = cache /\ SameNet
    BY <1>19 DEF OtherMove, TabMove, OpenEditor, CancelEdit, socketVars, fetchVars
  <2> QED BY <1>18, <2>1
<1>20. ASSUME NEW t \in Tabs, Refetch(t) \/ List(t) \/ LoadPage(t) \/ LosePage(t) \/ Reconnect(t)
       PROVE  FALSE
  <2>1. fetches \in Nat
    BY <1>1 DEF TypeOK
  <2> QED BY <1>1, <1>2, <1>20, <2>1 DEF Refetch, Ask, List, LoadPage, LosePage, Reconnect
<1>21. ASSUME NEW r \in Requests, Refuse(r) \/ ReceiveRefusal(r) PROVE Goal
  <2>1. fetches \in Nat
    BY <1>1 DEF TypeOK
  <2>2. OtherMove /\ cache' = cache
    BY <1>21 DEF OtherMove, RequestMove, Refuse, AnswerError, ReceiveRefusal, tabVars
  <2>3. SameNet
    BY <1>1, <1>21, <2>1 DEF Refuse, AnswerError, ReceiveRefusal, Ask, socketVars, fetchVars
  <2> QED BY <1>18, <2>2, <2>3
<1>22. ASSUME NEW r \in Requests, LoseAnswer(r) PROVE FALSE
  BY <1>1, <1>22 DEF LoseAnswer
<1>23. CASE UNCHANGED vars
  BY <1>18, <1>23 DEF OtherMove, vars, tabVars, socketVars, fetchVars
<1> HIDE DEF Goal
<1>25. ASSUME NEW r \in Requests, HandleDelete(r) PROVE Goal
  BY <1>12, <1>24, <1>25, DeleteStep
<1> QED BY <1>1, <1>6, <1>7, <1>8, <1>10, <1>11, <1>13, <1>15, <1>17, <1>19, <1>20, <1>21,
           <1>22, <1>23, <1>25 DEF Next, UserStep, TabStep, Handle, Answer, Goal

-----------------------------------------------------------------------------
Settled == IInv /\ General /\ Orderly /\ Settling

LEMMA InitSettled == Init => Settled
<1> SUFFICES ASSUME Init PROVE Settled
  OBVIOUS
<1>1. IInv /\ TypeOK
  BY InitIInv DEF IInv
<1>2. /\ \A r \in Requests : pc[r] = "free" /\ req[r] = None
      /\ \A t \in Tabs : inbox[t] = <<>> /\ page[t] = {} /\ fetching[t] = "no"
      /\ \A t \in Tabs : cache[t] = {Sent(rows[k]) : k \in Seeded}
      /\ live = Seeded /\ up = Tabs /\ Seeded \subseteq Keys
      /\ \A k \in Keys : rows[k].gen = IF k \in Seeded THEN 1 ELSE 0
      /\ \A k \in Keys : rows[k].key = k
  BY MessageConstants DEF Init
<1>3. Answers = {} /\ ReplyCopies = {} /\ PageCopies = {}
  BY <1>2 DEF Answers, ReplyCopies, PageCopies
<1>4. General
  BY <1>2, <1>3 DEF General, HeardAnswers, FreshRequests, RealAnswers
<1>5. OneGeneration /\ OneCreate /\ PagesTidy /\ DeletedGone
  BY <1>2, <1>3 DEF OneGeneration, OneCreate, Creating, PagesTidy, DeletedGone
<1>6. Bubbles
  <2> SUFFICES ASSUME NEW t \in Tabs
               PROVE  /\ OnePerKey(cache[t])
                      /\ \A e \in cache[t] : e.status = "sent" /\ e.msg.gen = 1
    BY <1>1 DEF Bubbles, Tidy, TypeOK
  <2>1. \A e \in cache[t] : \E k \in Seeded : e = Sent(rows[k]) /\ e.msg = rows[k]
    BY <1>2 DEF Sent
  <2> QED BY <1>2, <2>1 DEF OnePerKey, Sent
<1>7. Settling
  BY <1>2, <1>3 DEF Settling, CreatedStays, Shown, Gone, Removed, Sent
<1> QED BY <1>1, <1>4, <1>5, <1>6, <1>7 DEF Settled, Orderly

LEMMA StepSettled == Settled /\ [Next]_vars => Settled'
<1> SUFFICES ASSUME Settled, [Next]_vars PROVE Settled'
  OBVIOUS
<1>1. IInv /\ TypeOK /\ LiveStored
  BY DEF Settled, IInv
<1>2. TypeOK' /\ IInv'
  BY <1>1, TypeStep, CopiesStep, EditsStep, AnswersStep, PendingStep DEF IInv
<1>3. General'
  BY <1>1, GeneralStep DEF Settled
<1> QED BY <1>1, <1>2, <1>3, OrderlyStep, SettlingStep DEF Settled

LEMMA AlwaysSettled == Spec => []Settled
BY InitSettled, StepSettled, PTL DEF Spec

(* messageCache.ts swaps the placeholder for the message whichever of the   *)
(* answer and the event comes first: as long as no answer is lost no tab    *)
(* ever shows two entries of one client_message_id.                         *)
THEOREM PlaceholdersReconcile == Spec => []PlaceholderReconciled
<1>1. Settled => PlaceholderReconciled
  BY DEF Settled, Orderly, Bubbles, Tidy, OnePerKey, PlaceholderReconciled
<1> QED BY AlwaysSettled, <1>1, PTL

(* Answers and events reach a tab in any order, edits of edits and deletes  *)
(* among them; when all have arrived every tab shows every stored message as*)
(* it is stored, and beside them at most clips that were deleted, as they   *)
(* were stored: service.Delete answers an error once such a row is gone, and*)
(* nobody is told.  This as long as no socket failed and no list was fetched*)
(* meanwhile (a list read before an event and loaded after it undoes the    *)
(* event).                                                                  *)
THEOREM TabsDoConverge == Spec => [](drops = 0 /\ fetches = 0 => TabsConverge)
<1>1. Settled => (drops = 0 /\ fetches = 0 => TabsConverge)
  <2> SUFFICES ASSUME Settled, Undisturbed, Quiet, \A k \in Keys : ~Overtaken(k), NEW t \in Tabs
               PROVE  /\ {Sent(rows[k]) : k \in live} \subseteq cache[t]
                      /\ cache[t] \subseteq {Sent(rows[k]) : k \in live \cup Ghosts}
    BY DEF TabsConverge, Undisturbed
  <2>1. Coming(t) = {}
    <3>1. \A i \in 1..Len(inbox[t]) : FALSE
      BY DEF Quiet
    <3> QED BY <3>1 DEF Coming, Quiet
  <2>2. /\ IInv /\ TypeOK /\ live \subseteq Keys
        /\ \A k \in Keys : (k \in live => Shown(t, k)) /\ (k \notin live => Gone(t, k))
    BY DEF Settled, Settling, IInv, TypeOK
  <2>3. Tidy(cache[t])
    BY DEF Settled, Orderly, Bubbles, Undisturbed
  <2>4. ASSUME NEW k \in Keys, Shown(t, k) PROVE Sent(rows[k]) \in cache[t]
    BY <2>1, <2>4 DEF Shown
  <2>5. ASSUME NEW e \in cache[t] PROVE \E k \in live \cup Ghosts : e = Sent(rows[k])
    <3>1. e.status # "pending"
      BY DEF Settled, IInv, PendingHasRequest, Quiet
    <3>2. e.status = "sent" /\ e.msg.key \in Keys /\ e.msg.gen = 1
      BY <2>2, <2>3, <3>1 DEF Tidy, TypeOK, ChatMessage, Message
    <3>3. PICK k \in Keys : k = e.msg.key
      BY <3>2
    <3>4. Shown(t, k) /\ (k \in live \/ k \in Clips)
      BY <2>1, <2>2, <3>2, <3>3 DEF Gone, Removed
    <3>5. Sent(rows[k]) \in cache[t] /\ Sent(rows[k]).msg.key = k
      BY <2>2, <2>4, <3>4 DEF Sent, TypeOK
    <3>6. e = Sent(rows[k])
      BY <2>3, <3>3, <3>5 DEF Tidy, OnePerKey
    <3>7. rows[k].gen >= 1 /\ rows[k].gen \in Nat
      BY <2>2, <3>2, <3>3, ShownFacts DEF TypeOK, Message
    <3>8. rows[k].gen > 0
      BY <3>7
    <3> QED BY <3>4, <3>6, <3>8 DEF Ghosts
  <2> QED BY <2>2, <2>4, <2>5
<1> QED BY AlwaysSettled, <1>1, PTL

-----------------------------------------------------------------------------
(* Failed messages.  A retry marks every message with its client id, a      *)
(* confirmed copy included, so that a bubble with an id of the server may be*)
(* failed, and go when that message is deleted.  But then its placeholder   *)
(* is there beside it, and nothing that has an id takes a placeholder.      *)

Anchored(messages) ==
  \A e \in messages : e.status # "sent" =>
    \E f \in messages : f.msg.key = e.msg.key /\ f.msg.gen = 0 /\ f.status = e.status
Anchors == \A t \in Tabs : Anchored(cache[t])
KeepsFailed(messages, next) ==
  \A e \in messages : e.status = "failed" => \E f \in next : f.msg.key = e.msg.key

LEMMA ApplyKeeps ==
  ASSUME NEW C \in SUBSET ChatMessage, Anchored(C), NEW m \in Message, m.gen > 0,
         NEW type \in {"create", "edit", "delete"}
  PROVE  Anchored(Apply(C, type, m)) /\ KeepsFailed(C, Apply(C, type, m))
<1> DEFINE D == Apply(C, type, m)
<1>1. Sent(m).status = "sent" /\ Sent(m).msg = m
  BY DEF Sent
<1>2. \A f \in C : f.msg.gen = 0 => Id(f.msg) # Id(m)
  BY DEF Id, Message
<1>3. \A f \in C : Id(f.msg) = Id(m) => f.msg.key = m.key
  BY DEF Id
<1>4. CASE type = "create"
  <2>1. D = {e \in C : ~(e.status = "pending" /\ e.msg.key = m.key) /\ Id(e.msg) # Id(m)}
              \cup {Sent(m)}
    BY <1>4 DEF Apply, InsertOrReconcile
  <2> HIDE DEF D
  <2>2. ASSUME NEW e \in D, e.status # "sent"
        PROVE  \E f \in D : f.msg.key = e.msg.key /\ f.msg.gen = 0 /\ f.status = e.status
    <3>1. e \in C /\ ~(e.status = "pending" /\ e.msg.key = m.key)
      BY <1>1, <2>1, <2>2
    <3>2. PICK f \in C : f.msg.key = e.msg.key /\ f.msg.gen = 0 /\ f.status = e.status
      BY <2>2, <3>1 DEF Anchored
    <3> QED BY <1>2, <2>1, <3>1, <3>2
  <2>3. ASSUME NEW e \in C, e.status = "failed" PROVE \E f \in D : f.msg.key = e.msg.key
    BY <1>1, <1>3, <2>1, <2>3
  <2> QED BY <2>2, <2>3 DEF Anchored, KeepsFailed, D
<1>5. CASE type = "edit"
  <2> DEFINE New(e) == IF Id(e.msg) = Id(m) /\ m.version >= e.msg.version THEN Sent(m) ELSE e
  <2>1. D = {New(e) : e \in C}
    BY <1>5 DEF Apply, ReplaceIfNewer
  <2>2. \A e \in C : New(e).msg.key = e.msg.key /\ (New(e) = e \/ New(e) = Sent(m))
    BY <1>1, <1>3
  <2>3. \A f \in C : f.msg.gen = 0 => New(f) = f
    BY <1>2
  <2> HIDE DEF D, New
  <2>4. ASSUME NEW e \in D, e.status # "sent"
        PROVE  \E f \in D : f.msg.key = e.msg.key /\ f.msg.gen = 0 /\ f.status = e.status
    <3>1. e \in C
      BY <1>1, <2>1, <2>2, <2>4
    <3>2. PICK f \in C : f.msg.key = e.msg.key /\ f.msg.gen = 0 /\ f.status = e.status
      BY <2>4, <3>1 DEF Anchored
    <3>3. New(f) = f /\ New(f) \in D
      BY <2>1, <2>3, <3>2
    <3> QED BY <3>2, <3>3
  <2>5. ASSUME NEW e \in C PROVE \E f \in D : f.msg.key = e.msg.key
    BY <2>1, <2>2
  <2> QED BY <2>4, <2>5 DEF Anchored, KeepsFailed, D
<1>6. CASE type = "delete"
  <2>1. D = {e \in C : Id(e.msg) # Id(m)}
    BY <1>6 DEF Apply, RemoveById
  <2> HIDE DEF D
  <2>2. ASSUME NEW e \in C, e.status # "sent"
        PROVE  \E f \in D : f.msg.key = e.msg.key /\ f.msg.gen = 0 /\ f.status = e.status
    BY <1>2, <2>1, <2>2 DEF Anchored
  <2>3. D \subseteq C
    BY <2>1
  <2>4. Anchored(D)
    BY <2>2, <2>3 DEF Anchored
  <2>5. KeepsFailed(C, D)
    BY <2>2 DEF KeepsFailed
  <2> QED BY <2>4, <2>5 DEF D
<1> QED BY <1>4, <1>5, <1>6

LEMMA MarksKeep ==
  ASSUME NEW C \in SUBSET ChatMessage, Anchored(C), NEW k
  PROVE  /\ Anchored(MarkFailed(C, k)) /\ KeepsFailed(C, MarkFailed(C, k))
         /\ KeepsFailed(C, MarkRetrying(C, k))
         /\ (\E e \in C : e.status = "failed" /\ e.msg.key = k) => Anchored(MarkRetrying(C, k))
<1> DEFINE Failed(e) == IF e.status = "pending" /\ e.msg.key = k
                          THEN [e EXCEPT !.status = "failed"] ELSE e
           Retried(e) == IF e.msg.key = k THEN [e EXCEPT !.status = "pending"] ELSE e
<1>1. MarkFailed(C, k) = {Failed(e) : e \in C} /\ MarkRetrying(C, k) = {Retried(e) : e \in C}
  BY DEF MarkFailed, MarkRetrying
<1>2. \A e \in C : Failed(e).msg = e.msg /\ Retried(e).msg = e.msg
  BY DEF ChatMessage
<1>3. \A e \in C : /\ Failed(e).status = IF e.status = "pending" /\ e.msg.key = k
                                           THEN "failed" ELSE e.status
                   /\ Retried(e).status = IF e.msg.key = k THEN "pending" ELSE e.status
  BY DEF ChatMessage
<1> HIDE DEF Failed, Retried
<1>4. KeepsFailed(C, MarkFailed(C, k)) /\ KeepsFailed(C, MarkRetrying(C, k))
  BY <1>1, <1>2 DEF KeepsFailed
<1>5. Anchored(MarkFailed(C, k))
  <2> SUFFICES ASSUME NEW e \in C, Failed(e).status # "sent"
               PROVE  \E f \in C : /\ Failed(f).msg.key = Failed(e).msg.key
                                   /\ Failed(f).msg.gen = 0 /\ Failed(f).status = Failed(e).status
    BY <1>1 DEF Anchored
  <2>1. e.status # "sent"
    BY <1>3
  <2>2. PICK f \in C : f.msg.key = e.msg.key /\ f.msg.gen = 0 /\ f.status = e.status
    BY <2>1 DEF Anchored
  <2>3. Failed(f).status = Failed(e).status
    BY <1>3, <2>2
  <2> QED BY <1>2, <2>2, <2>3
<1>6. ASSUME NEW a \in C, a.status = "failed", a.msg.key = k
      PROVE  Anchored(MarkRetrying(C, k))
  <2> SUFFICES ASSUME NEW e \in C, Retried(e).status # "sent"
               PROVE  \E f \in C : /\ Retried(f).msg.key = Retried(e).msg.key
                                   /\ Retried(f).msg.gen = 0 /\ Retried(f).status = Retried(e).status
    BY <1>1 DEF Anchored
  <2>1. PICK b \in C : /\ b.msg.key = e.msg.key /\ b.msg.gen = 0
                       /\ e.msg.key = k \/ b.status = e.status
    <3>1. CASE e.msg.key = k
      BY <1>6, <3>1 DEF Anchored
    <3>2. CASE e.msg.key # k
      BY <1>3, <3>2 DEF Anchored
    <3> QED BY <3>1, <3>2
  <2>2. Retried(b).status = Retried(e).status
    BY <1>3, <2>1
  <2> QED BY <1>2, <2>1, <2>2
<1> QED BY <1>4, <1>5, <1>6

(* What a step does to a tab's messages.                                    *)
Applied(t) ==
  \E m \in Message, type \in {"create", "edit", "delete"} :
    m.gen > 0 /\ cache'[t] = Apply(cache[t], type, m)
Marked(t) ==
  \E k : \/ cache'[t] = MarkFailed(cache[t], k)
         \/ /\ cache'[t] = MarkRetrying(cache[t], k)
            /\ \E e \in cache[t] : e.status = "failed" /\ e.msg.key = k
Placeholding(t) ==
  \E m \in Message : m.gen = 0 /\ cache'[t] = cache[t] \cup {[msg |-> m, status |-> "pending"]}
Loaded(t) == LoadPage(t) /\ \A e \in cache'[t] : e.status = "sent"

LEMMA AnswerReal ==
  ASSUME TypeOK, RealAnswers, AnswersAsked, NEW a \in Answers
  PROVE  a.msg \in Message /\ a.msg.gen > 0 /\ a.type \in {"create", "edit", "delete"}
<1>1. PICK r \in Requests : pc[r] = "writing" /\ a = Answer1(r)
  BY DEF Answers
<1>2. a.type = req[r].op /\ a.msg = reply[r] /\ a.msg \in Message /\ req[r] \in Request
  BY <1>1 DEF Answer1, TypeOK
<1>3. a.msg \in ReplyCopies
  BY <1>1, <1>2 DEF ReplyCopies
<1> QED BY <1>2, <1>3 DEF RealAnswers, Request

LEMMA CacheMoves ==
  ASSUME TypeOK, General, AnswersAsked, [Next]_vars, NEW x \in Tabs
  PROVE  \/ cache'[x] = cache[x] \/ Applied(x) \/ Marked(x) \/ Placeholding(x) \/ Loaded(x)
<1> USE DEF tabVars
<1>0. cache \in [Tabs -> SUBSET ChatMessage]
  BY DEF TypeOK
<1>1. ASSUME NEW a \in Answers, NEW t \in Tabs, Applies(t, a)
      PROVE  cache'[x] = cache[x] \/ Applied(x)
  <2>1. a.msg \in Message /\ a.msg.gen > 0 /\ a.type \in {"create", "edit", "delete"}
    BY AnswerReal DEF General
  <2>2. cache' = [cache EXCEPT ![t] = Apply(cache[t], a.type, a.msg)]
    BY <1>1 DEF Applies, Show
  <2>3. CASE x = t
    <3>1. cache'[x] = Apply(cache[x], a.type, a.msg)
      BY <1>0, <2>2, <2>3
    <3> QED BY <2>1, <3>1 DEF Applied
  <2> QED BY <1>0, <2>2, <2>3
<1>2. ASSUME NEW r \in Requests, Receive(r) PROVE cache'[x] = cache[x] \/ Applied(x)
  BY <1>1, <1>2, AppliesAnswer
<1>3. ASSUME NEW t \in Tabs, Hear(t) PROVE cache'[x] = cache[x] \/ Applied(x)
  BY <1>1, <1>3, AppliesAnswer
<1>4. ASSUME NEW r \in Requests, LoseAnswer(r) PROVE cache'[x] = cache[x] \/ Marked(x)
  <2>1. \/ cache' = cache
        \/ cache' = [cache EXCEPT ![req[r].tab] = MarkFailed(cache[req[r].tab], req[r].msg.key)]
    BY <1>4 DEF LoseAnswer, Show
  <2>2. cache'[x] = cache[x] \/ cache'[x] = MarkFailed(cache[x], req[r].msg.key)
    BY <1>0, <2>1
  <2> QED BY <2>2 DEF Marked
<1>5. ASSUME NEW t \in Tabs, NEW r \in Requests, Retry(t, r)
      PROVE  cache'[x] = cache[x] \/ Marked(x)
  <2>1. PICK e \in cache[t] :
          /\ e.status = "failed"
          /\ cache' = [cache EXCEPT ![t] = MarkRetrying(cache[t], e.msg.key)]
    BY <1>5 DEF Retry, Show
  <2>2. cache'[x] = cache[x] \/ (x = t /\ cache'[x] = MarkRetrying(cache[x], e.msg.key))
    BY <1>0, <2>1
  <2> QED BY <2>1, <2>2 DEF Marked
<1>6. ASSUME NEW t \in Tabs, NEW r \in Requests, Send(t, r)
      PROVE  cache'[x] = cache[x] \/ Placeholding(x)
  <2> DEFINE m(k) == [key |-> k, gen |-> 0, version |-> 1, text |-> r]
  <2>1. PICK k \in Keys :
          UNCHANGED tabVars \/ Show(t, cache[t] \cup {[msg |-> m(k), status |-> "pending"]})
    BY <1>6, SendStep
  <2>2. PICK n \in {m(k)} : TRUE
    OBVIOUS
  <2>3. n \in Message /\ n.gen = 0
    BY DEF Message
  <2> HIDE DEF m
  <2>4. \/ cache' = cache
        \/ cache' = [cache EXCEPT ![t] = cache[t] \cup {[msg |-> n, status |-> "pending"]}]
    BY <2>1, <2>2 DEF Show
  <2>5. cache'[x] = cache[x] \/ cache'[x] = cache[x] \cup {[msg |-> n, status |-> "pending"]}
    BY <1>0, <2>4
  <2> QED BY <2>3, <2>5 DEF Placeholding
<1>7. ASSUME NEW t \in Tabs, LoadPage(t) PROVE cache'[x] = cache[x] \/ Loaded(x)
  <2>1. cache' = cache \/ cache' = [cache EXCEPT ![t] = {Sent(m) : m \in page[t]}]
    BY <1>7 DEF LoadPage, Show
  <2>2. \A e \in {Sent(m) : m \in page[t]} : e.status = "sent"
    BY DEF Sent
  <2>3. cache'[x] = cache[x] \/ (x = t /\ cache'[x] = {Sent(m) : m \in page[t]})
    BY <1>0, <2>1
  <2> QED BY <1>7, <2>2, <2>3 DEF Loaded
<1>8. \/ cache' = cache
      \/ \E r \in Requests : Receive(r) \/ LoseAnswer(r)
      \/ \E t \in Tabs : Hear(t) \/ LoadPage(t)
      \/ \E t \in Tabs, r \in Requests : Retry(t, r) \/ Send(t, r)
  BY DEF Next, UserStep, TabStep, Handle, HandleCreate, HandleUpdate, HandleDelete, Commit,
     Refuse, AnswerError, Answer, vars, OpenEditor, CancelEdit, SaveEdit, Delete, Write,
     ReceiveRefusal, Refetch, List, LosePage, Drop, Reconnect
<1> QED BY <1>2, <1>3, <1>4, <1>5, <1>6, <1>7, <1>8

LEMMA CacheKeeps ==
  ASSUME TypeOK, General, AnswersAsked, Anchors, [Next]_vars, NEW x \in Tabs
  PROVE  Anchored(cache'[x]) /\ (~LoadPage(x) => KeepsFailed(cache[x], cache'[x]))
<1>1. cache[x] \in SUBSET ChatMessage /\ Anchored(cache[x])
  BY DEF TypeOK, Anchors
<1>2. CASE cache'[x] = cache[x]
  BY <1>1, <1>2 DEF KeepsFailed
<1>3. CASE Applied(x)
  BY <1>1, <1>3, ApplyKeeps DEF Applied
<1>4. CASE Marked(x)
  BY <1>1, <1>4, MarksKeep DEF Marked
<1>5. CASE Placeholding(x)
  <2>1. PICK m \in Message :
          m.gen = 0 /\ cache'[x] = cache[x] \cup {[msg |-> m, status |-> "pending"]}
    BY <1>5 DEF Placeholding
  <2> QED BY <1>1, <2>1 DEF Anchored, KeepsFailed
<1>6. CASE Loaded(x)
  BY <1>6 DEF Loaded, Anchored
<1> QED BY <1>2, <1>3, <1>4, <1>5, <1>6, CacheMoves

(* A message that failed to send keeps a bubble with its client id, through *)
(* answers, events, other failures and retries: only the load of a list     *)
(* takes it away.                                                           *)
THEOREM FailedIsKept == Spec => FailedSendKept
<1> DEFINE Kept == \A t \in Tabs : ~LoadPage(t) =>
                     \A e \in cache[t] :
                       e.status = "failed" => \E f \in cache'[t] : f.msg.key = e.msg.key
<1>1. Init => Anchors
  BY DEF Init, Anchors, Anchored, Sent
<1>2. Settled /\ Anchors /\ [Next]_vars => Anchors'
  BY CacheKeeps DEF Settled, IInv, Anchors
<1>3. Settled /\ Anchors /\ [Next]_vars => Kept
  BY CacheKeeps DEF Settled, IInv, KeepsFailed
<1> QED BY AlwaysSettled, <1>1, <1>2, <1>3, PTL DEF Spec, FailedSendKept
=============================================================================
