--------------------------- MODULE ComposerProofs ---------------------------
(* Proofs about Composer, for any number of panes, conversations, texts,    *)
(* files and takes: its types, and that the microphone goes off.            *)
EXTENDS Composer, TLAPS

(* Who still works for a pane works for one that was opened, and so has a   *)
(* conversation to send to; without it a request might be made of Nowhere.  *)
Working ==
  /\ open => pane \in Panes
  /\ \A p \in 1..pane : at[p] \in Conversations
  /\ \A a \in asks : a.pane \in 1..pane
  /\ \A k \in picks : k.pane \in 1..pane
  /\ \A d \in due : d.pane \in 1..pane
  /\ \A p \in Panes : take[p] # 0 => p \in 1..pane

IInv == TypeOK /\ Working

-----------------------------------------------------------------------------
(* The cache functions and the requests                                     *)

LEMMA InsertTyped ==
  ASSUME NEW list \in SUBSET Copies, NEW i \in Ids
  PROVE  InsertOrReconcile(list, i) \in SUBSET Copies
<1>1. [id |-> i, row |-> TRUE, status |-> "sent"] \in Copies
  BY DEF Copies
<1> QED BY <1>1 DEF InsertOrReconcile

LEMMA FailedTyped ==
  ASSUME NEW list \in SUBSET Copies, NEW i \in Ids
  PROVE  MarkFailed(list, i) \in SUBSET Copies
BY DEF MarkFailed, Copies

LEMMA RetryingTyped ==
  ASSUME NEW list \in SUBSET Copies, NEW i \in Ids
  PROVE  MarkRetrying(list, i) \in SUBSET Copies
BY DEF MarkRetrying, Copies

LEMMA PostTyped ==
  ASSUME sends \in SUBSET Requests, NEW new \in SUBSET Ids, NEW kind \in Kinds,
         NEW p \in Panes, at[p] \in Conversations
  PROVE  Post(new, kind, p) \in SUBSET Requests
<1>1. \A s \in sends : [s EXCEPT !.latest = @ /\ ~(s.pane = p /\ s.kind = kind)] \in Requests
  BY DEF Requests
<1>2. \A i \in new : [id |-> i, kind |-> kind, pane |-> p, under |-> at[p],
                      latest |-> \A j \in new : j <= i] \in Requests
  BY DEF Requests
<1> QED BY <1>1, <1>2 DEF Post

LEMMA SendHomeTyped ==
  ASSUME home \in [Ids -> Conversations \cup {Nowhere}], NEW new, NEW p \in Panes,
         at[p] \in Conversations, SendHome(new, p)
  PROVE  home' \in [Ids -> Conversations \cup {Nowhere}]
BY DEF SendHome

(* What the clean-up of the recorder does, whichever pane it is for.        *)
LEMMA CleanupTyped ==
  ASSUME TypeOK, NEW p \in Panes, Cleanup(p)
  PROVE  /\ take' \in [Panes -> Ids \cup {0}]
         /\ on' \subseteq Ids
         /\ \A q \in Panes : take'[q] = IF q = p THEN 0 ELSE take[q]
BY DEF Cleanup, TypeOK

LEMMA StarvedTyped ==
  ASSUME TypeOK, NEW p \in Panes
  PROVE  /\ Starved(p) \subseteq [id : Ids, pane : Panes, asked : SUBSET Ids]
         /\ \A d \in Starved(p) : d.pane = p /\ take[p] # 0
<1>1. \A i \in on : i \in Ids /\ i # 0
  BY DEF TypeOK, Ids
<1> QED BY <1>1 DEF Starved

LEMMA BeginTyped ==
  ASSUME TypeOK, Begin
  PROVE  used' \in 0..MaxIds /\ New \in Ids
<1>1. used \in Nat /\ MaxIds \in Nat /\ used < MaxIds /\ used' = used + 1
  BY BoundsAssumption DEF TypeOK, Begin, New
<1> QED BY <1>1 DEF New, Ids

-----------------------------------------------------------------------------
(* Types                                                                    *)

LEMMA InitTyped == Init => IInv
<1> SUFFICES ASSUME Init PROVE IInv
  OBVIOUS
<1>1. /\ 0 \in 0..MaxPanes /\ 0 \in 0..MaxIds /\ 0 \in 0..MaxErrors
      /\ \A p \in 1..0 : FALSE
  BY BoundsAssumption
<1>2. TypeOK
  BY <1>1 DEF Init, TypeOK
<1>3. Working
  BY <1>1 DEF Init, Working
<1> QED BY <1>2, <1>3 DEF IInv

LEMMA RecorderTyped ==
  ASSUME IInv,
         \/ StartRecording \/ FinishRecording \/ CancelRecording \/ Stopping
         \/ \E a \in asks : Granted(a) \/ Denied(a)
  PROVE  IInv'
<1> USE DEF IInv
<1>1. CASE StartRecording
  <2>1. New \in Ids /\ used' \in 0..MaxIds
    BY <1>1, BeginTyped DEF StartRecording
  <2>2. pane \in Panes /\ pane \in 1..pane
    BY <1>1 DEF StartRecording, Composing, Working, Panes
  <2>3. TypeOK'
    BY <1>1, <2>1, <2>2 DEF StartRecording, TypeOK, serverVars
  <2>4. Working'
    BY <1>1, <2>2 DEF StartRecording, Working, serverVars
  <2> QED BY <2>3, <2>4
<1>2. ASSUME NEW a \in asks, Granted(a) PROVE IInv'
  <2>1. a \in [id : Ids, pane : Panes] /\ a.pane \in 1..pane
    BY DEF TypeOK, Working
  <2>2. take' \in [Panes -> Ids \cup {0}] /\ chunks' \in [Panes -> SUBSET Ids]
    BY <1>2, <2>1 DEF Granted, TypeOK
  <2>3. rash' \subseteq Ids
    BY <1>2, <2>1 DEF Granted, TypeOK
  <2>4. TypeOK'
    BY <1>2, <2>1, <2>2, <2>3 DEF Granted, TypeOK, serverVars
  <2>5. \A p \in Panes : take'[p] # 0 => p \in 1..pane
    BY <1>2, <2>1 DEF Granted, TypeOK, Working
  <2>6. Working'
    BY <1>2, <2>5 DEF Granted, Working, serverVars
  <2> QED BY <2>4, <2>6
<1>3. ASSUME NEW a \in asks, Denied(a) PROVE IInv'
  BY <1>3 DEF Denied, TypeOK, Working, serverVars
<1>4. CASE FinishRecording
  <2>1. pane \in Panes /\ take[pane] \in Ids /\ pane \in 1..pane
    BY <1>4 DEF FinishRecording, TypeOK, Working, Panes
  <2>2. /\ due' \subseteq [id : Ids, pane : Panes, asked : SUBSET Ids]
        /\ \A d \in due' : d.pane \in 1..pane
        /\ used' \in 0..MaxIds
    <3>1. CASE due' = due \cup {[id |-> take[pane], pane |-> pane, asked |-> {take[pane]}]}
               /\ UNCHANGED used
      BY <2>1, <3>1 DEF TypeOK, Working
    <3>2. ASSUME NEW d \in due, Begin,
                 due' = (due \ {d}) \cup {[d EXCEPT !.asked = @ \cup {New}]}
          PROVE  <2>2!1 /\ <2>2!2 /\ <2>2!3
      <4>1. New \in Ids /\ used' \in 0..MaxIds
        BY <3>2, BeginTyped
      <4>2. d \in [id : Ids, pane : Panes, asked : SUBSET Ids] /\ d.pane \in 1..pane
        BY DEF TypeOK, Working
      <4>3. /\ [d EXCEPT !.asked = @ \cup {New}] \in [id : Ids, pane : Panes, asked : SUBSET Ids]
            /\ [d EXCEPT !.asked = @ \cup {New}].pane = d.pane
        BY <4>1, <4>2
      <4> QED BY <3>2, <4>1, <4>2, <4>3 DEF TypeOK, Working
    <3> QED BY <1>4, <3>1, <3>2 DEF FinishRecording
  <2>3. TypeOK'
    BY <1>4, <2>2 DEF FinishRecording, TypeOK, serverVars
  <2>4. Working'
    BY <1>4, <2>2 DEF FinishRecording, Working, serverVars
  <2> QED BY <2>3, <2>4
<1>5. CASE CancelRecording
  <2>1. pane \in Panes /\ pane \in 1..pane
    BY <1>5 DEF CancelRecording, Working, Panes
  <2>2. TypeOK'
    BY <1>5, <2>1, CleanupTyped, StarvedTyped DEF CancelRecording, TypeOK, serverVars
  <2>3. Working'
    BY <1>5, <2>1, CleanupTyped, StarvedTyped DEF CancelRecording, Working, serverVars
  <2> QED BY <2>2, <2>3
<1>6. ASSUME NEW d \in due, RecorderStopped(d) PROVE IInv'
  <2>1. /\ d \in [id : Ids, pane : Panes, asked : SUBSET Ids] /\ d.pane \in 1..pane
        /\ at[d.pane] \in Conversations
    BY DEF TypeOK, Working
  <2>2. /\ take' \in [Panes -> Ids \cup {0}]
        /\ on' \subseteq Ids
        /\ \A p \in Panes : take'[p] # 0 => take[p] # 0
        /\ due' \subseteq [id : Ids, pane : Panes, asked : SUBSET Ids]
        /\ \A e \in due' : e.pane \in 1..pane
    <3>1. CASE due' = due \ {d} /\ UNCHANGED <<take, on>>
      BY <3>1 DEF TypeOK, Working
    <3>2. CASE due' = (due \ {d}) \cup Starved(d.pane) /\ Cleanup(d.pane)
      BY <2>1, <3>2, CleanupTyped, StarvedTyped DEF TypeOK, Working
    <3> QED BY <1>6, <3>1, <3>2 DEF RecorderStopped
  <2>3. sends' \in SUBSET Requests /\ home' \in [Ids -> Conversations \cup {Nowhere}]
    <3>1. PICK sounding \in {{}, d.asked} :
            sends' = Post(sounding, "voice", d.pane) /\ SendHome(sounding, d.pane)
      BY <1>6 DEF RecorderStopped
    <3>2. sounding \in SUBSET Ids /\ "voice" \in Kinds
      BY <2>1 DEF Kinds
    <3> QED BY <2>1, <3>1, <3>2, PostTyped, SendHomeTyped DEF TypeOK
  <2>4. chunks' \in [Panes -> SUBSET Ids]
    BY <1>6, <2>1 DEF RecorderStopped, TypeOK
  <2>5. TypeOK'
    BY <1>6, <2>2, <2>3, <2>4 DEF RecorderStopped, TypeOK, serverVars
  <2>6. Working'
    BY <1>6, <2>2 DEF RecorderStopped, Working, serverVars
  <2> QED BY <2>5, <2>6
<1> QED BY <1>1, <1>2, <1>3, <1>4, <1>5, <1>6 DEF Stopping

LEMMA FilesTyped ==
  ASSUME IInv, NEW k \in picks,
         picks' = picks \ {k}, SendFile(k) \/ RefuseFile(k),
         UNCHANGED <<pane, open, at, draft, recorderVars, used, serverVars, lists, errors>>
  PROVE  IInv'
<1> USE DEF IInv
<1>1. k \in [id : Ids, pane : Panes, file : Files] /\ at[k.pane] \in Conversations
  BY DEF TypeOK, Working
<1>2. /\ sends' \in SUBSET Requests
      /\ home' \in [Ids -> Conversations \cup {Nowhere}]
      /\ said' \subseteq Ids
  <2>1. CASE SendFile(k)
    BY <1>1, <2>1, PostTyped, SendHomeTyped DEF SendFile, TypeOK, Kinds
  <2>2. CASE RefuseFile(k)
    BY <1>1, <2>2 DEF RefuseFile, TypeOK
  <2> QED BY <2>1, <2>2
<1>3. TypeOK'
  BY <1>2 DEF TypeOK, recorderVars, serverVars
<1>4. Working'
  BY DEF Working, recorderVars
<1> QED BY <1>3, <1>4

LEMMA WritingTyped ==
  ASSUME IInv,
         \/ Type \/ Clear \/ Submit
         \/ \E f \in Files : PickFile(f)
         \/ \E c \in Conversations : \E m \in lists[c] : Retry(m)
  PROVE  IInv'
<1> USE DEF IInv
<1>0. open => pane \in Panes /\ pane \in 1..pane /\ at[pane] \in Conversations
  BY DEF TypeOK, Working, Panes
<1>1. CASE Type \/ Clear
  <2>1. TypeOK'
    BY <1>0, <1>1 DEF Type, Clear, Composing, TypeOK, recorderVars, serverVars
  <2>2. Working'
    BY <1>1 DEF Type, Clear, Working, recorderVars
  <2> QED BY <2>1, <2>2
<1>2. CASE Submit
  <2>1. /\ New \in Ids /\ used' \in 0..MaxIds
        /\ pane \in Panes /\ at[pane] \in Conversations
    BY <1>0, <1>2, BeginTyped DEF Submit, Composing
  <2>2. [id |-> New, row |-> FALSE, status |-> "pending"] \in Copies
    BY <2>1 DEF Copies
  <2>3. lists' \in [Conversations -> SUBSET Copies]
    BY <1>2, <2>1, <2>2 DEF Submit, TypeOK
  <2>4. sends' \in SUBSET Requests /\ home' \in [Ids -> Conversations \cup {Nowhere}]
    BY <1>2, <2>1, PostTyped, SendHomeTyped DEF Submit, TypeOK, Kinds
  <2>5. TypeOK'
    BY <1>2, <2>1, <2>3, <2>4 DEF Submit, TypeOK, recorderVars, serverVars
  <2>6. Working'
    BY <1>2 DEF Submit, Working, recorderVars
  <2> QED BY <2>5, <2>6
<1>3. ASSUME NEW f \in Files, PickFile(f) PROVE IInv'
  <2>1. New \in Ids /\ used' \in 0..MaxIds /\ pane \in Panes /\ pane \in 1..pane
    BY <1>0, <1>3, BeginTyped DEF PickFile, Composing
  <2>2. /\ picks' \subseteq [id : Ids, pane : Panes, file : Files]
        /\ \A k \in picks' : k.pane \in 1..pane
        /\ said' \subseteq Ids
    <3>1. CASE said' = said \cup {New} /\ UNCHANGED picks
      BY <2>1, <3>1 DEF TypeOK, Working
    <3>2. CASE picks' = picks \cup {[id |-> New, pane |-> pane, file |-> f]} /\ UNCHANGED said
      BY <2>1, <3>2 DEF TypeOK, Working
    <3> QED BY <1>3, <3>1, <3>2 DEF PickFile
  <2>3. TypeOK'
    BY <1>3, <2>1, <2>2 DEF PickFile, TypeOK, recorderVars, serverVars
  <2>4. Working'
    BY <1>3, <2>2 DEF PickFile, Working, recorderVars
  <2> QED BY <2>3, <2>4
<1>4. ASSUME NEW c \in Conversations, NEW m \in lists[c], Retry(m) PROVE IInv'
  <2>1. m \in Copies /\ pane \in Panes /\ at[pane] \in Conversations
    BY <1>0, <1>4 DEF Retry, TypeOK
  <2>2. m.id \in Ids
    BY <2>1 DEF Copies
  <2>3. MarkRetrying(lists[at[pane]], m.id) \in SUBSET Copies
    BY <2>1, <2>2, RetryingTyped DEF TypeOK
  <2>4. lists' \in [Conversations -> SUBSET Copies]
    BY <1>4, <2>1, <2>3 DEF Retry, TypeOK
  <2>5. sends' \in SUBSET Requests
    BY <1>4, <2>1, <2>2, PostTyped DEF Retry, TypeOK, Kinds
  <2>6. TypeOK'
    BY <1>4, <2>4, <2>5 DEF Retry, TypeOK, recorderVars, serverVars
  <2>7. Working'
    BY <1>4 DEF Retry, Working, recorderVars
  <2> QED BY <2>6, <2>7
<1> QED BY <1>1, <1>2, <1>3, <1>4

LEMMA AnswersTyped ==
  ASSUME IInv, Answering \/ Fetch \/ \E i \in Ids : Hear(i)
  PROVE  IInv'
<1> USE DEF IInv
<1>1. ASSUME NEW s \in sends, Handled(s) \/ Answer(s) \/ Fail(s) PROVE IInv'
  <2>1. s \in Requests
    BY DEF TypeOK
  <2>2. s.id \in Ids /\ s.under \in Conversations
    BY <2>1 DEF Requests
  <2>3. /\ InsertOrReconcile(lists[s.under], s.id) \in SUBSET Copies
        /\ MarkFailed(lists[s.under], s.id) \in SUBSET Copies
    BY <2>2, InsertTyped, FailedTyped DEF TypeOK
  <2>4. lists' \in [Conversations -> SUBSET Copies]
    BY <1>1, <2>2, <2>3
      DEF Handled, Create, CreateVoice, CreateMedia, Store, Answer, Fail, TypeOK
  <2>5. errors' \in 0..MaxErrors
    BY <1>1, BoundsAssumption
      DEF Handled, Create, CreateVoice, CreateMedia, Store, Answer, Fail, TypeOK, serverVars
  <2>6. stored' \subseteq Ids /\ heard' \subseteq Ids /\ said' \subseteq Ids
    BY <1>1, <2>2
      DEF Handled, Create, CreateVoice, CreateMedia, Store, Answer, Fail, TypeOK, serverVars
  <2>7. sends' \subseteq Requests
    BY <1>1 DEF Handled, Create, CreateVoice, CreateMedia, Store, Answer, Fail, TypeOK
  <2>8. TypeOK'
    BY <1>1, <2>4, <2>5, <2>6, <2>7
      DEF Handled, Create, CreateVoice, CreateMedia, Store, Answer, Fail, TypeOK, recorderVars
  <2>9. Working'
    BY <1>1
      DEF Handled, Create, CreateVoice, CreateMedia, Store, Answer, Fail, Working, recorderVars
  <2> QED BY <2>8, <2>9
<1>2. ASSUME NEW i \in Ids, Hear(i) PROVE IInv'
  <2>1. lists' \in [Conversations -> SUBSET Copies]
    <3>1. CASE home[i] \in Conversations
      BY <1>2, <3>1, InsertTyped DEF Hear, TypeOK
    <3>2. CASE home[i] \notin Conversations
      BY <1>2, <3>2 DEF Hear, TypeOK
    <3> QED BY <3>1, <3>2
  <2>2. TypeOK'
    BY <1>2, <2>1 DEF Hear, TypeOK, recorderVars
  <2>3. Working'
    BY <1>2 DEF Hear, Working, recorderVars
  <2> QED BY <2>2, <2>3
<1>3. CASE Fetch
  <2>1. \A i \in Ids : [id |-> i, row |-> TRUE, status |-> "sent"] \in Copies
    BY DEF Copies
  <2>2. {[id |-> i, row |-> TRUE, status |-> "sent"] :
           i \in {j \in stored : home[j] = at[pane]}} \in SUBSET Copies
    BY <2>1 DEF TypeOK
  <2>3. lists' \in [Conversations -> SUBSET Copies]
    BY <1>3, <2>2 DEF Fetch, TypeOK
  <2>4. TypeOK'
    BY <1>3, <2>3 DEF Fetch, TypeOK, recorderVars, serverVars
  <2>5. Working'
    BY <1>3 DEF Fetch, Working, recorderVars
  <2> QED BY <2>4, <2>5
<1> QED BY <1>1, <1>2, <1>3 DEF Answering

LEMMA PagesTyped ==
  ASSUME IInv, ClosePane \/ \E c \in Conversations : OpenPane(c) \/ SwitchTo(c)
  PROVE  IInv'
<1> USE DEF IInv
<1>1. CASE ClosePane
  <2>1. pane \in Panes /\ pane \in 1..pane
    BY <1>1 DEF ClosePane, Working, Panes
  <2>2. TypeOK'
    BY <1>1, <2>1, CleanupTyped, StarvedTyped DEF ClosePane, TypeOK, serverVars
  <2>3. Working'
    BY <1>1, <2>1, CleanupTyped, StarvedTyped DEF ClosePane, Working
  <2> QED BY <2>2, <2>3
<1>2. ASSUME NEW c \in Conversations, OpenPane(c) PROVE IInv'
  <2>1. /\ pane' = pane + 1 /\ pane' \in Panes
        /\ \A p \in 1..pane' : p = pane' \/ p \in 1..pane
        /\ 1..pane \subseteq 1..pane'
    BY <1>2, BoundsAssumption DEF OpenPane, TypeOK, Panes
  <2>2. /\ at' \in [Panes -> Conversations \cup {Nowhere}]
        /\ at'[pane'] = c
        /\ \A p \in 1..pane : at'[p] \in Conversations
    BY <1>2, <2>1 DEF OpenPane, TypeOK, Working
  <2>3. TypeOK'
    BY <1>2, <2>1, <2>2 DEF OpenPane, TypeOK, Panes, recorderVars, serverVars
  <2>4. Working'
    BY <1>2, <2>1, <2>2 DEF OpenPane, Working, recorderVars
  <2> QED BY <2>3, <2>4
<1>3. ASSUME NEW c \in Conversations, SwitchTo(c) PROVE IInv'
  <2>1. /\ at' \in [Panes -> Conversations \cup {Nowhere}]
        /\ \A p \in 1..pane : at'[p] \in Conversations
    BY <1>3 DEF SwitchTo, TypeOK, Working
  <2>2. sends' \subseteq Requests
    <3>1. \A s \in sends : s \in Requests
      BY DEF TypeOK
    <3>2. \A s \in sends :
            [s EXCEPT !.under = IF s.pane = pane /\ s.latest THEN c ELSE @] \in Requests
      BY <3>1 DEF Requests
    <3> QED BY <1>3, <3>2 DEF SwitchTo
  <2>3. TypeOK'
    BY <1>3, <2>1, <2>2 DEF SwitchTo, TypeOK, recorderVars, serverVars
  <2>4. Working'
    BY <1>3, <2>1 DEF SwitchTo, Working, recorderVars
  <2> QED BY <2>3, <2>4
<1> QED BY <1>1, <1>2, <1>3

LEMMA StepTyped == IInv /\ [Next]_vars => IInv'
<1> SUFFICES ASSUME IInv, [Next]_vars PROVE IInv'
  OBVIOUS
<1>1. CASE User
  BY <1>1, PagesTyped, WritingTyped, RecorderTyped DEF User
<1>2. ASSUME NEW k \in picks, ReadFile(k) PROVE IInv'
  BY <1>2, FilesTyped DEF ReadFile, ReadPicture, ReadVideo
<1>3. CASE Stopping \/ \E a \in asks : Granted(a) \/ Denied(a)
  BY <1>3, RecorderTyped
<1>4. CASE Answering \/ Fetch \/ \E i \in Ids : Hear(i)
  BY <1>4, AnswersTyped
<1>5. CASE UNCHANGED vars
  BY <1>5 DEF vars, recorderVars, serverVars, IInv, TypeOK, Working
<1> QED BY <1>1, <1>2, <1>3, <1>4, <1>5 DEF Next, Reading

(* Every variable keeps its type, and no bound is passed: above all, what   *)
(* still works for a pane that is gone has a conversation to send to.       *)
THEOREM TypeCorrect == Spec => []TypeOK
<1>1. IInv => TypeOK
  BY DEF IInv
<1> QED BY InitTyped, StepTyped, <1>1, PTL DEF Spec

-----------------------------------------------------------------------------
(* The microphone                                                           *)

(* A clean-up stops the microphone of the refs, so the takes left on were   *)
(* already off the refs: begun beside another, or for a pane closed before. *)
LEMMA CleanupReleases ==
  ASSUME IInv, MicReleased, NEW p \in Panes, Cleanup(p), pane' = pane,
         rash' = rash, open' = open \/ p = pane
  PROVE  MicReleased'
<1> SUFFICES ASSUME NEW i \in on', i \notin rash'
             PROVE  open' /\ take'[pane'] = i
  BY DEF MicReleased
<1>1. i \in on /\ i # take[p] /\ open /\ take[pane] = i
  BY DEF Cleanup, MicReleased
<1>2. pane # p /\ pane \in Panes
  BY <1>1 DEF IInv, Working
<1> QED BY <1>1, <1>2, CleanupTyped DEF IInv

LEMMA StepReleases == IInv /\ MicReleased /\ [Next]_vars => MicReleased'
<1> SUFFICES ASSUME IInv, MicReleased, [Next]_vars PROVE MicReleased'
  OBVIOUS
<1>0. open => pane \in Panes
  BY DEF IInv, Working
<1>1. ASSUME NEW a \in asks, Granted(a) PROVE MicReleased'
  <2>1. a.id \in Ids /\ a.pane \in Panes
    BY DEF IInv, TypeOK
  <2> SUFFICES ASSUME NEW i \in on', i \notin rash'
               PROVE  open' /\ take'[pane'] = i
    BY DEF MicReleased
  <2>2. CASE i = a.id
    BY <1>1, <2>1, <2>2 DEF Granted, Ids, IInv, TypeOK
  <2>3. CASE i # a.id
    <3>1. i \in on /\ open /\ take[pane] = i /\ i \in Ids /\ i # 0
      BY <1>1, <2>3 DEF Granted, MicReleased, IInv, TypeOK, Ids
    <3>2. a.pane # pane
      BY <1>1, <3>1 DEF Granted
    <3> QED BY <1>0, <1>1, <2>1, <3>1, <3>2 DEF Granted, IInv, TypeOK
  <2> QED BY <2>2, <2>3
<1>2. CASE CancelRecording \/ ClosePane
  BY <1>0, <1>2, CleanupReleases DEF CancelRecording, ClosePane
<1>3. ASSUME NEW d \in due, RecorderStopped(d) PROVE MicReleased'
  <2>1. d.pane \in Panes
    BY DEF IInv, TypeOK
  <2> QED BY <1>3, <2>1, CleanupReleases DEF RecorderStopped, MicReleased
<1>4. ASSUME NEW c \in Conversations, OpenPane(c) PROVE MicReleased'
  BY <1>4 DEF OpenPane, MicReleased, recorderVars
<1>5. ASSUME NEW c \in Conversations, SwitchTo(c) PROVE MicReleased'
  BY <1>5 DEF SwitchTo, MicReleased, recorderVars
<1>6. CASE StartRecording \/ FinishRecording
  BY <1>6 DEF StartRecording, FinishRecording, MicReleased
<1>7. ASSUME \/ Type \/ Clear \/ Submit
             \/ \E f \in Files : PickFile(f)
             \/ \E c \in Conversations : \E m \in lists[c] : Retry(m)
             \/ \E k \in picks : ReadFile(k)
             \/ \E a \in asks : Denied(a)
      PROVE  MicReleased'
  <2>1. UNCHANGED <<on, take, pane, open, rash>>
    <3>1. CASE Type \/ Clear \/ Submit
      BY <3>1 DEF Type, Clear, Submit, recorderVars
    <3>2. ASSUME NEW f \in Files, PickFile(f) PROVE <2>1
      BY <3>2 DEF PickFile, recorderVars
    <3>3. ASSUME NEW m, Retry(m) PROVE <2>1
      BY <3>3 DEF Retry, recorderVars
    <3>4. ASSUME NEW k \in picks, ReadFile(k) PROVE <2>1
      BY <3>4 DEF ReadFile, ReadPicture, ReadVideo, recorderVars
    <3>5. ASSUME NEW a \in asks, Denied(a) PROVE <2>1
      BY <3>5 DEF Denied
    <3> QED BY <1>7, <3>1, <3>2, <3>3, <3>4, <3>5
  <2> QED BY <2>1 DEF MicReleased
<1>8. CASE Answering \/ Fetch \/ (\E i \in Ids : Hear(i)) \/ UNCHANGED vars
  BY <1>8
    DEF Answering, Handled, Create, CreateVoice, CreateMedia, Store, Answer, Fail,
        Fetch, Hear, vars, MicReleased, recorderVars
<1> QED BY <1>1, <1>2, <1>3, <1>4, <1>5, <1>6, <1>7, <1>8 DEF Next, User, Reading, Stopping

(* However many panes are opened and closed and however the browser delays  *)
(* its grants and its stop events, the microphone is on only while the pane *)
(* that is open shows that it records, but for the takes counted as rash.   *)
THEOREM MicrophoneReleased == Spec => []MicReleased
<1>1. Init => MicReleased
  BY DEF Init, MicReleased
<1> QED BY <1>1, InitTyped, StepTyped, StepReleases, PTL DEF Spec
=============================================================================
