------------------------------ MODULE Composer ------------------------------
(* The pane of one browser tab that shows a conversation and composes what  *)
(* is sent to it: MessageComposer with the draft, the voice recorder        *)
(* (useAudioRecorder) and the files it prepares, and the three mutations    *)
(* that ConversationView and ChannelConversationView give it.  A pane has no*)
(* key: it outlives a change of conversation, with its draft, its recording,*)
(* its files and its mutations, whose options then become those of the new  *)
(* conversation (TanStack Query hands them to the latest mutation of each   *)
(* observer even while it is pending).  Leaving the page closes the pane.   *)
EXTENDS Naturals, FiniteSets

CONSTANTS
  Conversations,
  Nowhere,        \* no conversation
  Files,          \* the kinds of files that are picked
  MaxPanes,       \* bound: panes opened one after another
  MaxIds,         \* bound: texts, files and takes begun
  MaxErrors       \* bound: requests that fail

ASSUME ComposerAssumption ==
  /\ Nowhere \notin Conversations
  /\ Files \subseteq {"picture", "video", "too large", "too long", "other"}

ASSUME BoundsAssumption == MaxPanes \in Nat /\ MaxIds \in Nat /\ MaxErrors \in Nat

Panes == 1..MaxPanes
Ids == 1..MaxIds
Kinds == {"text", "voice", "media"}

VARIABLES
  pane,     \* the last pane opened
  open,     \* whether it is still open
  at,       \* per pane: the conversation it shows, or showed last
  draft,    \* the conversation the text was begun in; Nowhere: no text
  picks,    \* the files being read for a pane
  asks,     \* the takes a pane waits for a microphone for
  take,     \* per pane: the take of the recorder's refs, 0 for null
  chunks,   \* per pane: the takes whose sound is in chunksRef
  on,       \* the takes whose microphone and timer run
  due,      \* the recorders whose "stop" event is to come, with what is to be sent then
  used,     \* ids given away
  home,     \* per id: the conversation it was sent to
  sends,    \* requests under way
  stored,   \* messages the server has
  heard,    \* messages whose message.created was received
  lists,    \* per conversation: the cached copies of its messages
  said,     \* ids of which a toast has said that they failed
  rash,     \* takes begun beside another, or granted to a pane already closed
  errors

recorderVars == <<asks, take, chunks, on, due, rash>>
serverVars == <<stored, heard>>
vars == <<pane, open, at, draft, picks, recorderVars, used, home, sends,
          serverVars, lists, said, errors>>

Copies == [id : Ids, row : BOOLEAN, status : {"pending", "sent", "failed"}]
Requests == [id : Ids, kind : Kinds, pane : Panes, under : Conversations, latest : BOOLEAN]

TypeOK ==
  /\ pane \in 0..MaxPanes /\ open \in BOOLEAN
  /\ at \in [Panes -> Conversations \cup {Nowhere}]
  /\ draft \in Conversations \cup {Nowhere}
  /\ picks \subseteq [id : Ids, pane : Panes, file : Files]
  /\ asks \subseteq [id : Ids, pane : Panes]
  /\ take \in [Panes -> Ids \cup {0}]
  /\ chunks \in [Panes -> SUBSET Ids]
  /\ on \subseteq Ids
  /\ due \subseteq [id : Ids, pane : Panes, asked : SUBSET Ids]
  /\ used \in 0..MaxIds
  /\ home \in [Ids -> Conversations \cup {Nowhere}]
  /\ sends \subseteq Requests
  /\ stored \subseteq Ids /\ heard \subseteq Ids
  /\ lists \in [Conversations -> SUBSET Copies]
  /\ said \subseteq Ids /\ rash \subseteq Ids
  /\ errors \in 0..MaxErrors

Init ==
  /\ pane = 0 /\ open = FALSE
  /\ at = [p \in Panes |-> Nowhere]
  /\ draft = Nowhere /\ picks = {}
  /\ asks = {} /\ on = {} /\ due = {} /\ rash = {}
  /\ take = [p \in Panes |-> 0]
  /\ chunks = [p \in Panes |-> {}]
  /\ used = 0
  /\ home = [i \in Ids |-> Nowhere]
  /\ sends = {} /\ stored = {} /\ heard = {}
  /\ lists = [c \in Conversations |-> {}]
  /\ said = {}
  /\ errors = 0

Shown == IF open THEN at[pane] ELSE Nowhere
New == used + 1
Begin == used < MaxIds /\ used' = New
Composing == open /\ take[pane] = 0      \* otherwise the recording bar is shown
Preparing == \E k \in picks : k.pane = pane
Running(i) == i \in on /\ \A d \in due : d.id # i

-----------------------------------------------------------------------------
(* The cache of a conversation: messageCache.ts.                            *)

InsertOrReconcile(list, i) ==
  {m \in list : m.id # i \/ (~m.row /\ m.status # "pending")}
    \cup {[id |-> i, row |-> TRUE, status |-> "sent"]}
MarkFailed(list, i) ==
  {[m EXCEPT !.status = IF m.id = i /\ @ = "pending" THEN "failed" ELSE @] : m \in list}
MarkRetrying(list, i) ==
  {[m EXCEPT !.status = IF m.id = i THEN "pending" ELSE @] : m \in list}

(* Requests made by a mutation of pane p.  Its observer follows only the    *)
(* latest of them; what answers the others stays as it was.                 *)
Post(new, kind, p) ==
  {[s EXCEPT !.latest = @ /\ ~(s.pane = p /\ s.kind = kind)] : s \in sends}
    \cup {[id |-> i, kind |-> kind, pane |-> p, under |-> at[p],
           latest |-> \A j \in new : j <= i] : i \in new}
SendHome(new, p) ==
  home' = [i \in Ids |-> IF i \in new THEN at[p] ELSE home[i]]

-----------------------------------------------------------------------------
(* The recorder: useAudioRecorder.                                          *)

CleanupRefsOnly(p) ==      \* faulty: the tracks are not stopped
  take' = [take EXCEPT ![p] = 0] /\ UNCHANGED on
CleanupMicOnly(p) ==       \* faulty: the bar stays
  on' = on \ {take[p]} /\ UNCHANGED take

(* The microphone of the refs goes off; its recorder, if it still ran, stops*)
(* for want of a track.                                                     *)
Cleanup(p) ==
  /\ take' = [take EXCEPT ![p] = 0]
  /\ on' = on \ {take[p]}
Starved(p) ==
  {[id |-> i, pane |-> p, asked |-> {}] : i \in {j \in on : j = take[p] /\ Running(j)}}

(* start() first waits for the browser, and for its user, to grant the      *)
(* microphone; the button can be clicked again meanwhile.                   *)
StartRecording ==
  /\ Composing /\ draft = Nowhere
  /\ Begin
  /\ asks' = asks \cup {[id |-> New, pane |-> pane]}
  /\ UNCHANGED <<pane, open, at, draft, picks, take, chunks, on, due, rash, home, sends,
                 serverVars, lists, said, errors>>

Granted(a) ==
  /\ asks' = asks \ {a}
  /\ take' = [take EXCEPT ![a.pane] = a.id]
  /\ chunks' = [chunks EXCEPT ![a.pane] = {}]
  /\ on' = on \cup {a.id}
  /\ rash' = IF open /\ a.pane = pane /\ take[pane] = 0
               THEN rash ELSE rash \cup ({a.id, take[a.pane]} \ {0})
  /\ UNCHANGED <<pane, open, at, draft, picks, due, used, home, sends, serverVars, lists,
                 said, errors>>

Denied(a) ==
  /\ asks' = asks \ {a}
  /\ said' = said \cup {a.id}
  /\ UNCHANGED <<pane, open, at, draft, picks, take, chunks, on, due, rash, used, home,
                 sends, serverVars, lists, errors>>

(* "Send voice message": stop() leaves the bar as it is until the "stop"    *)
(* event, so a second click awaits the same event, to send the take again.  *)
FinishRecording ==
  /\ open /\ take[pane] # 0
  /\ \/ /\ Running(take[pane])
        /\ due' = due \cup {[id |-> take[pane], pane |-> pane, asked |-> {take[pane]}]}
        /\ UNCHANGED used
     \/ \E d \in due :
          /\ d.id = take[pane]
          /\ Begin
          /\ due' = (due \ {d}) \cup {[d EXCEPT !.asked = @ \cup {New}]}
  /\ UNCHANGED <<pane, open, at, draft, picks, asks, take, chunks, on, rash, home, sends,
                 serverVars, lists, said, errors>>

CancelRecording ==
  /\ open /\ take[pane] # 0
  /\ due' = due \cup Starved(pane)
  /\ Cleanup(pane)
  /\ UNCHANGED <<pane, open, at, draft, picks, asks, chunks, rash, used, home, sends,
                 serverVars, lists, said, errors>>

(* The "dataavailable" and "stop" events of a recorder.  A stop() that      *)
(* awaited them cleans up and sends the sound gathered, to the conversation *)
(* the pane shows by then; nothing is sent of a take without length.        *)
RecorderStopped(d) ==
  /\ chunks' = [chunks EXCEPT ![d.pane] = @ \cup {d.id}]
  /\ \/ /\ d.asked = {}
        /\ due' = due \ {d}
        /\ UNCHANGED <<take, on>>
     \/ /\ d.asked # {}
        /\ due' = (due \ {d}) \cup Starved(d.pane)
        /\ Cleanup(d.pane)
  /\ \E sounding \in {{}, d.asked} :
       /\ sends' = Post(sounding, "voice", d.pane)
       /\ SendHome(sounding, d.pane)
  /\ UNCHANGED <<pane, open, at, draft, picks, asks, rash, used, serverVars, lists, said,
                 errors>>

-----------------------------------------------------------------------------
(* Texts and files: MessageComposer.                                        *)

Type ==
  /\ Composing /\ draft = Nowhere
  /\ draft' = at[pane]
  /\ UNCHANGED <<pane, open, at, picks, recorderVars, used, home, sends, serverVars, lists,
                 said, errors>>

Clear ==
  /\ Composing /\ draft # Nowhere
  /\ draft' = Nowhere
  /\ UNCHANGED <<pane, open, at, picks, recorderVars, used, home, sends, serverVars, lists,
                 said, errors>>

(* submit() and useSendMessage's send: the text goes to the conversation    *)
(* shown, wherever it was begun.                                            *)
Submit ==
  /\ Composing /\ draft # Nowhere
  /\ Begin
  /\ lists' = [lists EXCEPT ![at[pane]] =
                 @ \cup {[id |-> New, row |-> FALSE, status |-> "pending"]}]
  /\ sends' = Post({New}, "text", pane)
  /\ SendHome({New}, pane)
  /\ draft' = Nowhere
  /\ UNCHANGED <<pane, open, at, picks, recorderVars, serverVars, said, errors>>

Retry(m) ==
  /\ open /\ m \in lists[at[pane]] /\ m.status = "failed"
  /\ lists' = [lists EXCEPT ![at[pane]] = MarkRetrying(@, m.id)]
  /\ sends' = Post({m.id}, "text", pane)
  /\ UNCHANGED <<pane, open, at, draft, picks, recorderVars, used, home, serverVars, said,
                 errors>>

(* One file at a time is read; a wrong type or size is refused at once.     *)
PickFile(f) ==
  /\ Composing /\ ~Preparing
  /\ Begin
  /\ IF f \in {"too large", "other"}
       THEN said' = said \cup {New} /\ UNCHANGED picks
       ELSE picks' = picks \cup {[id |-> New, pane |-> pane, file |-> f]} /\ UNCHANGED said
  /\ UNCHANGED <<pane, open, at, draft, recorderVars, home, sends, serverVars, lists, errors>>

(* Reading ends: what is fit to be sent goes to the conversation the pane   *)
(* shows by then; otherwise a toast says so.                                *)
SendFile(k) ==
  /\ sends' = Post({k.id}, "media", k.pane)
  /\ SendHome({k.id}, k.pane)
  /\ UNCHANGED said
RefuseFile(k) ==
  said' = said \cup {k.id} /\ UNCHANGED <<sends, home>>

(* A picture is resized and measured; either can fail.                      *)
ReadPicture(k) ==
  /\ k.file = "picture"
  /\ picks' = picks \ {k}
  /\ SendFile(k) \/ RefuseFile(k)
  /\ UNCHANGED <<pane, open, at, draft, recorderVars, used, serverVars, lists, errors>>

(* The length of a video is read, which can fail.                           *)
ReadVideo(k) ==
  /\ k.file \in {"video", "too long"}
  /\ picks' = picks \ {k}
  /\ (k.file = "video" /\ SendFile(k)) \/ RefuseFile(k)
  /\ UNCHANGED <<pane, open, at, draft, recorderVars, used, serverVars, lists, errors>>

-----------------------------------------------------------------------------
(* The requests and the list of the conversation.                           *)

Store(s) ==
  /\ s.id \notin stored
  /\ stored' = stored \cup {s.id}
  /\ UNCHANGED <<pane, open, at, draft, picks, recorderVars, used, home, sends, heard, lists,
                 said, errors>>

(* The handlers of the three requests; a request they refuse (its sender is *)
(* over the rate limit, no longer a member, the clip too long...) fails.    *)
Create(s) == s.kind = "text" /\ Store(s)
CreateVoice(s) == s.kind = "voice" /\ Store(s)
CreateMedia(s) == s.kind = "media" /\ Store(s)
Handled(s) == Create(s) \/ CreateVoice(s) \/ CreateMedia(s)

(* onSuccess and onError write to the list of the conversation in the       *)
(* options, which need not be the one the message was sent to.              *)
Answer(s) ==
  /\ s.id \in stored
  /\ sends' = sends \ {s}
  /\ lists' = [lists EXCEPT ![s.under] = InsertOrReconcile(@, s.id)]
  /\ UNCHANGED <<pane, open, at, draft, picks, recorderVars, used, home, serverVars, said,
                 errors>>

FailOfTexts(s) ==          \* faulty: a file or a take fails silently
  /\ errors < MaxErrors
  /\ errors' = errors + 1
  /\ sends' = sends \ {s}
  /\ lists' = [lists EXCEPT ![s.under] = MarkFailed(@, s.id)]
  /\ UNCHANGED <<pane, open, at, draft, picks, recorderVars, used, home, serverVars, said>>

Fail(s) ==
  /\ errors < MaxErrors
  /\ errors' = errors + 1
  /\ sends' = sends \ {s}
  /\ IF s.kind = "text"
       THEN lists' = [lists EXCEPT ![s.under] = MarkFailed(@, s.id)] /\ UNCHANGED said
       ELSE said' = said \cup {s.id} /\ UNCHANGED lists
  /\ UNCHANGED <<pane, open, at, draft, picks, recorderVars, used, home, serverVars>>

(* The tab's own message.created.                                           *)
Hear(i) ==
  /\ i \in stored \ heard
  /\ heard' = heard \cup {i}
  /\ lists' = [lists EXCEPT ![home[i]] = InsertOrReconcile(@, i)]
  /\ UNCHANGED <<pane, open, at, draft, picks, recorderVars, used, home, sends, stored, said,
                 errors>>

Fetch ==
  /\ open
  /\ lists' = [lists EXCEPT ![at[pane]] =
                 {[id |-> i, row |-> TRUE, status |-> "sent"] :
                    i \in {j \in stored : home[j] = at[pane]}}]
  /\ UNCHANGED <<pane, open, at, draft, picks, recorderVars, used, home, sends, serverVars,
                 said, errors>>

-----------------------------------------------------------------------------
(* The pages: ChatPage, ServerPage and their routes.                        *)

OpenPane(c) ==
  /\ ~open /\ pane < MaxPanes
  /\ open' = TRUE
  /\ pane' = pane + 1
  /\ at' = [at EXCEPT ![pane'] = c]
  /\ UNCHANGED <<draft, picks, recorderVars, used, home, sends, serverVars, lists, said,
                 errors>>

SwitchTo(c) ==
  /\ open /\ at[pane] # c
  /\ at' = [at EXCEPT ![pane] = c]
  /\ sends' = {[s EXCEPT !.under = IF s.pane = pane /\ s.latest THEN c ELSE @] : s \in sends}
  /\ UNCHANGED <<pane, open, draft, picks, recorderVars, used, home, serverVars, lists, said,
                 errors>>

ClosePane ==
  /\ open
  /\ open' = FALSE
  /\ draft' = Nowhere
  /\ due' = due \cup Starved(pane)
  /\ Cleanup(pane)
  /\ UNCHANGED <<pane, at, picks, asks, chunks, rash, used, home, sends, serverVars, lists,
                 said, errors>>

-----------------------------------------------------------------------------
User ==
  \/ \E c \in Conversations : OpenPane(c) \/ SwitchTo(c)
  \/ ClosePane \/ Type \/ Clear \/ Submit
  \/ \E f \in Files : PickFile(f)
  \/ StartRecording \/ FinishRecording \/ CancelRecording
  \/ \E c \in Conversations : \E m \in lists[c] : Retry(m)

ReadFile(k) == ReadPicture(k) \/ ReadVideo(k)
Reading == \E k \in picks : ReadFile(k)
Stopping == \E d \in due : RecorderStopped(d)
Answering == \E s \in sends : Handled(s) \/ Answer(s) \/ Fail(s)

Next ==
  \/ User \/ Reading \/ Stopping \/ Answering
  \/ \E a \in asks : Granted(a) \/ Denied(a)
  \/ \E i \in Ids : Hear(i)
  \/ Fetch

Spec == Init /\ [][Next]_vars

(* The browser reads a file, ends a recording and answers a request in time;*)
(* nobody has to grant a microphone, and an event or a fetch may fail.      *)
Fairness ==
  /\ \A i \in Ids : WF_vars(\E k \in picks : k.id = i /\ ReadFile(k))
  /\ \A i \in Ids : WF_vars(\E d \in due : d.id = i /\ RecorderStopped(d))
  /\ \A i \in Ids : WF_vars(\E s \in sends : s.id = i /\ (Handled(s) \/ Answer(s) \/ Fail(s)))

FairSpec == Spec /\ Fairness

-----------------------------------------------------------------------------
(* Properties                                                               *)

(* The microphone is on only while its pane is open and shows that it       *)
(* records, except for takes begun beside one another and for a microphone  *)
(* granted to a pane already closed: nothing stops those.                   *)
MicReleased ==
  \A i \in on : i \in rash \/ (open /\ take[pane] = i)

(* Once "send" is clicked the recording bar goes, whatever else is clicked. *)
RecordingEnds ==
  \A i \in Ids : (\E d \in due : d.id = i /\ d.asked # {}) ~> (\A p \in Panes : take[p] # i)

(* A picked file ends as a stored message, or a toast says it did not.      *)
FilesAnswered ==
  \A i \in Ids : (\E k \in picks : k.id = i) ~> (i \in stored \/ i \in said)

(* A copy is shown as being sent only while a request for it is under way.  *)
SpinnerHasRequest ==
  \A c \in Conversations : \A m \in lists[c] :
    m.status = "pending" => \E s \in sends : s.id = m.id
=============================================================================
