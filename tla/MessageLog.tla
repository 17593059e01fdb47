----------------------------- MODULE MessageLog -----------------------------
(***************************************************************************)
(* What the messages table promises, apart from requests, retries and      *)
(* lost answers.  A message is posted as version 1, revised one version at *)
(* a time and removed; whatever is posted under the same client id later   *)
(* is another message, and posting what is there already changes nothing.  *)
(***************************************************************************)
EXTENDS Naturals

CONSTANTS Keys, Texts

VARIABLES
  row,    \* the last message posted under each key
  live    \* the keys whose message has not been removed

logVars == <<row, live>>

LogInit ==
  /\ live \in SUBSET Keys
  /\ row \in [Keys -> [key: Keys, gen: {0, 1}, version: {1}, text: Texts]]

Post(k, text) ==
  /\ k \notin live
  /\ live' = live \cup {k}
  /\ row' = [row EXCEPT ![k] = [key |-> k, gen |-> @.gen + 1, version |-> 1, text |-> text]]

Revise(k, text) ==
  /\ k \in live
  /\ row' = [row EXCEPT ![k] = [row[k] EXCEPT !.version = @ + 1, !.text = text]]
  /\ UNCHANGED live

Remove(k) ==
  /\ k \in live
  /\ live' = live \ {k}
  /\ UNCHANGED row

LogNext ==
  \E k \in Keys : Remove(k) \/ \E text \in Texts : Post(k, text) \/ Revise(k, text)

LogSpec == LogInit /\ [][LogNext]_logVars
=============================================================================
