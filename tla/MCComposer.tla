----------------------------- MODULE MCComposer -----------------------------
(* Small instances of Composer: a pane goes from one conversation to the    *)
(* other, and a second pane is opened on the conversation the first left.   *)
EXTENDS Composer, TLC

CONSTANTS dm, group

SecondPaneStays == pane' = 2 => at'[2] = at'[1]
=============================================================================
