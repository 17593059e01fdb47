-------------------------------- MODULE Hub --------------------------------
(***************************************************************************)
(* The WebSocket hub of internal/realtime/hub.go: which connections each   *)
(* user has, and the fan-out of an event to a list of users.               *)
(*                                                                         *)
(* Register and Unregister run under the hub's lock, so each is one step.  *)
(* SendToUser copies the recipient's connections under the read lock and   *)
(* writes to them after it has released it: a broadcast is a sequence of   *)
(* steps, and the broadcasts of different goroutines interleave.  The      *)
(* module declares no Next of its own; Presence and Calls build theirs     *)
(* from these operators.                                                   *)
(***************************************************************************)
CONSTANTS
  Users,      \* the user ids
  Conns,      \* the *Client values: one goroutine and one socket each
  Notifiers,  \* HTTP handler goroutines that broadcast as well
  UserOf      \* the user who opened each connection

ASSUME UserOfAssumption == UserOf \in [Conns -> Users]
ASSUME NotifiersAssumption == Notifiers \cap Conns = {}

Goroutines == Conns \cup Notifiers

VARIABLES
  clients,    \* clients[u]: the registered connections of u
  sending     \* sending[g]: what goroutine g is in the middle of writing

hubVars == <<clients, sending>>

(* A broadcast in progress: the event, the recipients still to come, and   *)
(* the connections of the current recipient still to be written to.        *)
Outbox(Events) ==
  [event: Events, users: SUBSET Users, conns: SUBSET Conns]

HubTypeOK(Events) ==
  /\ clients \in [Users -> SUBSET Conns]
  /\ sending \in [Goroutines -> Outbox(Events)]

HubInit(noEvent) ==
  /\ clients = [u \in Users |-> {}]
  /\ sending = [g \in Goroutines |->
                  [event |-> noEvent, users |-> {}, conns |-> {}]]

Connected(u) == clients[u] # {}

(* Faulty: every connection takes itself for the first of its user.        *)
IsFirstAlways(c) == c \in Conns

IsFirst(c) == clients[UserOf[c]] = {}

Register(c) ==
  clients' = [clients EXCEPT ![UserOf[c]] = @ \cup {c}]

(* Faulty: the map is looked at before the connection is taken out of it.  *)
IsLastEarly(c) == clients[UserOf[c]] = {}

IsLast(c) == clients[UserOf[c]] \ {c} = {}

Unregister(c) ==
  clients' = [clients EXCEPT ![UserOf[c]] = @ \ {c}]

Idle(g) == sending[g].users = {} /\ sending[g].conns = {}

(* The loop "for each id: SendToUser(id, event)" is entered.               *)
StartBroadcast(g, event, users) ==
  /\ Idle(g)
  /\ sending' = [sending EXCEPT ![g] =
                   [event |-> event, users |-> users, conns |-> {}]]

(* SendToUser's locked part: the next recipient's connections are copied.  *)
PickRecipient(g) ==
  /\ sending[g].conns = {}
  /\ \E u \in sending[g].users :
       sending' = [sending EXCEPT ![g].users = @ \ {u},
                                  ![g].conns = clients[u]]
  /\ UNCHANGED clients

(* One Client.Write, to a connection that may have been closed meanwhile.  *)
WriteTo(g, c) ==
  /\ c \in sending[g].conns
  /\ sending' = [sending EXCEPT ![g].conns = @ \ {c}]
  /\ UNCHANGED clients
=============================================================================
