------------------------------- MODULE Socket -------------------------------
(***************************************************************************)
(* RealtimeSocket (frontend/src/realtime/socket.ts), the object that is to *)
(* keep one WebSocket open for a browser tab, driven by useRealtime and    *)
(* RequireAuth: connect() when an authenticated page is mounted,           *)
(* disconnect() on logout, nothing when the page is merely left.           *)
(*                                                                         *)
(* JavaScript runs one callback at a time, so each call, each socket event *)
(* and each timer is one step; what is not ordered is which comes next.    *)
(***************************************************************************)
EXTENDS Naturals, FiniteSets

CONSTANTS
  Sockets,    \* WebSocket objects: a closed one stands for one not created yet
  Timers,     \* setTimeout handles, likewise used again
  MaxDrops,   \* bound: connections that fail
  MaxVisits   \* bound: times an authenticated page is mounted

ASSUME SocketConstants == MaxDrops \in Nat /\ MaxVisits \in Nat

VARIABLES
  ready,      \* readyState of each WebSocket
  socket,     \* this.socket: the current WebSocket, if any
  timers,     \* the timeouts that are pending
  handle,     \* this.reconnectTimer: the timeout that can be cleared, if any
  intentionalClose,
  retrying,   \* this.reconnectAttempts > 0
  status,
  mounted,    \* an authenticated page is mounted and subscribed
  drops, visits

socketVars == <<ready, socket, timers, handle, intentionalClose, retrying, status,
                mounted, drops, visits>>

Live(s) == ready[s] \in {"connecting", "open"}

SocketTypeOK ==
  /\ ready \in [Sockets -> {"connecting", "open", "closing", "closed"}]
  /\ socket \in {{}} \cup {{s} : s \in Sockets}
  /\ timers \in SUBSET Timers
  /\ handle \in {{}} \cup {{t} : t \in timers}
  /\ intentionalClose \in BOOLEAN /\ retrying \in BOOLEAN /\ mounted \in BOOLEAN
  /\ status \in {"connecting", "connected", "reconnecting", "disconnected"}
  /\ drops \in 0..MaxDrops /\ visits \in 0..MaxVisits

SocketInit ==
  /\ ready = [s \in Sockets |-> "closed"]
  /\ socket = {} /\ timers = {} /\ handle = {}
  /\ intentionalClose = FALSE /\ retrying = FALSE
  /\ status = "disconnected"
  /\ mounted = FALSE
  /\ drops = 0 /\ visits = 0

(* The private open(): whatever socket there was is forgotten, not closed.  *)
OpenSocket ==
  /\ \E s \in Sockets :
       /\ ready[s] = "closed"
       /\ ready' = [ready EXCEPT ![s] = "connecting"]
       /\ socket' = {s}
  /\ status' = IF retrying THEN "reconnecting" ELSE "connecting"

-----------------------------------------------------------------------------
(* The pages                                                                *)

(* Faulty: connect() does not take back what the last logout set.           *)
MountClosed ==
  /\ ~mounted /\ visits < MaxVisits
  /\ mounted' = TRUE
  /\ visits' = visits + 1
  /\ IF \E s \in socket : Live(s)
       THEN UNCHANGED <<ready, socket, status>>
       ELSE OpenSocket
  /\ UNCHANGED <<timers, handle, intentionalClose, retrying, drops>>

(* useRealtime's effect, and connect(): a pending timeout is left pending.  *)
Mount ==
  /\ ~mounted /\ visits < MaxVisits
  /\ mounted' = TRUE
  /\ visits' = visits + 1
  /\ intentionalClose' = FALSE
  /\ IF \E s \in socket : Live(s)
       THEN UNCHANGED <<ready, socket, status>>
       ELSE OpenSocket
  /\ UNCHANGED <<timers, handle, retrying, drops>>

(* Back to a public page, which sends an authenticated user to /chat again: *)
(* the effect's clean-up only unsubscribes.                                 *)
Leave ==
  /\ mounted
  /\ mounted' = FALSE
  /\ UNCHANGED <<ready, socket, timers, handle, intentionalClose, retrying, status,
                 drops, visits>>

(* Logout, or a session found dead: disconnect().                           *)
Logout ==
  /\ visits > 0
  /\ mounted' = FALSE
  /\ intentionalClose' = TRUE
  /\ timers' = timers \ handle
  /\ handle' = {}
  /\ retrying' = FALSE
  /\ ready' = [s \in Sockets |-> IF s \in socket THEN "closing" ELSE ready[s]]
  /\ socket' = {}
  /\ status' = "disconnected"
  /\ UNCHANGED <<drops, visits>>

-----------------------------------------------------------------------------
(* The listeners of a socket and the timeout's callback                     *)

Opened(s) ==
  /\ ready[s] = "connecting"
  /\ ready' = [ready EXCEPT ![s] = "open"]
  /\ retrying' = FALSE
  /\ status' = "connected"
  /\ UNCHANGED <<socket, timers, handle, intentionalClose, mounted, drops, visits>>

(* The new handle takes the place of one that may still be pending.         *)
ScheduleReconnect ==
  /\ status' = "reconnecting"
  /\ retrying' = TRUE
  /\ \E t \in Timers \ timers :
       timers' = timers \cup {t} /\ handle' = {t}

(* Faulty: the error listener schedules the reconnect that close will too.  *)
BreakAndRetry(s) ==
  /\ Live(s)
  /\ drops < MaxDrops
  /\ drops' = drops + 1
  /\ ready' = [ready EXCEPT ![s] = "closing"]
  /\ ScheduleReconnect
  /\ UNCHANGED <<socket, intentionalClose, mounted, visits>>

(* The connection breaks; the close event is still to come.                 *)
Break(s) ==
  /\ Live(s)
  /\ drops < MaxDrops
  /\ drops' = drops + 1
  /\ ready' = [ready EXCEPT ![s] = "closing"]
  /\ UNCHANGED <<socket, timers, handle, intentionalClose, retrying, status, mounted, visits>>

Closed(s) ==
  /\ ready[s] = "closing"
  /\ ready' = [ready EXCEPT ![s] = "closed"]
  /\ IF s \notin socket
       THEN UNCHANGED <<socket, timers, handle, retrying, status>>
       ELSE /\ socket' = {}
            /\ IF intentionalClose
                 THEN status' = "disconnected" /\ UNCHANGED <<timers, handle, retrying>>
                 ELSE ScheduleReconnect
  /\ UNCHANGED <<intentionalClose, mounted, drops, visits>>

(* Faulty: the callback arms the timeout again and opens nothing.           *)
FireAgain(t) ==
  /\ t \in timers
  /\ handle' = {t}
  /\ status' = "reconnecting"
  /\ UNCHANGED <<ready, socket, timers, intentionalClose, retrying, mounted, drops, visits>>

Fire(t) ==
  /\ t \in timers
  /\ timers' = timers \ {t}
  /\ handle' = {}
  /\ OpenSocket
  /\ UNCHANGED <<intentionalClose, retrying, mounted, drops, visits>>

SocketNext ==
  \/ Mount \/ Leave \/ Logout
  \/ \E s \in Sockets : Opened(s) \/ Break(s) \/ Closed(s)
  \/ \E t \in Timers : Fire(t)

SocketSpec == SocketInit /\ [][SocketNext]_socketVars

(* The network comes back and stays (MaxDrops), timeouts expire.            *)
FairSocketSpec ==
  /\ SocketSpec
  /\ \A s \in Sockets : WF_socketVars(Opened(s) \/ Closed(s))
  /\ \A t \in Timers : WF_socketVars(Fire(t))

-----------------------------------------------------------------------------
(* Properties                                                               *)

(* While an authenticated page is mounted the tab is connected, connecting, *)
(* or has a timeout that will reconnect it.                                 *)
NeverStranded == mounted => socket # {} \/ timers # {}

(* A page that stays mounted ends up connected, for good.                   *)
Connected == \E s \in socket : ready[s] = "open"
Reconnects == <>[]mounted => <>[]Connected

(* The whole application has one WebSocket, as long as the page has not been *)
(* left and mounted again: connect() does not look for a pending timeout.   *)
OneSocket == visits = 1 => Cardinality({s \in Sockets : Live(s)}) <= 1
=============================================================================
