----------------------------- MODULE MCSocket -----------------------------
(* Small instances of Socket: enough sockets and timeouts for every drop.   *)
EXTENDS Socket
=============================================================================
