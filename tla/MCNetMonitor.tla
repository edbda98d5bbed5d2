---------------------------- MODULE MCNetMonitor ----------------------------
(***************************************************************************)
(* Small sets of sockets for NetMonitor, and their peers: the .cfg files   *)
(* give every other constant its value.                                    *)
(***************************************************************************)
EXTENDS NetMonitor

\* 127.0.0.1 is the resolver, ::1 the proxy, and :: what a socket without a
\* peer shows.
MCPeerOf ==
  [p \in Ports \cup {0} |->
    CASE p = 0 -> [n \in 1 .. 16 |-> 0]
      [] p = 53 -> <<127, 0, 0, 1>>
      [] OTHER -> [n \in 1 .. 16 |-> IF n = 16 THEN 1 ELSE 0]]
=============================================================================
