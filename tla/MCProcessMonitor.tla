-------------------------- MODULE MCProcessMonitor --------------------------
(***************************************************************************)
(* A few processes, descriptors and paths for ProcessMonitor: the .cfg     *)
(* files give every constant its value.                                    *)
(***************************************************************************)
EXTENDS ProcessMonitor

\* Processes are told apart by nothing but their identity, and so are paths;
\* used with safety properties only.
Symmetric == Permutations(Pids) \cup Permutations(Names)

=============================================================================
