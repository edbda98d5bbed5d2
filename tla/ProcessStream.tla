---------------------------- MODULE ProcessStream ----------------------------
(***************************************************************************)
(* What process mode promises, without its goroutines and its channels.    *)
(* Of every process a series of snapshots is taken; what changes from one  *)
(* to the next is told in order and without a gap, until the process is    *)
(* gone.  The streams of the processes are merged into one, which keeps    *)
(* the order within each, and the service ends by itself only when it has  *)
(* handled all of it and told of the end of every process.  It may be      *)
(* stopped at any moment, and nothing is promised after that.              *)
(***************************************************************************)
LOCAL INSTANCE Sequences

CONSTANTS
  Pids,             \* the processes
  Snapshots,        \* what a snapshot may show
  Changes(_, _, _), \* of a process, from one snapshot to another: a sequence
  Apply(_, _)       \* a view of all processes after one change

VARIABLES
  started,   \* processes of which there is a snapshot
  known,     \* [Pids -> Snapshots], the latest ones
  pending,   \* [Pids -> sequences of changes], not yet merged
  merged,    \* the changes merged and not yet handled
  view,      \* [Pids -> Snapshots], as the changes handled make it
  gone,      \* processes whose stream is at its end
  failed,    \* those of them it has been told of
  status     \* "running", "stopped", "ended"

vars == <<started, known, pending, merged, view, gone, failed, status>>

Init ==
  /\ started = {} /\ gone = {} /\ failed = {}
  /\ known \in [Pids -> Snapshots] /\ view = known
  /\ pending = [p \in Pids |-> <<>>] /\ merged = <<>>
  /\ status = "running"

\* The first snapshot is where the stream begins.
Begin(p) ==
  /\ status = "running" /\ p \notin started \cup gone
  /\ started' = started \cup {p}
  /\ \E s \in Snapshots : /\ known' = [known EXCEPT ![p] = s]
                          /\ view' = [view EXCEPT ![p] = s]
  /\ UNCHANGED <<pending, merged, gone, failed, status>>

Observe(p) ==
  /\ status = "running" /\ p \in started \ gone
  /\ \E s \in Snapshots :
       /\ known' = [known EXCEPT ![p] = s]
       /\ pending' = [pending EXCEPT ![p] = @ \o Changes(p, known[p], s)]
  /\ UNCHANGED <<started, merged, view, gone, failed, status>>

Merge(p) ==
  /\ status = "running" /\ pending[p] # <<>>
  /\ merged' = Append(merged, Head(pending[p]))
  /\ pending' = [pending EXCEPT ![p] = Tail(@)]
  /\ UNCHANGED <<started, known, view, gone, failed, status>>

Handle ==
  /\ status = "running" /\ merged # <<>>
  /\ view' = Apply(view, Head(merged)) /\ merged' = Tail(merged)
  /\ UNCHANGED <<started, known, pending, gone, failed, status>>

Go(p) ==
  /\ status = "running" /\ gone' = gone \cup {p}
  /\ UNCHANGED <<started, known, pending, merged, view, failed, status>>

\* Its end may be told before the rest of its stream.
Tell(p) ==
  /\ status = "running" /\ p \in gone /\ failed' = failed \cup {p}
  /\ UNCHANGED <<started, known, pending, merged, view, gone, status>>

End ==
  /\ status = "running" /\ status' = "ended"
  /\ failed = Pids /\ merged = <<>> /\ \A p \in Pids : pending[p] = <<>>
  /\ UNCHANGED <<started, known, pending, merged, view, gone, failed>>

Stop == status = "running" /\ status' = "stopped"

Stopped == status = "stopped" /\ status' = "stopped"

Next ==
  \/ \E p \in Pids : Begin(p) \/ Observe(p) \/ Merge(p) \/ Go(p) \/ Tell(p)
  \/ Handle \/ End \/ Stop \/ Stopped

Spec == Init /\ [][Next]_vars
=============================================================================
