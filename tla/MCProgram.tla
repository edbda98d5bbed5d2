------------------------------ MODULE MCProgram ------------------------------
(***************************************************************************)
(* Configuration files and command lines for Program: for each field the   *)
(* values that some branch tells apart, in the modes that look at it.      *)
(***************************************************************************)
EXTENDS Program

Proc(pid, ms) == [pid |-> pid, interval |-> ms]
Net(pid, ms, ports) == [pid |-> pid, interval |-> ms, dns |-> FALSE, ports |-> ports]

\* A list of events and the two logs; all else is left out.
DirectoryFiles ==
  {[ZeroConfig EXCEPT !.events = e, !.eventsConfigured = TRUE, !.log = e # <<>>,
                      !.dedupLog = e = <<"create", "delete">>] :
     e \in {<<>>, <<"create", "delete">>, <<"open", "write">>, <<"chmod">>}}

\* The key `Events`, `events` without a list, and a list in another mode beside a
\* netMonitor.
KeyFiles ==
  {[ZeroConfig EXCEPT !.events = <<"close">>], [ZeroConfig EXCEPT !.eventsConfigured = TRUE],
   [ZeroConfig EXCEPT !.events = <<"close">>, !.eventsConfigured = TRUE, !.log = TRUE,
                      !.net = Net(1, 50, {9})]}

RootFiles ==
  {[ZeroConfig EXCEPT !.mode = "directory", !.root = r, !.ignore = i, !.dedupLog = TRUE] :
     r \in {Relative(<<>>), Relative(<<"..", "x">>), Absolute(<<"w", "b", "..", "a">>)},
     i \in {{<<"a">>}, {<<"a", ".", "b">>, <<"..", "a">>, <<".">>}}}

ProcessFiles ==
  {[ZeroConfig EXCEPT !.interval = ms, !.process = p, !.processes = ps, !.log = ps = <<>>] :
     ms \in {-1, 0, 100, 1100}, p \in {Nil, Proc(1, 0)},
     ps \in {<<>>, <<Proc(1, 50)>>, <<Proc(2, 0), Proc(3, 50)>>, <<Proc(2, -1)>>}}
  \cup
  {[ZeroConfig EXCEPT !.mode = "process", !.events = e, !.log = TRUE, !.dedupLog = TRUE,
                      !.eventsConfigured = e # Nil, !.processes = ps] :
     e \in {Nil, <<"process_open">>}, ps \in {<<>>, <<Proc(0, 0)>>, <<Proc(2, 0)>>}}

NetworkFiles ==
  {[ZeroConfig EXCEPT !.mode = "network", !.log = TRUE, !.dedupLog = TRUE, !.net = n] :
     n \in {Nil, Net(1, 0, Nil), Net(1, 50, {}), Net(0, 0, Nil), Net(1, -1, {1080})}}

OtherFiles == {Missing, Broken, [ZeroConfig EXCEPT !.mode = "other"]}

MCFiles == DirectoryFiles \cup KeyFiles \cup RootFiles \cup ProcessFiles \cup NetworkFiles \cup OtherFiles

MCFlagSets ==
  {[NoFlags EXCEPT !.config = c, !.args = a] :
     c \in BOOLEAN, a \in {<<>>, <<Relative(<<"a">>)>>, <<Absolute(<<"w">>), Relative(<<>>)>>}}
  \cup
  {[NoFlags EXCEPT !.pid = p, !.poll = ms, !.dns = d, !.ports = ports] :
     p \in {Nil, <<>>, <<4>>, <<4, 1>>, <<4, 4>>, <<0>>}, ms \in {-1, 0, 50}, d \in BOOLEAN,
     ports \in {Nil, <<70000>>}}
  \cup {[NoFlags EXCEPT !.pid = <<4>>, !.args = <<Relative(<<"a">>)>>]}

MCCwd == <<"w">>

MCEventDirs == {<<"a">>, <<"b">>, <<"a", "b">>, <<"a", "bc">>, <<"a", "b", "a">>}
=============================================================================
