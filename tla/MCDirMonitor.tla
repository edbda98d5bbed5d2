---------------------------- MODULE MCDirMonitor ----------------------------
(***************************************************************************)
(* Small trees for DirMonitor.                                             *)
(***************************************************************************)
EXTENDS DirMonitor

\* b lies in a, e in c and the others right below the root.
MCParent == [p \in Paths |-> CASE p = "b" -> "a" [] p = "e" -> "c" [] OTHER -> "root"]

\* One spelling of each path, as with a root like /tmp/test.
OneName == [p \in Paths |-> p]

\* Two of those right below the root, which is ".".
DotName == [p \in Paths |-> CASE p = "a" -> "./a" [] p = "c" -> "./c"
                              [] p = "log" -> "./log" [] OTHER -> p]

=============================================================================
