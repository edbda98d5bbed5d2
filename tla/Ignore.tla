------------------------------- MODULE Ignore -------------------------------
(***************************************************************************)
(* IgnoreComponent: whether a path is, or lies below, an entry of the      *)
(* ignore list, both seen from the monitored root.  A path is the sequence *)
(* of its names with whether it is absolute; "." and ".." are names too.   *)
(***************************************************************************)
EXTENDS Integers, Sequences, SequencesExt

CONSTANT Cwd   \* names of the working directory

\* Names that cannot be cleaned away, as the kernel gives them.
PlainNames == STRING \ {".", ".."}

ASSUME CwdAssumption == Cwd \in Seq(PlainNames)

Relative(names) == [abs |-> FALSE, names |-> names]
Absolute(names) == [abs |-> TRUE, names |-> names]

\* filepath.Clean, one name after the other; the empty sequence is ".".
CleanName(s, n, abs) ==
  CASE n = "." \/ (n = ".." /\ s = <<>> /\ abs) -> s
    [] n = ".." /\ s # <<>> /\ Last(s) # ".." -> Front(s)
    [] OTHER -> Append(s, n)
CleanNames(names, abs) ==
  LET cleaned[i \in 0 .. Len(names)] ==
        IF i = 0 THEN <<>> ELSE CleanName(cleaned[i - 1], names[i], abs)
  IN cleaned[Len(names)]

\* filepath.Abs.
AbsNames(path) == CleanNames((IF path.abs THEN <<>> ELSE Cwd) \o path.names, TRUE)

\* filepath.Rel of two absolute paths.
Rel(from, to) ==
  LET n == Len(LongestCommonPrefix({from, to}))
  IN [i \in 1 .. Len(from) - n |-> ".."] \o SubSeq(to, n + 1, Len(to))

isParentPath(names) == names # <<>> /\ names[1] = ".."

\* add, for the whole list; an entry that is the root or outside of it is
\* dropped.
Ignored(entries) ==
  {e \in {CleanNames(n, FALSE) : n \in entries} : e # <<>> /\ ~isParentPath(e)}

\* relativePath; a relative path that is outside of the root stays as it is.
relativePath(root, path) ==
  LET rel == Rel(AbsNames(root), AbsNames(path))
  IN IF path.abs \/ ~isParentPath(rel) THEN rel ELSE CleanNames(path.names, FALSE)

\* Mutant: an entry is matched where it comes in the path.
ShouldIgnoreAnywhere(root, entries, path) ==
  \E e \in Ignored(entries) : \E i \in 1 .. Len(relativePath(root, path)) :
    IsPrefix(e, SubSeq(relativePath(root, path), i, Len(relativePath(root, path))))

ShouldIgnore(root, entries, path) ==
  \E e \in Ignored(entries) : IsPrefix(e, relativePath(root, path))

\* What README.md says: entries are relative to the root, and one that is a
\* directory stands for all that is below it.
Below(root, entries, path) ==
  \E e \in entries :
    /\ CleanNames(e, FALSE) # <<>> /\ ~isParentPath(CleanNames(e, FALSE))
    /\ IsPrefix(AbsNames([root EXCEPT !.names = @ \o e]), AbsNames(path))
=============================================================================
