------------------------------ MODULE DedupLog ------------------------------
(***************************************************************************)
(* The statistics behind binmonitor.dedup.log: printRecord adds every      *)
(* record to DedupStatsComponent and writes the whole of it to the file    *)
(* again.  The error of that write is ignored, and the statistics live as  *)
(* long as the process while the file stays.  Program says when a record   *)
(* is printed.                                                             *)
(***************************************************************************)
EXTENDS Integers, Sequences, FiniteSets, SequencesExt

CONSTANTS
  Ops,         \* operations of records
  Keys,        \* what DedupRecordPath makes of their paths
  NoFile,      \* binmonitor.dedup.log does not exist
  MaxRecords   \* bound on the records of one process (Nat, model only)

ASSUME OpAssumption == NoFile \notin [Ops -> Seq(Keys)]
ASSUME BoundAssumption == MaxRecords \in Nat

\* The groups Format goes through.
FormattedOps ==
  {"CREATE", "WRITE", "REMOVE", "RENAME", "READ", "OPEN", "CLOSE", "CHMOD"}

VARIABLES
  groups,   \* [Ops -> Seq(Keys)], DedupStatsComponent.groups
  pos,      \* SUBSET (Ops \X Keys), the keys of DedupStatsComponent.pos
  file,     \* what the file shows, as [Ops -> Seq(Keys)], or NoFile
  records,  \* history: the <<op, key>> printed by this process
  written   \* history: the last os.WriteFile of this process succeeded

memory    == <<groups, pos, records, written>>
dedupVars == <<memory, file>>

Empty == [op \in Ops |-> <<>>]

\* Add: a known key moves to the back of its group.  Its result is always
\* TRUE, so the file is written for every record.
MoveToBack(s, k) ==
  LET n == CHOOSE m \in DOMAIN s : s[m] = k IN Append(RemoveAt(s, n), k)

\* Mutants: a known key stays where it is; a known key is appended again;
\* the file is written for new keys only.
AddStays(op, k) ==
  IF <<op, k>> \in pos THEN groups ELSE [groups EXCEPT ![op] = Append(@, k)]
AddAgain(op, k) == [groups EXCEPT ![op] = Append(@, k)]
Add(op, k) ==
  IF <<op, k>> \in pos THEN [groups EXCEPT ![op] = MoveToBack(@, k)]
                       ELSE [groups EXCEPT ![op] = Append(@, k)]

\* Format: the groups it knows.
Format(g) == [op \in Ops |-> IF op \in FormattedOps THEN g[op] ELSE <<>>]

WritesNew(op, k) == <<op, k>> \notin pos
Writes(op, k) == TRUE

\* os.WriteFile truncates the file before it writes: a write that fails leaves
\* the file as it was, or with some of the groups (a group cut in the middle
\* counts as not written).
PartsOf(f) == {[op \in Ops |-> IF op \in shown THEN f[op] ELSE <<>>] : shown \in SUBSET Ops}

printRecord(op, k) ==
  /\ Len(records) < MaxRecords
  /\ groups' = Add(op, k) /\ pos' = pos \cup {<<op, k>>}
  /\ records' = Append(records, <<op, k>>)
  /\ IF Writes(op, k)
     THEN \/ file' = Format(Add(op, k)) /\ written' = TRUE
          \/ file' \in PartsOf(Format(Add(op, k))) \cup {file} /\ written' = FALSE
     ELSE UNCHANGED <<file, written>>

\* NewDedupStatsComponent, in a new process.
NewStats == groups' = Empty /\ pos' = {} /\ records' = <<>> /\ written' = FALSE

DedupInit ==
  /\ groups = Empty /\ pos = {} /\ records = <<>> /\ written = FALSE
  /\ file = NoFile

-----------------------------------------------------------------------------
\* The ranges of the variables; a group is as long as pos has keys of it, however
\* many records there are (DedupStatsComponent).
DedupTypeOK ==
  /\ groups \in [Ops -> Seq(Keys)] /\ pos \subseteq Ops \X Keys
  /\ \A op \in Ops : Len(groups[op]) = Cardinality({k \in Keys : <<op, k>> \in pos})
  /\ file \in [Ops -> Seq(Keys)] \cup {NoFile}
  /\ records \in Seq(Ops \X Keys) /\ Len(records) <= MaxRecords
  /\ written \in BOOLEAN

\* Where op happened to k, and where last.
Times(op, k) == {i \in DOMAIN records : records[i] = <<op, k>>}
LastTime(op, k) == CHOOSE i \in Times(op, k) : \A j \in Times(op, k) : j <= i

\* A group holds each key that op happened to once, by when it last did.
Ordered(g, op) ==
  /\ ToSet(g) = {k \in Keys : Times(op, k) # {}}
  /\ \A i, j \in DOMAIN g : i < j => LastTime(op, g[i]) < LastTime(op, g[j])

\* MostRecentLast: every group holds each key once, and by when its operation
\* last happened ("by most recent occurrence, the latest at the bottom",
\* comment on DedupStatsComponent.Format; README.md:76 says by first).
MostRecentLast == \A op \in Ops : Ordered(groups[op], op)

\* FileCurrent: a write that succeeds shows all that the process has recorded
\* in the formatted groups, whatever failed before it (printRecord).
FileCurrent ==
  written => \A op \in Ops \cap FormattedOps : Ordered(file[op], op)

=============================================================================
