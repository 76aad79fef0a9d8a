--------------------------- MODULE DeadLetterPruner ---------------------------
(***************************************************************************)
(* The retention of dead letters: pkg/orchestrate/deadletter_pruner.go and *)
(* the dead_letters queries of internal/store/sqlite.go, beside the server *)
(* that goes on adding rows and replaying them.                            *)
(***************************************************************************)
EXTENDS Integers, FiniteSets, TLC

CONSTANTS Letters,       \* dead letters, in the order the server adds them
          ArchiveName,   \* ArchiveName[l]: the run id in the file's name
          Retention,     \* RetentionHours, in ticks
          PruneBatch,    \* 5000
          MaxPruneTime   \* bound on the clock

VARIABLES dlClock,
          dlRows,     \* dead_letters: letter -> failed_at
          dlPc,       \* where pruneOnce is
          dlCutoff,   \* olderThan
          dlBatch,    \* letters still to be archived
          archive,    \* file -> the letter it holds, or Torn
          dlSaved,    \* letter -> failed_at, kept when the row goes (history)
          dlWhole,    \* letters whose last write to the archive reported no error
          dlSeen,     \* letters old enough when a prune listed what to archive (history)
          pruned      \* letters deleted

dlVars == <<dlClock, dlRows, dlPc, dlCutoff, dlBatch, archive, dlSaved, dlWhole, dlSeen, pruned>>

Torn == 0   \* no letter: a file that was truncated and not written

PrunerInit ==
  /\ dlClock = 0 /\ dlRows = [l \in {} |-> 0] /\ dlPc = "ticker" /\ dlCutoff = 0
  /\ dlBatch = {} /\ archive = [f \in {} |-> 0] /\ pruned = {}
  /\ dlSaved = [l \in {} |-> 0] /\ dlWhole = {} /\ dlSeen = {}

DlTick ==
  /\ dlClock < MaxPruneTime /\ dlClock' = dlClock + 1
  /\ UNCHANGED <<dlRows, dlPc, dlCutoff, dlBatch, archive, dlSaved, dlWhole, dlSeen, pruned>>

\* SaveDeadLetter, with failed_at = now.
SaveDeadLetter(l) ==
  /\ l \notin DOMAIN dlRows \cup pruned
  /\ dlRows' = (l :> dlClock) @@ dlRows /\ dlSaved' = (l :> dlClock) @@ dlSaved
  /\ UNCHANGED <<dlClock, dlPc, dlCutoff, dlBatch, archive, dlWhole, dlSeen, pruned>>

Older(t) == {l \in DOMAIN dlRows : dlRows[l] < t}

\* The oldest PruneBatch of them: ORDER BY failed_at LIMIT.
Batches(S) ==
  {B \in SUBSET S : /\ Cardinality(B) = IF Cardinality(S) < PruneBatch THEN Cardinality(S)
                                        ELSE PruneBatch
                    /\ \A l \in B, k \in S \ B : dlRows[l] <= dlRows[k]}

\* A tick of the ticker: olderThan is taken and the batch listed; an error of the
\* query leaves the batch empty.
PruneBegin(listed) ==
  /\ dlPc = "ticker" /\ dlClock >= Retention
  /\ dlCutoff' = dlClock - Retention
  /\ \E B \in Batches(Older(dlCutoff')) : dlBatch' = IF listed THEN B ELSE {}
  /\ dlSeen' = dlSeen \cup Older(dlCutoff')
  /\ dlPc' = "archive"
  /\ UNCHANGED <<dlClock, dlRows, archive, dlSaved, dlWhole, pruned>>

\* Mutant: the file is named after the run alone.
ArchiveFileByRun(l) == <<ArchiveName[l]>>

\* One file per run id and second of the failure.
ArchiveFile(l) == <<ArchiveName[l], dlRows[l]>>

\* os.WriteFile replaces an older file of that name; when it fails, that file is as it
\* was or truncated.  The loop goes on after an error.
ArchiveOne(l, outcome) ==
  LET file == ArchiveFile(l) IN
  /\ dlPc = "archive" /\ l \in dlBatch /\ dlBatch' = dlBatch \ {l}
  /\ archive' = CASE outcome = "written" -> (file :> l) @@ archive
                   [] outcome = "torn" -> (file :> Torn) @@ archive
                   [] OTHER -> archive
  /\ dlWhole' = CASE outcome = "written" -> dlWhole \cup {l}
                   [] outcome = "torn" -> dlWhole \ {l}
                   [] OTHER -> dlWhole
  /\ UNCHANGED <<dlClock, dlRows, dlPc, dlCutoff, dlSaved, dlSeen, pruned>>

\* Mutant: the cutoff is taken again for the DELETE.
PruneDeadLettersLate ==
  /\ dlPc = "archive" /\ dlBatch = {}
  /\ pruned' = pruned \cup Older(dlClock - Retention)
  /\ dlRows' = [l \in DOMAIN dlRows \ pruned' |-> dlRows[l]]
  /\ dlPc' = "ticker"
  /\ UNCHANGED <<dlClock, dlCutoff, dlBatch, archive, dlSaved, dlWhole, dlSeen>>

\* The DELETE, of everything older than the cutoff.
PruneDeadLetters ==
  /\ dlPc = "archive" /\ dlBatch = {}
  /\ pruned' = pruned \cup Older(dlCutoff)
  /\ dlRows' = [l \in DOMAIN dlRows \ pruned' |-> dlRows[l]]
  /\ dlPc' = "ticker"
  /\ UNCHANGED <<dlClock, dlCutoff, dlBatch, archive, dlSaved, dlWhole, dlSeen>>

\* The DELETE fails or the process dies: the rows stay for the next tick.
PruneFails ==
  /\ dlPc = "archive" /\ dlPc' = "ticker" /\ dlBatch' = {}
  /\ UNCHANGED <<dlClock, dlRows, dlCutoff, archive, dlSaved, dlWhole, dlSeen, pruned>>

PrunerNext ==
  \/ DlTick
  \/ \E l \in Letters : SaveDeadLetter(l)
  \/ \E listed \in BOOLEAN : PruneBegin(listed)
  \/ \E l \in Letters, outcome \in {"written", "torn", "refused"} : ArchiveOne(l, outcome)
  \/ PruneDeadLetters \/ PruneFails

-----------------------------------------------------------------------------
\* The letters with the same name in the archive and the same second as l.
Twins(l) ==
  {k \in DOMAIN dlSaved \ {l} : ArchiveName[k] = ArchiveName[l] /\ dlSaved[k] = dlSaved[l]}

\* Across prunes that fail half way and letters saved meanwhile (pruneOnce and archive,
\* deadletter_pruner.go): a prune deletes only letters that were old enough when it listed
\* what to archive, never one that turned old since.  And a letter whose last write to the
\* archive reported no error is whole in its file, also after it is deleted, unless a
\* letter of the same run id, or another whose id is not a plain name, failed in the
\* same second.
ArchiveKept ==
  /\ pruned \subseteq dlSeen
  /\ \A l \in dlWhole : (\E f \in DOMAIN archive : archive[f] = l) \/ Twins(l) # {}
=============================================================================
