------------------------------ MODULE EdgeSync ------------------------------
(***************************************************************************)
(* The sync push and pull commands against the sync endpoints (pkg/sync,    *)
(* pkg/api/sync.go, cmd/unagnt/sync_cmd.go).  Run rows live in a store per  *)
(* node; the node that executes a run goes on writing its row.  A bundle is *)
(* read from one store row by row and saved into the other row by row, and  *)
(* either may fail half way.  Every command starts a new LocalSyncStore, so *)
(* the time of the last pull is always zero and bundles are never partial.  *)
(***************************************************************************)
EXTENDS Naturals, Sequences, SequencesExt

CONSTANTS EdgeNodes,      \* the nodes with a local store
          SyncRuns,       \* run ids
          HomeOf,         \* the node that executes a run: an edge node or "server"
          BundleLimits,   \* the most rows a bundle is built from (500 in the code)
          MaxRunWrites, MaxSyncFaults

ASSUME RunsHaveHomes == HomeOf \in [SyncRuns -> EdgeNodes \cup {"server"}]

VARIABLES bundleLimit, \* one of BundleLimits, fixed
          runRows,     \* per store and run the updated_at of the row; 0: no row
          runClock,
          syncCmd,     \* the command an edge node runs: [kind, pc, ids, bundle]
          syncFaults,
          undisturbed, \* edge nodes whose command read a store nobody wrote since it began
          pushedAll,   \* edge nodes whose store was pushed whole, and whose own runs rested since
          inStep       \* edge nodes that then pulled everything, and the server rested since

syncVars == <<bundleLimit, runRows, runClock, syncCmd, syncFaults, undisturbed, pushedAll, inStep>>

NoSync == [kind |-> "none", pc |-> "idle", ids |-> <<>>, bundle |-> <<>>]
Stores == EdgeNodes \cup {"server"}

SyncInit ==
  /\ bundleLimit \in BundleLimits
  /\ runRows = [s \in Stores |-> [r \in SyncRuns |-> 0]] /\ runClock = 0
  /\ syncCmd = [e \in EdgeNodes |-> NoSync] /\ syncFaults = 0
  /\ undisturbed = {} /\ pushedAll = {} /\ inStep = {}

RunsIn(s) == {r \in SyncRuns : runRows[s][r] > 0}

\* The store a command reads and the one it writes.
Source(e) == IF syncCmd[e].kind = "push" THEN e ELSE "server"
Target(e) == IF syncCmd[e].kind = "push" THEN "server" ELSE e

\* Who reads a store that changes is disturbed; a change of the server's puts every node
\* out of step, a run of a node's own only that node.
Disturbed(s) == {e \in EdgeNodes : Source(e) = s}
OutOfStep(s) == IF s = "server" THEN EdgeNodes ELSE {s}

\* A run goes on at its home: its row is written with the time of the write.
RunAdvances(r) ==
  LET s == HomeOf[r] IN
  /\ runClock < MaxRunWrites /\ runClock' = runClock + 1
  /\ runRows' = [runRows EXCEPT ![s][r] = runClock']
  /\ undisturbed' = undisturbed \ Disturbed(s)
  /\ pushedAll' = pushedAll \ {s} /\ inStep' = inStep \ OutOfStep(s)
  /\ UNCHANGED <<bundleLimit, syncCmd, syncFaults>>

\* ListRuns: ORDER BY updated_at DESC LIMIT; writes have distinct times.
ListRunIDs(s) ==
  LET ids == SetToSortSeq(RunsIn(s), LAMBDA a, b : runRows[s][a] > runRows[s][b])
  IN  SubSeq(ids, 1, IF Len(ids) < bundleLimit THEN Len(ids) ELSE bundleLimit)

\* sync push and sync pull: BuildBundle lists the ids, here or at the server.
SyncBegins(e, kind) ==
  /\ syncCmd[e] = NoSync
  /\ syncCmd' = [syncCmd EXCEPT ![e] =
       [kind |-> kind, pc |-> "build", bundle |-> <<>>,
        ids |-> ListRunIDs(IF kind = "push" THEN e ELSE "server")]]
  /\ undisturbed' = undisturbed \cup {e}
  /\ UNCHANGED <<bundleLimit, runRows, runClock, syncFaults, pushedAll, inStep>>

\* BuildBundle reads the rows one at a time and passes over one it cannot read.
BuildBundle(e, readable) ==
  LET c == syncCmd[e]
      r == Head(c.ids)
      record == [run |-> r, at |-> runRows[Source(e)][r]]
  IN  /\ c.pc = "build" /\ c.ids # <<>>
      /\ readable \/ syncFaults < MaxSyncFaults
      /\ syncFaults' = IF readable THEN syncFaults ELSE syncFaults + 1
      /\ syncCmd' = [syncCmd EXCEPT ![e].ids = Tail(@),
                                    ![e].bundle = IF readable THEN Append(@, record) ELSE @]
      /\ UNCHANGED <<bundleLimit, runRows, runClock, undisturbed, pushedAll, inStep>>

\* The bundle travels, as the request of a push or the answer to a pull.  What it held
\* is kept in ids for the bookkeeping below.
BundleArrives(e) ==
  LET c == syncCmd[e] IN
  /\ c.pc = "build" /\ c.ids = <<>>
  /\ syncCmd' = [syncCmd EXCEPT ![e].pc = "apply",
                                ![e].ids = [i \in DOMAIN c.bundle |-> c.bundle[i].run]]
  /\ UNCHANGED <<bundleLimit, runRows, runClock, syncFaults, undisturbed, pushedAll, inStep>>

\* Mutant: a row that cannot be saved is passed over and the command goes on.
AfterSaveOnward(e, saved) == [syncCmd[e] EXCEPT !.bundle = Tail(@)]

\* What is left of the command after one SaveRun: an error ends it where it stands.
AfterSave(e, saved) == IF saved THEN [syncCmd[e] EXCEPT !.bundle = Tail(@)] ELSE NoSync

\* ApplyBundle and SyncAPI.Push: INSERT OR REPLACE, whatever the row there says.
ApplyRow(e, saved) ==
  LET c == syncCmd[e]
      s == Target(e)
      rows == IF saved THEN [runRows[s] EXCEPT ![Head(c.bundle).run] = Head(c.bundle).at]
              ELSE runRows[s]
  IN  /\ c.pc = "apply" /\ c.bundle # <<>>
      /\ saved \/ syncFaults < MaxSyncFaults
      /\ syncFaults' = IF saved THEN syncFaults ELSE syncFaults + 1
      /\ runRows' = [runRows EXCEPT ![s] = rows]
      /\ syncCmd' = [syncCmd EXCEPT ![e] = AfterSave(e, saved)]
      /\ undisturbed' = IF rows = runRows[s] THEN undisturbed ELSE undisturbed \ Disturbed(s)
      /\ inStep' = IF rows = runRows[s] THEN inStep ELSE inStep \ OutOfStep(s)
      /\ UNCHANGED <<bundleLimit, runClock, pushedAll>>

\* The command ends well: a push when the server's answer arrives, a pull by itself.
SyncEnds(e) ==
  LET c == syncCmd[e]
      whole == e \in undisturbed /\ ToSet(c.ids) = RunsIn(Source(e))
  IN  /\ c.pc = "apply" /\ c.bundle = <<>>
      /\ syncCmd' = [syncCmd EXCEPT ![e] = NoSync]
      /\ pushedAll' = IF c.kind = "push" /\ whole THEN pushedAll \cup {e} ELSE pushedAll
      /\ inStep' = IF c.kind = "pull" /\ whole /\ e \in pushedAll THEN inStep \cup {e} ELSE inStep
      /\ undisturbed' = undisturbed \ {e}
      /\ UNCHANGED <<bundleLimit, runRows, runClock, syncFaults>>

\* Request or answer is lost: the client gives up, and the server has applied nothing or all.
MessageLost(e) ==
  /\ syncFaults < MaxSyncFaults /\ syncFaults' = syncFaults + 1
  /\ \/ syncCmd[e].pc = "build"
     \/ syncCmd[e].kind = "push" /\ syncCmd[e].bundle = <<>>
  /\ syncCmd[e].ids = <<>> \/ syncCmd[e].pc = "apply"
  /\ syncCmd' = [syncCmd EXCEPT ![e] = NoSync] /\ undisturbed' = undisturbed \ {e}
  /\ UNCHANGED <<bundleLimit, runRows, runClock, pushedAll, inStep>>

SyncNext ==
  \/ \E r \in SyncRuns : RunAdvances(r)
  \/ \E e \in EdgeNodes, kind \in {"push", "pull"} : SyncBegins(e, kind)
  \/ \E e \in EdgeNodes, ok \in BOOLEAN : BuildBundle(e, ok) \/ ApplyRow(e, ok)
  \/ \E e \in EdgeNodes : BundleArrives(e) \/ SyncEnds(e) \/ MessageLost(e)

SyncSpec == SyncInit /\ [][SyncNext]_syncVars
-----------------------------------------------------------------------------
\* A push and then a pull bring an edge node in step (sync_cmd.go): when the push read
\* the whole store, none of the node's runs went on since, the pull read the whole store
\* of the server and neither command reported an error, the two stores hold the same
\* rows until the next write, whatever other nodes push and pull meanwhile.
SyncAgrees == \A e \in inStep : runRows[e] = runRows["server"]

\* "Conflicts: newer updated_at wins per run" (docs/guides/local-first-sync.md:42): no
\* step replaces a row by an older one.
NewerWins ==
  [][\A s \in Stores, r \in SyncRuns : runRows'[s][r] >= runRows[s][r]]_syncVars
=============================================================================
