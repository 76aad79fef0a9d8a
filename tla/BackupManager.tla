---------------------------- MODULE BackupManager ----------------------------
(***************************************************************************)
(* Backups (pkg/backup/manager.go).  A backup dumps the database into a     *)
(* temporary file, uploads it and then records it; the cleanup deletes the  *)
(* object and then the record of every backup past its retention.  Several  *)
(* of them may run at once, and any of their calls may fail.  A name and an *)
(* id are the second they were made in, a name with the backup's type; the  *)
(* temporary file of a backup, and of its restore, has the backup's name.   *)
(***************************************************************************)
EXTENDS Naturals, Sequences, FiniteSets

CONSTANTS BackupTypes, BackupJobs,    \* the callers of CreateBackup
          Retention, MaxBackupTime, MaxBackups

VARIABLES storage,                    \* "s3", the repository's own, or one that "keeps" objects
          objects, backupRows,        \* name |-> the state of the dump stored; id |-> row
          dumps,                      \* temporary files: name |-> [by, state]
          backupJob,                  \* job |-> [step, type, at]
          restoring,                  \* names whose restore has its temporary file open
          cleaning,                   \* ids the cleanup selected and has not handled
          backupTime, attempts,
          uploaded, cleaned, clashed  \* history: names an Upload accepted, names a cleanup
                                      \* deleted, names two calls used a temporary file of

backupVars == <<storage, objects, backupRows, dumps, backupJob, restoring, cleaning, backupTime,
                attempts, uploaded, cleaned, clashed>>

IdleJob == [step |-> "idle", type |-> "", at |-> 0]
Nothing == [i \in {} |-> IdleJob]
Without(f, k) == [i \in DOMAIN f \ {k} |-> f[i]]
With(f, k, v) == [i \in DOMAIN f \cup {k} |-> IF i = k THEN v ELSE f[i]]

BackupInit ==
  /\ storage \in {"s3", "keeps"} /\ objects = Nothing /\ backupRows = Nothing /\ dumps = Nothing
  /\ backupJob = [j \in BackupJobs |-> IdleJob] /\ restoring = {} /\ cleaning = {}
  /\ backupTime = 0 /\ attempts = 0 /\ uploaded = {} /\ cleaned = {} /\ clashed = {}

BackupTick ==
  /\ backupTime < MaxBackupTime /\ backupTime' = backupTime + 1
  /\ UNCHANGED <<storage, objects, backupRows, dumps, backupJob, restoring, cleaning, attempts,
                 uploaded, cleaned, clashed>>

backupName(type, at) == <<type, at>>
NameOf(j) == backupName(backupJob[j].type, backupJob[j].at)

\* VACUUM INTO fails when the file has content, and the call then removes the file, which
\* may be the one another backup is dumping or has dumped.  It writes into an empty one,
\* which a restore may just have made.
DumpBegins(j, type) ==
  /\ backupJob[j].step = "idle" /\ attempts < MaxBackups /\ attempts' = attempts + 1
  /\ LET name == backupName(type, backupTime)
         begun == [backupJob EXCEPT ![j] = [step |-> "dumping", type |-> type, at |-> backupTime]]
     IN  \/ /\ name \notin DOMAIN dumps
            /\ dumps' = With(dumps, name, [by |-> j, state |-> "part"])
            /\ backupJob' = begun /\ UNCHANGED clashed
         \/ /\ name \in DOMAIN dumps /\ dumps' = Without(dumps, name)
            /\ UNCHANGED backupJob /\ clashed' = clashed \cup {name}
         \/ /\ name \in restoring \cap DOMAIN dumps /\ backupJob' = begun
            /\ UNCHANGED <<dumps, clashed>>
  /\ UNCHANGED <<storage, objects, backupRows, restoring, cleaning, backupTime, uploaded, cleaned>>

Ends(j) ==
  /\ backupJob' = [backupJob EXCEPT ![j] = IdleJob]
  /\ dumps' = Without(dumps, NameOf(j))

\* The dump is complete, in whatever file it was begun in; Stat needs one of that name.
DumpDatabase(j, ok) ==
  /\ backupJob[j].step = "dumping"
  /\ LET name == NameOf(j) IN
     IF ok /\ name \in DOMAIN dumps
     THEN /\ backupJob' = [backupJob EXCEPT ![j].step = "dumped"]
          /\ dumps' = IF dumps[name].by = j THEN [dumps EXCEPT ![name].state = "whole"] ELSE dumps
     ELSE Ends(j)
  /\ UNCHANGED <<storage, objects, backupRows, restoring, cleaning, backupTime, attempts, uploaded,
                 cleaned, clashed>>

\* Mutant: the row is written first and the object follows.
BackupOrderRowFirst == <<"record", "upload">>
BackupOrder == <<"upload", "record">>

\* The file of that name is opened and uploaded as it is; when it is gone the backup
\* fails.  S3BackupStorage accepts an upload and stores nothing.
UploadBackup(j, ok) ==
  /\ backupJob[j].step = IF BackupOrder[1] = "upload" THEN "dumped" ELSE "half"
  /\ ok => NameOf(j) \in DOMAIN dumps
  /\ objects' = IF ok /\ storage = "keeps"
                THEN With(objects, NameOf(j), dumps[NameOf(j)].state) ELSE objects
  /\ uploaded' = IF ok THEN uploaded \cup {NameOf(j)} ELSE uploaded
  /\ IF ok /\ BackupOrder[1] = "upload"
     THEN /\ backupJob' = [backupJob EXCEPT ![j].step = "half"] /\ UNCHANGED dumps
     ELSE Ends(j)
  /\ UNCHANGED <<storage, backupRows, restoring, cleaning, backupTime, attempts, cleaned, clashed>>

\* storeMetadata: the id is the current second, so a second backup recorded within it
\* is refused, and its object stays in the storage without a row.
StoreMetadata(j, ok) ==
  /\ backupJob[j].step = IF BackupOrder[1] = "record" THEN "dumped" ELSE "half"
  /\ LET id  == backupTime
         row == [loc |-> NameOf(j), made |-> backupTime]
         stored == ok /\ id \notin DOMAIN backupRows
     IN  /\ backupRows' = IF stored THEN With(backupRows, id, row) ELSE backupRows
         /\ IF stored /\ BackupOrder[1] = "record"
            THEN backupJob' = [backupJob EXCEPT ![j].step = "half"] /\ UNCHANGED dumps
            ELSE Ends(j)
  /\ UNCHANGED <<storage, objects, restoring, cleaning, backupTime, attempts, uploaded, cleaned,
                 clashed>>

\* RestoreBackup: the row is looked up, the object is found (S3BackupStorage cannot
\* download) and Create empties the temporary file of that name, also one a backup is
\* writing or about to upload.
RestoreBackup(id) ==
  /\ id \in DOMAIN backupRows /\ storage = "keeps"
  /\ LET name == backupRows[id].loc IN
     /\ name \in DOMAIN objects \ restoring
     /\ dumps' = With(dumps, name, [by |-> "restore", state |-> "torn"])
     /\ restoring' = restoring \cup {name} /\ clashed' = clashed \cup {name}
  /\ UNCHANGED <<storage, objects, backupRows, backupJob, cleaning, backupTime, attempts, uploaded,
                 cleaned>>

\* restoreDatabase always fails, it is not implemented, and the file of that name goes.
RestoreFails(name) ==
  /\ name \in restoring /\ restoring' = restoring \ {name} /\ dumps' = Without(dumps, name)
  /\ UNCHANGED <<storage, objects, backupRows, backupJob, cleaning, backupTime, attempts, uploaded,
                 cleaned, clashed>>

Expired(row) == row.made + Retention < backupTime

\* CleanupOldBackups: the query, then for each row the object and the row.  A failed
\* delete of the object leaves both; of the row, the row.
CleanupOldBackups ==
  /\ cleaning = {} /\ cleaning' = {i \in DOMAIN backupRows : Expired(backupRows[i])}
  /\ cleaning' # {}
  /\ UNCHANGED <<storage, objects, backupRows, dumps, backupJob, restoring, backupTime, attempts,
                 uploaded, cleaned, clashed>>
CleanOne(id, objectOk, rowOk) ==
  /\ id \in cleaning /\ cleaning' = cleaning \ {id}
  /\ objects' = IF objectOk THEN Without(objects, backupRows[id].loc) ELSE objects
  /\ cleaned' = IF objectOk THEN cleaned \cup {backupRows[id].loc} ELSE cleaned
  /\ backupRows' = IF objectOk /\ rowOk THEN Without(backupRows, id) ELSE backupRows
  /\ UNCHANGED <<storage, dumps, backupJob, restoring, backupTime, attempts, uploaded, clashed>>

BackupNext ==
  \/ BackupTick
  \/ \E j \in BackupJobs, t \in BackupTypes : DumpBegins(j, t)
  \/ \E j \in BackupJobs, ok \in BOOLEAN : DumpDatabase(j, ok) \/ UploadBackup(j, ok) \/ StoreMetadata(j, ok)
  \/ \E id \in DOMAIN backupRows : RestoreBackup(id)
  \/ \E name \in restoring : RestoreFails(name)
  \/ CleanupOldBackups
  \/ \E id \in cleaning, o, r \in BOOLEAN : CleanOne(id, o, r)

-----------------------------------------------------------------------------
\* CreateBackup and CleanupOldBackups (manager.go), however backups and restores take
\* each other's temporary file and whichever call fails: a backup is on record only when
\* the storage accepted its upload.  A storage that keeps what it accepts still has the
\* object of every backup on record unless a cleanup took it, and the object is a whole
\* dump unless another backup or a restore used the temporary file of that name.  A
\* cleanup takes only objects dumped longer ago than the retention.
BackupsRecorded ==
  /\ \A id \in DOMAIN backupRows :
       LET loc == backupRows[id].loc IN
       /\ loc \in uploaded
       /\ storage = "keeps" => loc \in DOMAIN objects \cup cleaned
  /\ \A loc \in DOMAIN objects : objects[loc] = "whole" \/ loc \in clashed
  /\ \A loc \in cleaned : loc[2] + Retention < backupTime

-----------------------------------------------------------------------------
(***************************************************************************)
(* The region-aware router and the replication manager (pkg/backup), which  *)
(* share the replicas' records.  Each check pings a replica and then writes *)
(* its record, one replica after the other.  RefreshHealth does so under    *)
(* the router's lock, which the readers take too; CheckHealth and Failover  *)
(* take no lock, so their steps fall anywhere.                              *)
(***************************************************************************)

CONSTANTS Replicas,     \* sequence of [name, region, priority]
          MaxOutages

ASSUME ReplicaNames == \A i, j \in DOMAIN Replicas : Replicas[i].name = Replicas[j].name => i = j

VARIABLES up, sawUp,    \* the replicas that are up, and those with Healthy set
          checkAt,      \* "refresh", "check" |-> [at, got]: the replica it is at (0: it does
                        \* not run), and what its ping said: "none", "up" or "down"
          route,        \* the last answer of Reader or of Failover
          outages,
          refreshed,    \* history: the replicas that answered the last complete RefreshHealth
          answered,     \* history: those that answered the one under way
          checked       \* history: CheckHealth has written a record since it began

routerVars == <<up, sawUp, checkAt, route, outages, refreshed, answered, checked>>
ReplicaIds == DOMAIN Replicas
NoRoute == [to |-> "none", by |-> "none", region |-> ""]
NotRunning == [at |-> 0, got |-> "none"]

RouterInit ==
  /\ up = ReplicaIds /\ sawUp = {} /\ checkAt = [c \in {"refresh", "check"} |-> NotRunning]
  /\ route = NoRoute /\ outages = 0 /\ refreshed = {} /\ answered = {} /\ checked = FALSE

\* A replica goes down or comes back; its record changes only at a check.
ReplicaFlips(i) ==
  /\ outages < MaxOutages /\ outages' = outages + 1
  /\ up' = IF i \in up THEN up \ {i} ELSE up \cup {i}
  /\ UNCHANGED <<sawUp, checkAt, route, refreshed, answered, checked>>

CheckBegins(c) ==
  /\ checkAt[c] = NotRunning /\ checkAt' = [checkAt EXCEPT ![c].at = 1]
  /\ answered' = IF c = "refresh" THEN {} ELSE answered
  /\ checked' = (c # "refresh" /\ checked) /\ route' = NoRoute
  /\ UNCHANGED <<up, sawUp, outages, refreshed>>

\* PingContext of the replica the check is at.
PingReplica(c) ==
  LET i == checkAt[c].at IN
  /\ i # 0 /\ checkAt[c].got = "none"
  /\ checkAt' = [checkAt EXCEPT ![c].got = IF i \in up THEN "up" ELSE "down"]
  /\ answered' = IF c = "refresh" /\ i \in up THEN answered \cup {i} ELSE answered
  /\ UNCHANGED <<up, sawUp, route, outages, refreshed, checked>>

\* The answer is written, whatever another check has written meanwhile.
WriteHealthy(c) ==
  LET i == checkAt[c].at
      last == i = Len(Replicas)
  IN  /\ checkAt[c].got # "none"
      /\ sawUp' = IF checkAt[c].got = "up" THEN sawUp \cup {i} ELSE sawUp \ {i}
      /\ checkAt' = [checkAt EXCEPT ![c] = [at |-> IF last THEN 0 ELSE i + 1, got |-> "none"]]
      /\ refreshed' = IF c = "refresh" /\ last THEN answered ELSE refreshed
      /\ checked' = (checked \/ c = "check") /\ route' = NoRoute
      /\ UNCHANGED <<up, outages, answered>>

RefreshHealth == CheckBegins("refresh") \/ PingReplica("refresh") \/ WriteHealthy("refresh")
CheckHealth == CheckBegins("check") \/ PingReplica("check") \/ WriteHealthy("check")

FirstOf(set) == CHOOSE i \in set : \A j \in set : i <= j

\* Mutant: a replica of the region is preferred whatever its record says.
ReaderNear(region) ==
  LET near == {i \in ReplicaIds : region # "" /\ Replicas[i].region = region}
  IN  CASE near # {}  -> Replicas[FirstOf(near)].name
        [] sawUp # {} -> Replicas[FirstOf(sawUp)].name
        [] OTHER      -> "primary"

\* The first replica of the region that is marked healthy, or the first that is, or the
\* primary.  A request without the header names no region.
Reader(region) ==
  LET near == {i \in sawUp : region # "" /\ Replicas[i].region = region}
  IN  CASE near # {}  -> Replicas[FirstOf(near)].name
        [] sawUp # {} -> Replicas[FirstOf(sawUp)].name
        [] OTHER      -> "primary"

\* The healthy replica with the highest priority, the first of equals; none is an error.
FailoverTo ==
  LET best == {i \in sawUp : \A j \in sawUp : Replicas[j].priority <= Replicas[i].priority}
  IN  IF best = {} THEN "error" ELSE Replicas[FirstOf(best)].name

\* Mutant: the reader does not take the lock.
RouteReadUnlocked(region) ==
  /\ route' = [to |-> Reader(region), by |-> "reader", region |-> region]
  /\ UNCHANGED <<up, sawUp, checkAt, outages, refreshed, answered, checked>>

\* Reader and ReaderForRegion wait for a RefreshHealth under way.
RouteRead(region) ==
  /\ checkAt["refresh"] = NotRunning
  /\ route' = [to |-> Reader(region), by |-> "reader", region |-> region]
  /\ UNCHANGED <<up, sawUp, checkAt, outages, refreshed, answered, checked>>
Failover ==
  /\ route' = [to |-> FailoverTo, by |-> "failover", region |-> ""]
  /\ UNCHANGED <<up, sawUp, checkAt, outages, refreshed, answered, checked>>

RouterNext ==
  \/ \E i \in ReplicaIds : ReplicaFlips(i)
  \/ RefreshHealth \/ CheckHealth \/ Failover
  \/ \E r \in {""} \cup {Replicas[i].region : i \in ReplicaIds} : RouteRead(r)

-----------------------------------------------------------------------------
\* Reader, ReaderForRegion and RefreshHealth (region.go): a read never mixes two
\* refreshes.  Unless CheckHealth has written meanwhile, it goes to a replica that
\* answered in the last complete refresh, one of its region when such a one answered,
\* and to the primary only when none did, also while the next refresh is writing.
ReadsOneRefresh ==
  (route.by = "reader" /\ ~checked) =>
    LET near == {i \in refreshed : route.region # "" /\ Replicas[i].region = route.region}
        fits == IF near # {} THEN near ELSE refreshed
    IN  route.to \in IF fits = {} THEN {"primary"} ELSE {Replicas[i].name : i \in fits}
=============================================================================
