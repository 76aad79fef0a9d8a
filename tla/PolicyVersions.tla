---------------------------- MODULE PolicyVersions ----------------------------
(***************************************************************************)
(* The versions of one policy: pkg/policy/version_store.go under the       *)
(* commands "unagnt policy apply, activate" and DeleteVersion.         *)
(*                                                                         *)
(* Each command is a process of its own on a shared database and a shared  *)
(* directory.  SaveVersion runs no transaction: its UPDATE, its file and   *)
(* its INSERT are separate steps, and the process may die between them.    *)
(***************************************************************************)
EXTENDS Integers

CONSTANTS PolicyCallers,     \* processes running a policy command
          PolicyVersionIds,  \* version strings
          PolicyContents,    \* contents that LoadEngineFromBytes accepts
          MaxPolicyOps       \* bound on the commands started

VARIABLES rows,      \* policy_versions: version -> row
          polFiles,  \* policies/<name>/<version>.yaml
          polCall,   \* the command each process runs
          polClock,  \* time, one tick per statement
          polLost    \* "active", or how the last active row went away (history)

polVars == <<rows, polFiles, polCall, polClock, polLost>>

NoFile == "no file"
NoCall == [pc |-> "idle"]
Active == {v \in DOMAIN rows : rows[v].active}

PolicyInit ==
  /\ rows = [v \in {} |-> NoCall] /\ polFiles = [v \in PolicyVersionIds |-> NoFile]
  /\ polCall = [c \in PolicyCallers |-> NoCall] /\ polClock = 0 /\ polLost = "never active"

Tick == polClock' = polClock + 1
Call(c, r) == polCall' = [polCall EXCEPT ![c] = r]

-----------------------------------------------------------------------------
(* unagnt policy apply                                                     *)

\* The content was loaded and validated; SaveVersion takes CreatedAt.
ApplyBegin(c, v, x, act) ==
  /\ polCall[c].pc = "idle" /\ polClock < MaxPolicyOps
  /\ Call(c, [pc |-> IF act THEN "deactivate" ELSE "file", ver |-> v, content |-> x,
              active |-> act, created |-> polClock, cleared |-> polClock])
  /\ Tick /\ UNCHANGED <<rows, polFiles, polLost>>

Deactivated == [v \in DOMAIN rows |-> [rows[v] EXCEPT !.active = FALSE]]

\* Mutant: the older active version is left active.
SaveDeactivateKept(c) ==
  /\ polCall[c].pc = "deactivate"
  /\ Call(c, [polCall[c] EXCEPT !.pc = "file", !.cleared = polClock])
  /\ Tick /\ UNCHANGED <<rows, polFiles, polLost>>

\* deactivateVersions
SaveDeactivate(c) ==
  /\ polCall[c].pc = "deactivate"
  /\ rows' = Deactivated
  /\ polLost' = IF Active # {} THEN "save" ELSE polLost
  /\ Call(c, [polCall[c] EXCEPT !.pc = "file", !.cleared = polClock])
  /\ Tick /\ UNCHANGED <<polFiles>>

SaveFile(c) ==
  /\ polCall[c].pc = "file"
  /\ polFiles' = [polFiles EXCEPT ![polCall[c].ver] = polCall[c].content]
  /\ Call(c, [polCall[c] EXCEPT !.pc = "insert"])
  /\ UNCHANGED <<rows, polClock, polLost>>

\* The INSERT; UNIQUE(policy_name, version) refuses a version that exists.
SaveInsert(c) ==
  LET s == polCall[c] IN
  /\ s.pc = "insert"
  /\ rows' = IF s.ver \in DOMAIN rows THEN rows
             ELSE [v \in DOMAIN rows \cup {s.ver} |->
                     IF v # s.ver THEN rows[v]
                     ELSE [content |-> s.content, created |-> s.created, active |-> s.active,
                           since |-> polClock, cleared |-> s.cleared]]
  /\ polLost' = IF s.active /\ s.ver \notin DOMAIN rows THEN "active" ELSE polLost
  /\ Call(c, NoCall)
  /\ Tick /\ UNCHANGED <<polFiles>>

\* A statement or a file operation fails, or the process dies.
PolicyAbort(c) ==
  /\ polCall[c].pc # "idle" /\ Call(c, NoCall)
  /\ UNCHANGED <<rows, polFiles, polClock, polLost>>

-----------------------------------------------------------------------------
(* unagnt policy activate: SetActiveVersion, one transaction               *)

SetActiveVersion(v) ==
  /\ polClock < MaxPolicyOps
  /\ v \in DOMAIN rows
  /\ rows' = [w \in DOMAIN rows |->
                IF w = v THEN [rows[w] EXCEPT !.active = TRUE, !.since = polClock,
                                              !.cleared = polClock]
                ELSE [rows[w] EXCEPT !.active = FALSE]]
  /\ polLost' = "active"
  /\ Tick /\ UNCHANGED <<polFiles, polCall>>

\* GetActiveVersion: ORDER BY created_at DESC LIMIT 1.
GetActiveVersion ==
  {v \in Active : \A w \in Active : rows[w].created <= rows[v].created}

\* Mutant: the check is made before the lookup has an answer.
DeleteCheckEarly(c, v) ==
  /\ polCall[c].pc = "idle" /\ polClock < MaxPolicyOps
  /\ Call(c, [pc |-> "delete", ver |-> v, looked |-> "none", cleared |-> polClock])
  /\ Tick /\ UNCHANGED <<rows, polFiles, polLost>>

\* DeleteVersion begins with the lookup.  It refuses the active version; a lookup
\* that fails is taken like one that finds nothing, and nothing is refused.
DeleteCheck(c, v) ==
  /\ polCall[c].pc = "idle" /\ polClock < MaxPolicyOps
  /\ \E looked \in {"failed", "none", "other"} :
       /\ looked = "none" => Active = {}
       /\ looked = "other" => \E w \in GetActiveVersion : w # v
       /\ Call(c, [pc |-> "delete", ver |-> v, looked |-> looked, cleared |-> polClock])
  /\ Tick /\ UNCHANGED <<rows, polFiles, polLost>>

\* How the deletion s takes the last active version away: its lookup had failed,
\* or was overtaken by what happened after it.
Loss(s) ==
  IF s.looked = "failed" THEN "unchecked"
  ELSE IF s.looked = "other" \/ rows[s.ver].since > s.cleared THEN "overtaken" ELSE "deleted"

\* The DELETE and the removal of the file.
DeleteRow(c) ==
  LET v == polCall[c].ver IN
  /\ polCall[c].pc = "delete" /\ v \in DOMAIN rows
  /\ rows' = [w \in DOMAIN rows \ {v} |-> rows[w]]
  /\ polFiles' = [polFiles EXCEPT ![v] = NoFile]
  /\ polLost' = IF Active = {v} THEN Loss(polCall[c]) ELSE polLost
  /\ Call(c, NoCall)
  /\ Tick

PolicyNext ==
  \/ \E c \in PolicyCallers, v \in PolicyVersionIds, x \in PolicyContents, a \in BOOLEAN :
       ApplyBegin(c, v, x, a)
  \/ \E c \in PolicyCallers : SaveDeactivate(c) \/ SaveFile(c) \/ SaveInsert(c) \/ PolicyAbort(c)
  \/ \E v \in PolicyVersionIds : SetActiveVersion(v)
  \/ \E c \in PolicyCallers, v \in PolicyVersionIds : DeleteCheck(c, v)
  \/ \E c \in PolicyCallers : DeleteRow(c)

-----------------------------------------------------------------------------
\* Two versions are active at once only when their activations overlapped: each
\* one cleared the others (its UPDATE, or the transaction of "policy activate")
\* before the other became active.  And a policy that lost its last active
\* version lost it to a save that did not get to its INSERT, or to a deletion
\* whose lookup failed or was overtaken: the version was made active after the
\* lookup, or another one that the lookup found has gone since.
OneActiveVersion ==
  /\ \A v, w \in Active : v # w => rows[v].cleared < rows[w].since
  /\ Active = {} => polLost # "active"
  /\ polLost # "deleted"
=============================================================================
