------------------------- MODULE PolicyVersionProofs -------------------------
(***************************************************************************)
(* OneActiveVersion for any number of processes, versions, contents and    *)
(* commands.                                                               *)
(*                                                                         *)
(* A save that has run its UPDATE remembers when: as long as it has not    *)
(* inserted its row, every version that is active became active after that *)
(* time.  When the row goes in, the two versions therefore cleared each    *)
(* other before the other became active, which is all the code guarantees. *)
(***************************************************************************)
EXTENDS PolicyVersions, TLAPS

PolicySpec == PolicyInit /\ [][PolicyNext]_polVars

Rows == [content : PolicyContents, created : Nat, active : BOOLEAN, since : Nat, cleared : Nat]
Saves == [pc : {"deactivate", "file", "insert"}, ver : PolicyVersionIds,
          content : PolicyContents, active : BOOLEAN, created : Nat, cleared : Nat]
Saving(c) == polCall[c].pc \in {"deactivate", "file", "insert"}
Deletes == [pc : {"delete"}, ver : PolicyVersionIds, looked : {"failed", "none", "other"}, cleared : Nat]

\* A command that has seen to it, or has found, that nothing was active at its time `cleared`.
ClearedAt(r) == \/ r.pc \in {"file", "insert"} /\ r.active
                \/ r.pc = "delete" /\ r.looked = "none"
Clear(c) == ClearedAt(polCall[c])

PolicyTypes ==
  /\ polClock \in Nat
  /\ rows \in [DOMAIN rows -> Rows]
  /\ polCall = [c \in PolicyCallers |-> polCall[c]]
  /\ \A c \in PolicyCallers : Saving(c) => polCall[c] \in Saves
  /\ \A c \in PolicyCallers : polCall[c].pc = "delete" => polCall[c] \in Deletes

\* Each active version cleared the others before they became active.
Overlap ==
  \A v \in DOMAIN rows : rows[v].active =>
    /\ rows[v].cleared < polClock
    /\ \A w \in DOMAIN rows : rows[w].active /\ v # w => rows[v].cleared < rows[w].since

\* What is active was made so after the UPDATE of a save that is still under way,
\* and after the lookup of a deletion that found nothing active.
SaveCleared ==
  \A c \in PolicyCallers :
    Clear(c) =>
      /\ polCall[c].cleared < polClock
      /\ \A w \in DOMAIN rows : rows[w].active => polCall[c].cleared < rows[w].since

LossExplained ==
  /\ (\A v \in DOMAIN rows : ~ rows[v].active) => polLost # "active"
  /\ polLost # "deleted"

PolicyIInv == PolicyTypes /\ Overlap /\ SaveCleared /\ LossExplained

\* A store without rows, and no command running.
LEMMA PolicyStart == PolicyInit => PolicyIInv
<1> SUFFICES ASSUME PolicyInit PROVE PolicyIInv
  OBVIOUS
<1>1. DOMAIN rows = {} /\ polClock = 0 /\ polLost = "never active"
  BY DEF PolicyInit
<1>2. polCall = [c \in PolicyCallers |-> polCall[c]] /\ \A c \in PolicyCallers : polCall[c].pc = "idle"
  BY DEF PolicyInit, NoCall
<1>3. rows \in [DOMAIN rows -> Rows]
  BY DEF PolicyInit
<1>4. PolicyTypes
  BY <1>1, <1>2, <1>3 DEF PolicyTypes, Saving
<1> QED
  BY <1>1, <1>2, <1>4 DEF PolicyIInv, Overlap, SaveCleared, LossExplained, Clear, ClearedAt

\* The time a command keeps is a number.
LEMMA ClearedInNat ==
  ASSUME PolicyIInv, NEW c \in PolicyCallers, Clear(c)
  PROVE  polCall[c].cleared \in Nat
<1>1. polCall[c] \in Saves \/ polCall[c] \in Deletes
  BY DEF PolicyIInv, PolicyTypes, Saving, Clear, ClearedAt
<1> QED
  BY <1>1 DEF Saves, Deletes

\* A step that leaves the rows alone and starts or ends the command of one process.
LEMMA CallKeeps ==
  ASSUME PolicyIInv, NEW c \in PolicyCallers, NEW r,
         Call(c, r), UNCHANGED <<rows, polLost>>,
         polClock' = polClock \/ polClock' = polClock + 1,
         r.pc \in {"deactivate", "file", "insert"} => r \in Saves,
         r.pc = "delete" => r \in Deletes,
         ClearedAt(r) => \/ Clear(c) /\ r.cleared = polCall[c].cleared
                         \/ /\ r.cleared = polClock /\ polClock' = polClock + 1
                            /\ \A v \in DOMAIN rows : ~ rows[v].active
  PROVE  PolicyIInv'
<1>1. polClock \in Nat /\ polClock' \in Nat /\ polClock <= polClock'
  BY DEF PolicyIInv, PolicyTypes
<1>2. polCall' = [d \in PolicyCallers |-> polCall'[d]]
  BY DEF PolicyIInv, PolicyTypes, Call
<1>3. polCall'[c] = r /\ \A d \in PolicyCallers \ {c} : polCall'[d] = polCall[d]
  BY DEF PolicyIInv, PolicyTypes, Call
<1>4. PolicyTypes'
  BY <1>1, <1>2, <1>3 DEF PolicyIInv, PolicyTypes, Saving
<1>5. Overlap'
  <2>1. \A v \in DOMAIN rows : rows[v].cleared \in Nat
    BY DEF PolicyIInv, PolicyTypes, Rows
  <2> QED
    BY <1>1, <2>1 DEF PolicyIInv, Overlap
<1>6. SaveCleared'
  <2> SUFFICES ASSUME NEW d \in PolicyCallers, Clear(d)'
               PROVE  /\ polCall'[d].cleared < polClock'
                      /\ \A w \in DOMAIN rows : rows[w].active => polCall'[d].cleared < rows[w].since
    BY DEF SaveCleared
  <2>1. CASE Clear(d) /\ polCall'[d].cleared = polCall[d].cleared
    <3>1. polCall[d].cleared \in Nat
      BY <2>1, ClearedInNat
    <3>2. /\ polCall[d].cleared < polClock
          /\ \A w \in DOMAIN rows : rows[w].active => polCall[d].cleared < rows[w].since
      BY <2>1 DEF PolicyIInv, SaveCleared
    <3> QED
      BY <1>1, <2>1, <3>1, <3>2
  <2>2. CASE ~ (Clear(d) /\ polCall'[d].cleared = polCall[d].cleared)
    <3>1. d = c
      BY <2>2, <1>3 DEF Clear
    <3>2. ClearedAt(r) /\ polCall'[d] = r
      BY <3>1, <1>3 DEF Clear
    <3> QED
      BY <1>1, <2>2, <3>1, <3>2
  <2> QED
    BY <2>1, <2>2
<1>7. LossExplained'
  BY DEF PolicyIInv, LossExplained
<1> QED
  BY <1>4, <1>5, <1>6, <1>7 DEF PolicyIInv

\* Beginning a save or a deletion, writing the file and giving up change no row.
LEMMA CommandsKeep ==
  ASSUME PolicyIInv, NEW c \in PolicyCallers,
         \/ \E v \in PolicyVersionIds, x \in PolicyContents, a \in BOOLEAN : ApplyBegin(c, v, x, a)
         \/ SaveFile(c) \/ PolicyAbort(c)
         \/ \E v \in PolicyVersionIds : DeleteCheck(c, v)
  PROVE  PolicyIInv'
<1>1. ASSUME NEW v \in PolicyVersionIds, NEW x \in PolicyContents, NEW a \in BOOLEAN,
             ApplyBegin(c, v, x, a)
      PROVE  PolicyIInv'
  <2> DEFINE r == [pc |-> IF a THEN "deactivate" ELSE "file", ver |-> v, content |-> x,
                   active |-> a, created |-> polClock, cleared |-> polClock]
  <2>1. Call(c, r) /\ UNCHANGED <<rows, polLost>> /\ polClock' = polClock + 1
    BY <1>1 DEF ApplyBegin, Tick
  <2>2. r \in Saves /\ r.pc # "delete" /\ ~ (r.pc \in {"file", "insert"} /\ r.active)
    BY DEF PolicyIInv, PolicyTypes, Saves
  <2> HIDE DEF r
  <2>3. ~ ClearedAt(r)
    BY <2>2 DEF ClearedAt
  <2> QED
    BY <2>1, <2>2, <2>3, CallKeeps
<1>2. CASE SaveFile(c)
  <2> DEFINE r == [polCall[c] EXCEPT !.pc = "insert"]
  <2>1. /\ Call(c, r) /\ UNCHANGED <<rows, polLost>> /\ polClock' = polClock
        /\ polCall[c].pc = "file"
    BY <1>2 DEF SaveFile
  <2>2. polCall[c] \in Saves
    BY <2>1 DEF PolicyIInv, PolicyTypes, Saving
  <2>3. r \in Saves /\ r.active = polCall[c].active /\ r.cleared = polCall[c].cleared /\ r.pc = "insert"
    BY <2>2 DEF Saves
  <2> HIDE DEF r
  <2>4. ClearedAt(r) => Clear(c)
    BY <2>1, <2>3 DEF ClearedAt, Clear
  <2> QED
    BY <2>1, <2>3, <2>4, CallKeeps
<1>3. CASE PolicyAbort(c)
  <2>1. Call(c, NoCall) /\ UNCHANGED <<rows, polLost>> /\ polClock' = polClock
    BY <1>3 DEF PolicyAbort
  <2>2. NoCall.pc = "idle" /\ ~ ClearedAt(NoCall)
    BY DEF NoCall, ClearedAt
  <2> QED
    BY <2>1, <2>2, CallKeeps
<1>4. ASSUME NEW v \in PolicyVersionIds, DeleteCheck(c, v)
      PROVE  PolicyIInv'
  <2>0. PICK looked \in {"failed", "none", "other"} :
          /\ looked = "none" => Active = {}
          /\ Call(c, [pc |-> "delete", ver |-> v, looked |-> looked, cleared |-> polClock])
    BY <1>4 DEF DeleteCheck
  <2> DEFINE r == [pc |-> "delete", ver |-> v, looked |-> looked, cleared |-> polClock]
  <2>1. Call(c, r) /\ UNCHANGED <<rows, polLost>> /\ polClock' = polClock + 1 /\ polClock \in Nat
    BY <2>0, <1>4 DEF DeleteCheck, Tick, PolicyIInv, PolicyTypes
  <2>2. r.pc = "delete" /\ r.looked = looked /\ r.cleared = polClock /\ r \in Deletes
    BY <2>1 DEF Deletes
  <2> HIDE DEF r
  <2>3. ClearedAt(r) => \A w \in DOMAIN rows : ~ rows[w].active
    BY <2>0, <2>2 DEF ClearedAt, Active
  <2> QED
    BY <2>1, <2>2, <2>3, CallKeeps
<1> QED
  BY <1>1, <1>2, <1>3, <1>4

\* deactivateVersions leaves nothing active, so whatever becomes active later does so
\* after this save's UPDATE.
LEMMA DeactivateKeeps ==
  ASSUME PolicyIInv, NEW c \in PolicyCallers, SaveDeactivate(c)
  PROVE  PolicyIInv'
<1> DEFINE r == [polCall[c] EXCEPT !.pc = "file", !.cleared = polClock]
<1>1. /\ polCall[c].pc = "deactivate" /\ rows' = Deactivated /\ Call(c, r)
      /\ polLost' = IF Active # {} THEN "save" ELSE polLost
      /\ polClock' = polClock + 1 /\ polClock \in Nat
  BY DEF SaveDeactivate, Tick, PolicyIInv, PolicyTypes
<1>2. polCall[c] \in Saves
  BY <1>1 DEF PolicyIInv, PolicyTypes, Saving
<1>3. r \in Saves /\ r.cleared = polClock /\ r.pc = "file"
  BY <1>1, <1>2 DEF Saves
<1> HIDE DEF r
<1>4. /\ polCall' = [d \in PolicyCallers |-> polCall'[d]] /\ polCall'[c] = r
      /\ \A d \in PolicyCallers \ {c} : polCall'[d] = polCall[d]
  BY <1>1 DEF PolicyIInv, PolicyTypes, Call
<1>5. /\ rows' \in [DOMAIN rows' -> Rows] /\ DOMAIN rows' = DOMAIN rows
      /\ \A v \in DOMAIN rows' : ~ rows'[v].active
  BY <1>1 DEF Deactivated, Rows, PolicyIInv, PolicyTypes
<1>6. PolicyTypes'
  BY <1>1, <1>3, <1>4, <1>5 DEF PolicyIInv, PolicyTypes, Saving
<1>7. Overlap'
  BY <1>5 DEF Overlap
<1>8. SaveCleared'
  <2> SUFFICES ASSUME NEW d \in PolicyCallers, Clear(d)'
               PROVE  polCall'[d].cleared < polClock'
    BY <1>5 DEF SaveCleared
  <2>1. CASE d = c
    BY <1>1, <1>3, <1>4, <2>1
  <2>2. CASE d # c
    <3>1. polCall'[d] = polCall[d] /\ Clear(d)
      BY <1>4, <2>2 DEF Clear
    <3>2. polCall[d].cleared < polClock /\ polCall[d].cleared \in Nat
      BY <3>1, ClearedInNat DEF PolicyIInv, SaveCleared
    <3> QED
      BY <1>1, <3>1, <3>2
  <2> QED
    BY <2>1, <2>2
<1>9. LossExplained'
  BY <1>1 DEF PolicyIInv, LossExplained, Active
<1> QED
  BY <1>6, <1>7, <1>8, <1>9 DEF PolicyIInv

\* A save or deletion under way stays ahead of whatever becomes active now.
LEMMA LaterActive ==
  ASSUME PolicyIInv, NEW c \in PolicyCallers, Clear(c)
  PROVE  /\ polCall[c].cleared \in Nat /\ polCall[c].cleared < polClock
         /\ \A w \in DOMAIN rows : rows[w].active => polCall[c].cleared < rows[w].since
BY ClearedInNat DEF PolicyIInv, SaveCleared

\* The INSERT: the new version cleared every active one before it became active, and
\* becomes active itself after all of them cleared.
LEMMA InsertKeeps ==
  ASSUME PolicyIInv, NEW c \in PolicyCallers, SaveInsert(c)
  PROVE  PolicyIInv'
<1> DEFINE s == polCall[c]
           new == [content |-> s.content, created |-> s.created, active |-> s.active,
                   since |-> polClock, cleared |-> s.cleared]
<1>1. /\ s.pc = "insert" /\ Call(c, NoCall) /\ polClock' = polClock + 1 /\ polClock \in Nat
      /\ s \in Saves
  BY DEF SaveInsert, Tick, PolicyIInv, PolicyTypes, Saving
<1>2. CASE s.ver \in DOMAIN rows
  <2>1. UNCHANGED <<rows, polLost>>
    BY <1>2 DEF SaveInsert
  <2>2. NoCall.pc = "idle" /\ ~ ClearedAt(NoCall)
    BY DEF NoCall, ClearedAt
  <2> QED
    BY <1>1, <2>1, <2>2, CallKeeps
<1>3. CASE s.ver \notin DOMAIN rows
  <2>1. /\ rows' = [v \in DOMAIN rows \cup {s.ver} |-> IF v # s.ver THEN rows[v] ELSE new]
        /\ polLost' = IF s.active THEN "active" ELSE polLost
    BY <1>3 DEF SaveInsert
  <2>2. /\ new \in Rows /\ new.active = s.active /\ new.since = polClock
        /\ new.cleared = s.cleared
    BY <1>1 DEF Rows, Saves
  <2> HIDE DEF new
  <2>3. /\ DOMAIN rows' = DOMAIN rows \cup {s.ver} /\ rows'[s.ver] = new
        /\ \A v \in DOMAIN rows : rows'[v] = rows[v]
    BY <1>3, <2>1
  <2>4. rows' \in [DOMAIN rows' -> Rows]
    BY <2>1, <2>2 DEF PolicyIInv, PolicyTypes
  <2>5. /\ polCall' = [d \in PolicyCallers |-> polCall'[d]] /\ polCall'[c].pc = "idle"
        /\ \A d \in PolicyCallers \ {c} : polCall'[d] = polCall[d]
    BY <1>1 DEF PolicyIInv, PolicyTypes, Call, NoCall
  <2>6. PolicyTypes'
    BY <1>1, <2>4, <2>5 DEF PolicyIInv, PolicyTypes, Saving
  <2>7. \A v \in DOMAIN rows : rows[v].active =>
          rows[v].cleared \in Nat /\ rows[v].since \in Nat /\ rows[v].cleared < polClock
    BY DEF PolicyIInv, PolicyTypes, Rows, Overlap
  <2>8. s.active => /\ s.cleared \in Nat /\ s.cleared < polClock
                    /\ \A w \in DOMAIN rows : rows[w].active => s.cleared < rows[w].since
    BY <1>1, LaterActive DEF Clear, ClearedAt
  <2>9. Overlap'
    <3> SUFFICES ASSUME NEW v \in DOMAIN rows', rows'[v].active
                 PROVE  /\ rows'[v].cleared < polClock'
                        /\ \A w \in DOMAIN rows' : rows'[w].active /\ v # w =>
                             rows'[v].cleared < rows'[w].since
      BY DEF Overlap
    <3>1. CASE v = s.ver
      BY <1>1, <2>2, <2>3, <2>8, <3>1
    <3>2. CASE v # s.ver
      <4>1. \A w \in DOMAIN rows : rows[w].active /\ v # w => rows[v].cleared < rows[w].since
        BY <2>3, <3>2 DEF PolicyIInv, Overlap
      <4> QED
        BY <1>1, <2>2, <2>3, <2>7, <3>2, <4>1
    <3> QED
      BY <3>1, <3>2
  <2>10. SaveCleared'
    <3> SUFFICES ASSUME NEW d \in PolicyCallers, Clear(d)'
                 PROVE  /\ polCall'[d].cleared < polClock'
                        /\ \A w \in DOMAIN rows' : rows'[w].active =>
                             polCall'[d].cleared < rows'[w].since
      BY DEF SaveCleared
    <3>1. polCall'[d] = polCall[d] /\ Clear(d)
      BY <2>5 DEF Clear, ClearedAt
    <3>2. /\ polCall[d].cleared \in Nat /\ polCall[d].cleared < polClock
          /\ \A w \in DOMAIN rows : rows[w].active => polCall[d].cleared < rows[w].since
      BY <3>1, LaterActive
    <3> QED
      BY <1>1, <2>2, <2>3, <3>1, <3>2
  <2>11. LossExplained'
    BY <2>1, <2>2, <2>3, SMTT(20) DEF PolicyIInv, LossExplained
  <2> QED
    BY <2>6, <2>9, <2>10, <2>11 DEF PolicyIInv
<1> QED
  BY <1>2, <1>3

\* SetActiveVersion leaves one active version, which is the newest.
LEMMA ActivateKeeps ==
  ASSUME PolicyIInv, NEW v \in PolicyVersionIds, SetActiveVersion(v)
  PROVE  PolicyIInv'
<1>1. /\ UNCHANGED polCall /\ polLost' = "active"
      /\ polClock' = polClock + 1 /\ polClock \in Nat
  BY DEF SetActiveVersion, Tick, PolicyIInv, PolicyTypes
<1>2. /\ v \in DOMAIN rows /\ rows \in [DOMAIN rows -> Rows] /\ polClock \in Nat
      /\ rows' = [w \in DOMAIN rows |->
                    IF w = v THEN [rows[w] EXCEPT !.active = TRUE, !.since = polClock,
                                                  !.cleared = polClock]
                    ELSE [rows[w] EXCEPT !.active = FALSE]]
  BY DEF SetActiveVersion, PolicyIInv, PolicyTypes
<1>3. /\ DOMAIN rows' = DOMAIN rows
      /\ rows'[v] = [content |-> rows[v].content, created |-> rows[v].created, active |-> TRUE,
                     since |-> polClock, cleared |-> polClock]
  BY <1>2 DEF Rows
<1>4. /\ rows'[v] \in Rows /\ rows'[v].active /\ rows'[v].since = polClock
      /\ rows'[v].cleared = polClock
  BY <1>2, <1>3 DEF Rows
<1>5. \A w \in DOMAIN rows \ {v} : rows'[w] \in Rows /\ ~ rows'[w].active
  BY <1>2 DEF Rows
<1>6. rows' \in [DOMAIN rows' -> Rows]
  BY <1>2, <1>3, <1>4, <1>5
<1>7. v \in DOMAIN rows'
  BY <1>2, <1>3
<1>8. PolicyTypes'
  BY <1>1, <1>6 DEF PolicyIInv, PolicyTypes, Saving
<1>9. Overlap'
  BY <1>1, <1>7, <1>3, <1>4, <1>5 DEF Overlap
<1>10. SaveCleared'
  <2> SUFFICES ASSUME NEW d \in PolicyCallers, Clear(d)
               PROVE  /\ polCall[d].cleared < polClock'
                      /\ \A w \in DOMAIN rows' : rows'[w].active =>
                           polCall[d].cleared < rows'[w].since
    BY <1>1 DEF SaveCleared, Clear
  <2>1. polCall[d].cleared \in Nat /\ polCall[d].cleared < polClock
    BY LaterActive
  <2> QED
    BY <1>1, <1>7, <1>3, <1>4, <1>5, <2>1
<1>11. LossExplained'
  BY <1>1, <1>7, <1>3, <1>4 DEF LossExplained
<1> QED
  BY <1>8, <1>9, <1>10, <1>11 DEF PolicyIInv

\* A deletion takes one row away.
LEMMA DeleteKeeps ==
  ASSUME PolicyIInv, NEW c \in PolicyCallers, DeleteRow(c)
  PROVE  PolicyIInv'
<1> DEFINE v == polCall[c].ver
<1>1. /\ rows' = [w \in DOMAIN rows \ {v} |-> rows[w]] /\ Call(c, NoCall)
      /\ polLost' = IF Active = {v} THEN Loss(polCall[c]) ELSE polLost
      /\ polCall[c].pc = "delete" /\ v \in DOMAIN rows
      /\ polClock' = polClock + 1 /\ polClock \in Nat
  BY DEF DeleteRow, Tick, PolicyIInv, PolicyTypes
<1>a. Active = {v} => Loss(polCall[c]) \notin {"active", "deleted"}
  <2> SUFFICES ASSUME Active = {v}, Loss(polCall[c]) \in {"active", "deleted"} PROVE FALSE
    OBVIOUS
  <2>1. polCall[c] \in Deletes /\ polCall[c].looked = "none" /\ ~ (rows[v].since > polCall[c].cleared)
    BY <1>1 DEF Loss, PolicyIInv, PolicyTypes, Deletes
  <2>2. Clear(c) /\ rows[v].active
    BY <1>1, <2>1 DEF Clear, ClearedAt, Active
  <2>3. polCall[c].cleared < rows[v].since /\ polCall[c].cleared \in Nat /\ rows[v].since \in Nat
    BY <1>1, <2>2, LaterActive DEF PolicyIInv, PolicyTypes, Rows
  <2> QED
    BY <2>1, <2>3
<1> HIDE DEF v
<1>2. /\ DOMAIN rows' = DOMAIN rows \ {v} /\ \A w \in DOMAIN rows' : rows'[w] = rows[w]
      /\ rows' \in [DOMAIN rows' -> Rows]
  BY <1>1 DEF PolicyIInv, PolicyTypes
<1>3. /\ polCall' = [d \in PolicyCallers |-> polCall'[d]] /\ polCall'[c].pc = "idle"
      /\ \A d \in PolicyCallers \ {c} : polCall'[d] = polCall[d]
  BY <1>1 DEF PolicyIInv, PolicyTypes, Call, NoCall
<1>4. PolicyTypes'
  BY <1>1, <1>2, <1>3 DEF PolicyIInv, PolicyTypes, Saving
<1>5. Overlap'
  <2>1. \A w \in DOMAIN rows : rows[w].cleared \in Nat
    BY DEF PolicyIInv, PolicyTypes, Rows
  <2> QED
    BY <1>1, <1>2, <2>1 DEF PolicyIInv, Overlap
<1>6. SaveCleared'
  <2> SUFFICES ASSUME NEW d \in PolicyCallers, Clear(d)'
               PROVE  /\ polCall'[d].cleared < polClock'
                      /\ \A w \in DOMAIN rows' : rows'[w].active =>
                           polCall'[d].cleared < rows'[w].since
    BY DEF SaveCleared
  <2>1. polCall'[d] = polCall[d] /\ Clear(d)
    BY <1>3 DEF Clear, ClearedAt
  <2>2. /\ polCall[d].cleared \in Nat /\ polCall[d].cleared < polClock
        /\ \A w \in DOMAIN rows : rows[w].active => polCall[d].cleared < rows[w].since
    BY <2>1, LaterActive
  <2> QED
    BY <1>1, <1>2, <2>1, <2>2
<1>7. LossExplained'
  <2>0. polLost' # "deleted"
    BY <1>1, <1>a DEF PolicyIInv, LossExplained
  <2> SUFFICES ASSUME \A w \in DOMAIN rows' : ~ rows'[w].active, polLost' = "active"
               PROVE  FALSE
    BY <2>0 DEF LossExplained
  <2>1. Active \subseteq {v}
    BY <1>2 DEF Active
  <2>2. Active # {v} /\ polLost = "active"
    BY <1>1, <1>a
  <2>3. Active = {}
    BY <2>1, <2>2
  <2> QED
    BY <2>2, <2>3 DEF PolicyIInv, LossExplained, Active
<1> QED
  BY <1>4, <1>5, <1>6, <1>7 DEF PolicyIInv

\* OneActiveVersion for all processes, versions and commands: SaveVersion, SetActiveVersion
\* and DeleteVersion leave two versions active only when the activations overlapped, and
\* none only after a save that did not finish or a deletion whose lookup failed or was
\* overtaken.
THEOREM OneActiveVersionAlways == PolicySpec => []OneActiveVersion
<1>1. PolicyIInv /\ [PolicyNext]_polVars => PolicyIInv'
  <2> SUFFICES ASSUME PolicyIInv, [PolicyNext]_polVars PROVE PolicyIInv'
    OBVIOUS
  <2>1. ASSUME NEW c \in PolicyCallers, NEW v \in PolicyVersionIds, NEW x \in PolicyContents,
               NEW a \in BOOLEAN, ApplyBegin(c, v, x, a)
        PROVE  PolicyIInv'
    BY <2>1, CommandsKeep
  <2>2. ASSUME NEW c \in PolicyCallers, SaveFile(c) \/ PolicyAbort(c)
        PROVE  PolicyIInv'
    BY <2>2, CommandsKeep
  <2>3. ASSUME NEW c \in PolicyCallers, SaveDeactivate(c) \/ SaveInsert(c) \/ DeleteRow(c)
        PROVE  PolicyIInv'
    BY <2>3, DeactivateKeeps, InsertKeeps, DeleteKeeps
  <2>4. ASSUME NEW v \in PolicyVersionIds, SetActiveVersion(v)
        PROVE  PolicyIInv'
    BY <2>4, ActivateKeeps
  <2>5. ASSUME NEW c \in PolicyCallers, NEW v \in PolicyVersionIds, DeleteCheck(c, v)
        PROVE  PolicyIInv'
    BY <2>5, CommandsKeep
  <2>6. CASE UNCHANGED polVars
    BY <2>6 DEF polVars, PolicyIInv, PolicyTypes, Saving, Overlap, SaveCleared, LossExplained, Clear
  <2> QED
    BY <2>1, <2>2, <2>3, <2>4, <2>5, <2>6 DEF PolicyNext
<1>2. PolicyIInv => OneActiveVersion
  BY DEF PolicyIInv, Overlap, LossExplained, OneActiveVersion, Active
<1> QED
  BY <1>1, <1>2, PolicyStart, PTL DEF PolicySpec
=============================================================================
