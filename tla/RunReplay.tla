------------------------------ MODULE RunReplay ------------------------------
(***************************************************************************)
(* The command "unagnt run" with what it stores, and everything that plays *)
(* a stored run again: "unagnt replay run" in its five modes, the          *)
(* time-travel cursor of "unagnt replay debug", and the planner and        *)
(* executor that feed a history back to the engine.                        *)
(*                                                                         *)
(* A tool answers with an output, with no output, or with an error in its  *)
(* result.  A step without a tool ends the engine's loop.                  *)
(***************************************************************************)
EXTENDS Integers, Sequences

CONSTANTS Tools,        \* tools a planner may call
          Outputs,      \* what a tool may put in its output
          MaxSteps      \* EngineConfig.MaxSteps

VARIABLES cliPc,      \* where "unagnt run" is
          history,    \* AgentState.History: a step is [tool, res]
          snapshot,   \* the row of run_snapshots, <<>> and snapped = FALSE if none
          snapped,
          rep,        \* the replay command: mode, options, position and result
          cursor,     \* ReplayCursor.position
          feed        \* ReplayPlanner and ReplayExecutor driven by an engine

replayVars == <<cliPc, history, snapshot, snapped, rep, cursor, feed>>

NoTool == "no tool"
Answers == Outputs \cup {"empty", "error"}
StepRecords == [tool : Tools, res : Answers]
                 \cup [tool : {NoTool}, res : {"completed", "failed"}]
Modes == {"exact", "live", "mixed", "debug", "validation"}
NoReplay == [pc |-> "idle", mode |-> "exact", start |-> 0, stop |-> 0,
             trace |-> <<>>, answers |-> <<>>, div |-> {}, success |-> FALSE]
NoFeed == [pc |-> "idle", steps |-> <<>>, planned |-> 0, answered |-> 0, calls |-> <<>>]

ReplayInit ==
  /\ cliPc = "idle" /\ history = <<>> /\ snapshot = <<>> /\ snapped = FALSE
  /\ rep = NoReplay /\ cursor = 0 /\ feed = NoFeed

-----------------------------------------------------------------------------
(* unagnt run                                                              *)

\* Every early return of runRun before the engine starts: configuration,
\* provider key, MCP source, policy, log file, budget.
RunRefused ==
  /\ cliPc = "idle" /\ cliPc' = "refused"
  /\ UNCHANGED <<history, snapshot, snapped, rep, cursor, feed>>

RunBegin ==
  /\ cliPc = "idle" /\ cliPc' = "engine"
  /\ UNCHANGED <<history, snapshot, snapped, rep, cursor, feed>>

\* A step of Engine.Run that returned no error.
RunStep(s) ==
  /\ cliPc = "engine" /\ Len(history) < MaxSteps
  /\ history' = Append(history, s)
  /\ cliPc' = IF s.tool = NoTool \/ Len(history') = MaxSteps THEN "save" ELSE "engine"
  /\ UNCHANGED <<snapshot, snapped, rep, cursor, feed>>

\* An error of the engine ends the command before anything is stored.
RunError ==
  /\ cliPc = "engine" /\ cliPc' = "failed"
  /\ UNCHANGED <<history, snapshot, snapped, rep, cursor, feed>>

\* What json.RawMessage holds once a row was written and read back.
Recorded(r) == IF r \in Outputs THEN r ELSE "null"

\* buildSnapshotFromState: the steps with an action, numbered from 1.
BuildSnapshot(h) ==
  LET acts == SelectSeq(h, LAMBDA s : s.tool # NoTool) IN
  [i \in 1..Len(acts) |-> [seq |-> i, tool |-> acts[i].tool, out |-> Recorded(acts[i].res)]]

\* The writes at the end of runRun; each may fail and is then ignored.
RunSave(ok) ==
  /\ cliPc = "save" /\ cliPc' = "done"
  /\ snapped' = ok
  /\ snapshot' = IF ok THEN BuildSnapshot(history) ELSE snapshot
  /\ UNCHANGED <<history, rep, cursor, feed>>

-----------------------------------------------------------------------------
(* unagnt replay run                                                       *)

ReplayLoad(mode, start, stop) ==
  /\ snapped /\ rep.pc = "idle" /\ feed.pc = "idle"
  /\ rep' = [NoReplay EXCEPT !.pc = "playing", !.mode = mode, !.start = start, !.stop = stop]
  /\ UNCHANGED <<cliPc, history, snapshot, snapped, cursor, feed>>

\* The index of the next recorded call a mode visits, 0 when its loop is over:
\* replayExact counts indices, the others compare sequence numbers.
NextCall ==
  LET n == Len(snapshot)
      first == IF rep.start = 0 THEN 1 ELSE rep.start
      last == IF rep.stop = 0 THEN n ELSE rep.stop
      done == Len(rep.trace)
      i == first + done
      after == {k \in 1..n : /\ rep.start > 0 => snapshot[k].seq >= rep.start
                             /\ done > 0 => k > rep.trace[done].index}
      k == CHOOSE k \in after : \A j \in after : k <= j
  IN  CASE rep.mode = "exact" -> IF i <= last /\ i <= n THEN i ELSE 0
        [] rep.mode = "validation" -> 0
        [] OTHER -> IF after = {} THEN 0
                    ELSE IF rep.stop > 0 /\ snapshot[k].seq > rep.stop THEN 0 ELSE k

\* The adapter turns an error in the result into an error and no output into {}.
LiveBytes(a) == IF a = "empty" THEN "{}" ELSE a

\* Mutant: an error of the live tool is taken for its recorded output.
VerdictLenient(k, a) == IF a = "error" \/ snapshot[k].out = LiveBytes(a) THEN "match" ELSE "diverged"

\* executeLive and compareOutputs with VerifyOutputs, which the command sets.
Verdict(k, a) == IF a # "error" /\ snapshot[k].out = LiveBytes(a) THEN "match" ELSE "diverged"

Play(k, result, a) ==
  rep' = [rep EXCEPT !.trace = Append(@, [index |-> k, seq |-> snapshot[k].seq,
                                          tool |-> snapshot[k].tool, result |-> result]),
                     !.answers = Append(@, a),
                     !.div = IF result = "diverged" THEN @ \cup {snapshot[k].seq} ELSE @]

Playing(mode) == rep.pc = "playing" /\ rep.mode = mode /\ NextCall # 0

\* replayExact and replayDebug run no tool; replayLive and replayMixed do.
PlayExact ==
  /\ Playing("exact") /\ Play(NextCall, "ok", "none")
  /\ UNCHANGED <<cliPc, history, snapshot, snapped, cursor, feed>>

PlayDebug ==
  /\ Playing("debug") /\ Play(NextCall, "ok", "none")
  /\ UNCHANGED <<cliPc, history, snapshot, snapped, cursor, feed>>

PlayLive(a) ==
  /\ Playing("live") /\ Play(NextCall, Verdict(NextCall, a), a)
  /\ UNCHANGED <<cliPc, history, snapshot, snapped, cursor, feed>>

PlayMixed(a) ==
  /\ Playing("mixed") /\ Play(NextCall, Verdict(NextCall, a), a)
  /\ UNCHANGED <<cliPc, history, snapshot, snapped, cursor, feed>>

\* replayValidation: calls whose number is not their place.  verifyChecksums
\* finds nothing, and the times of a history never go back.
Misnumbered == {snapshot[i].seq : i \in {j \in DOMAIN snapshot : snapshot[j].seq # j}}

\* The end of the mode's loop and its verdict: mixed succeeds whatever diverged.
ReplayEnd ==
  /\ rep.pc = "playing" /\ NextCall = 0
  /\ LET div == IF rep.mode = "validation" THEN Misnumbered ELSE rep.div
         good == rep.mode \in {"exact", "mixed", "debug"} \/ div = {}
     IN  rep' = [rep EXCEPT !.pc = "shown", !.div = div, !.success = good]
  /\ UNCHANGED <<cliPc, history, snapshot, snapped, cursor, feed>>

ReplayExit ==
  /\ rep.pc = "shown" /\ rep' = NoReplay
  /\ UNCHANGED <<cliPc, history, snapshot, snapped, cursor, feed>>

-----------------------------------------------------------------------------
(* unagnt replay debug                                                     *)

StepForward ==
  /\ snapped /\ rep.pc = "idle" /\ feed.pc = "idle" /\ cursor < Len(snapshot) /\ cursor' = cursor + 1
  /\ UNCHANGED <<cliPc, history, snapshot, snapped, rep, feed>>

StepBack ==
  /\ snapped /\ rep.pc = "idle" /\ feed.pc = "idle" /\ cursor > 0 /\ cursor' = cursor - 1
  /\ UNCHANGED <<cliPc, history, snapshot, snapped, rep, feed>>

SeekToSequence(seq) ==
  /\ snapped /\ rep.pc = "idle" /\ feed.pc = "idle"
  /\ cursor' = IF seq < 0 THEN 0 ELSE IF seq > Len(snapshot) THEN Len(snapshot) ELSE seq
  /\ UNCHANGED <<cliPc, history, snapshot, snapped, rep, feed>>

\* GetStateAt at the cursor: the calls up to it; the current one is the last.
StateAt == SubSeq(snapshot, 1, cursor)

-----------------------------------------------------------------------------
(* An engine driven by ReplayPlanner and ReplayExecutor                    *)

\* SaveHistory writes "" for a missing action and result, not NULL, so GetHistory
\* reads every step back as a tool call with a result.
GetHistory(h) ==
  [i \in DOMAIN h |-> IF h[i].tool = NoTool THEN [tool |-> "", res |-> "empty"] ELSE h[i]]

FeedBegin(src) ==
  /\ cliPc = "done" /\ feed.pc = "idle" /\ rep.pc = "idle"
  /\ feed' = [NoFeed EXCEPT !.pc = "engine",
                            !.steps = IF src = "store" THEN GetHistory(history) ELSE history]
  /\ UNCHANGED <<cliPc, history, snapshot, snapped, rep, cursor>>

\* ReplayExecutor.Execute: the next step that has a result.
NextAnswer ==
  LET with == {i \in feed.answered + 1 .. Len(feed.steps) : feed.steps[i].tool # NoTool}
  IN  CHOOSE i \in with : \A j \in with : i <= j

\* The planner has nothing left to call.
Exhausted ==
  feed.planned < Len(feed.steps) => feed.steps[feed.planned + 1].tool = NoTool

\* Mutant: the executor's index is not advanced past the step it answered from.
FeedStepStuck ==
  /\ feed.pc = "engine" /\ Len(feed.calls) < MaxSteps /\ ~Exhausted
  /\ feed' = [feed EXCEPT !.planned = @ + 1,
                          !.calls = Append(@, [tool |-> feed.steps[feed.planned + 1].tool,
                                               res |-> feed.steps[NextAnswer].res])]
  /\ UNCHANGED <<cliPc, history, snapshot, snapped, rep, cursor>>

\* One turn of the engine's loop: ReplayPlanner.Plan, then ReplayExecutor.Execute.
FeedStep ==
  /\ feed.pc = "engine" /\ Len(feed.calls) < MaxSteps /\ ~Exhausted
  /\ feed' = [feed EXCEPT !.planned = @ + 1, !.answered = NextAnswer,
                          !.calls = Append(@, [tool |-> feed.steps[feed.planned + 1].tool,
                                               res |-> feed.steps[NextAnswer].res])]
  /\ UNCHANGED <<cliPc, history, snapshot, snapped, rep, cursor>>

FeedEnd ==
  /\ feed.pc = "engine" /\ (Len(feed.calls) < MaxSteps => Exhausted)
  /\ feed' = [feed EXCEPT !.pc = "done"]
  /\ UNCHANGED <<cliPc, history, snapshot, snapped, rep, cursor>>

ReplayNext ==
  \/ RunRefused \/ RunBegin \/ RunError
  \/ \E s \in StepRecords : RunStep(s)
  \/ \E ok \in BOOLEAN : RunSave(ok)
  \/ \E m \in Modes, a, b \in 0..MaxSteps + 1 : ReplayLoad(m, a, b)
  \/ PlayExact \/ PlayDebug \/ ReplayEnd \/ ReplayExit
  \/ \E a \in Answers : PlayLive(a) \/ PlayMixed(a)
  \/ StepForward \/ StepBack
  \/ \E seq \in -1..MaxSteps + 1 : SeekToSequence(seq)
  \/ \E src \in {"memory", "store"} : FeedBegin(src)
  \/ FeedStep \/ FeedEnd

-----------------------------------------------------------------------------
ToolSteps == SelectSeq(history, LAMBDA s : s.tool # NoTool)

\* Whatever mode plays a run back, the printed trace is the run's own tool calls
\* from --start to --stop, in order and none left out.  Tools that answer as they
\* did in the run diverge at exactly the steps that had no output or an error in
\* the result (the recording and the live adapter encode those differently);
\* live succeeds iff nothing diverged, mixed and exact always do, and validation
\* finds nothing wrong with a snapshot of a run.
ReplayFaithful ==
  rep.pc = "shown" =>
    LET n == Len(ToolSteps)
        from == IF rep.start = 0 THEN 1 ELSE rep.start
        to == IF rep.stop = 0 \/ rep.stop > n THEN n ELSE rep.stop
        len == IF rep.mode = "validation" \/ to < from THEN 0 ELSE to - from + 1
        same == \A i \in 1..len : rep.answers[i] = ToolSteps[from + i - 1].res
    IN  /\ Len(rep.trace) = len
        /\ \A i \in 1..len : /\ rep.trace[i].seq = from + i - 1
                             /\ rep.trace[i].tool = ToolSteps[from + i - 1].tool
        /\ rep.mode = "validation" => rep.success
        /\ rep.mode = "live" => (rep.success <=> rep.div = {})
        /\ rep.mode \in {"live", "mixed"} /\ same =>
             rep.div = {i \in from..to : ToolSteps[i].res \notin Outputs}

\* A history fed back to an engine gives the run's calls with the run's results:
\* planner and executor keep separate indices and never drift apart.  A history
\* that went through the store ends with one call the run never made, of the
\* tool "", when the run ended with a step of its own.
FeedAligned ==
  LET ended == Len(ToolSteps) < Len(history)
      calls == IF ended /\ feed.steps = GetHistory(history)
               THEN Append(ToolSteps, [tool |-> "", res |-> "empty"]) ELSE ToolSteps
  IN  /\ feed.calls = SubSeq(calls, 1, Len(feed.calls))
      /\ feed.pc = "done" => feed.calls = calls

-----------------------------------------------------------------------------
(***************************************************************************)
(* The execution recorder (pkg/replay/recorder.go): a run's model calls,    *)
(* tool calls and side effects are collected in a snapshot, which is        *)
(* numbered, checksummed, compressed and handed out when the recording      *)
(* stops.  The recorder keeps its pointer to a snapshot it has handed out.  *)
(***************************************************************************)

CONSTANTS RecordingConfigs,    \* records [enabled, models, tools, effects, env, compress, pii]
          Effects,             \* side effects a tool reports
          MaxRecordings, MaxRecorded

VARIABLES recConfig, recChosen,
          recSnaps,            \* the snapshots, by their place the pointer to them
          recOn, recSeq,       \* recording, and [model, tool]
          recHanded,           \* snapshot |-> what StopRecording returned, as it was then
          recMade              \* history: [model, tool] calls reported since the start

recorderVars == <<recConfig, recChosen, recSnaps, recOn, recSeq, recHanded, recMade>>

ZeroCalls == [model |-> 0, tool |-> 0]
NewSnapshot ==
  [models |-> <<>>, tools |-> <<>>, sums |-> {}, size |-> "none", pii |-> FALSE,
   env |-> recConfig.env]

RecorderInit ==
  /\ recChosen = FALSE /\ recConfig = [enabled |-> FALSE, models |-> FALSE, tools |-> FALSE,
                                       effects |-> FALSE, env |-> FALSE, compress |-> FALSE,
                                       pii |-> FALSE]
  /\ recSnaps = <<>> /\ recOn = FALSE /\ recSeq = ZeroCalls /\ recHanded = <<>>
  /\ recMade = ZeroCalls

NewRecorder(config) ==
  /\ ~ recChosen /\ recChosen' = TRUE /\ recConfig' = config
  /\ UNCHANGED <<recSnaps, recOn, recSeq, recHanded, recMade>>

\* A recording under way is dropped for the new one.
StartRecording ==
  /\ recChosen /\ recConfig.enabled /\ Len(recSnaps) < MaxRecordings
  /\ recSnaps' = Append(recSnaps, NewSnapshot) /\ recOn' = TRUE
  /\ recSeq' = ZeroCalls /\ recMade' = ZeroCalls
  /\ UNCHANGED <<recConfig, recChosen, recHanded>>

Current == Len(recSnaps)

RecordModelCall ==
  /\ recOn /\ recMade.model < MaxRecorded /\ recMade' = [recMade EXCEPT !.model = @ + 1]
  /\ IF recConfig.models
     THEN /\ recSeq' = [recSeq EXCEPT !.model = @ + 1]
          /\ recSnaps' = [recSnaps EXCEPT ![Current].models = Append(@, recSeq.model + 1)]
     ELSE UNCHANGED <<recSeq, recSnaps>>
  /\ UNCHANGED <<recConfig, recChosen, recOn, recHanded>>

RecordToolCall ==
  /\ recOn /\ recMade.tool < MaxRecorded /\ recMade' = [recMade EXCEPT !.tool = @ + 1]
  /\ IF recConfig.tools
     THEN /\ recSeq' = [recSeq EXCEPT !.tool = @ + 1]
          /\ recSnaps' = [recSnaps EXCEPT ![Current].tools =
                            Append(@, [seq |-> recSeq.tool + 1, effects |-> {}])]
     ELSE UNCHANGED <<recSeq, recSnaps>>
  /\ UNCHANGED <<recConfig, recChosen, recOn, recHanded>>

\* Mutant: a call that comes when the recording is over still finds the snapshot.
MayRecordLate == recSnaps # <<>>
MayRecord == recOn

\* The effect of call n, which may be reported after other calls were recorded.  A
\* number no call has, zero or one too large, is ignored.
RecordSideEffect(n, effect) ==
  /\ MayRecord /\ recConfig.effects /\ n \in DOMAIN recSnaps[Current].tools
  /\ recSnaps' = [recSnaps EXCEPT ![Current].tools[n].effects = @ \cup {<<n, effect>>}]
  /\ UNCHANGED <<recConfig, recChosen, recOn, recSeq, recHanded, recMade>>

\* A live view, only while the recording runs.
GetSnapshot == IF recOn THEN {Current} ELSE {}

\* calculateChecksums: a sum for each list that is not empty.
calculateChecksums(s) ==
  {l \in {<<"model_calls", s.models>>, <<"tool_calls", s.tools>>} : l[2] # <<>>}
encryptPII(s) == [s EXCEPT !.pii = TRUE]
compressSnapshot(s) == [s EXCEPT !.size = "compressed"]

StopRecording ==
  /\ recOn /\ recOn' = FALSE
  /\ LET s == recSnaps[Current]
         summed == [s EXCEPT !.sums = calculateChecksums(s), !.size = "full"]
         packed == IF recConfig.compress THEN compressSnapshot(summed) ELSE summed
         done == IF recConfig.pii THEN encryptPII(packed) ELSE packed
     IN  /\ recSnaps' = [recSnaps EXCEPT ![Current] = done]
         /\ recHanded' = [k \in DOMAIN recHanded \cup {Current} |->
                            IF k = Current THEN [snap |-> done, made |-> recMade] ELSE recHanded[k]]
  /\ UNCHANGED <<recConfig, recChosen, recSeq, recMade>>

RecorderNext ==
  \/ \E c \in RecordingConfigs : NewRecorder(c)
  \/ StartRecording \/ RecordModelCall \/ RecordToolCall \/ StopRecording
  \/ \E n \in 0..MaxRecorded + 1, e \in Effects : RecordSideEffect(n, e)

-----------------------------------------------------------------------------
\* StopRecording (recorder.go): a snapshot that was handed out stays as it was, through
\* late reports and later recordings; its calls are all that were made while it was
\* recorded, numbered without a gap, every side effect is with the call it was reported
\* for, and its checksums are those of its final lists.  A live view is never of such a snapshot.
RecordingIntact ==
  /\ GetSnapshot \cap DOMAIN recHanded = {}
  /\ \A k \in DOMAIN recHanded :
       LET s == recHanded[k].snap
       IN  /\ recSnaps[k] = s /\ s.sums = calculateChecksums(s)
           /\ recConfig.models => Len(s.models) = recHanded[k].made.model
           /\ recConfig.tools => Len(s.tools) = recHanded[k].made.tool
           /\ \A i \in DOMAIN s.models : s.models[i] = i
           /\ \A i \in DOMAIN s.tools : s.tools[i].seq = i /\ \A e \in s.tools[i].effects : e[1] = i
=============================================================================
