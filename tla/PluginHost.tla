----------------------------- MODULE PluginHost -----------------------------
(***************************************************************************)
(* Plugins on disk and in memory (pkg/tool: discovery, the Go and the WASM  *)
(* loader; cmd/unagnt/plugin.go).  A command scans the manifests and        *)
(* reports on them; a host loads what a scan found, hands tools out, and    *)
(* reloads and unloads them while others use them.  Between the scan and    *)
(* the load the directory may change.  A WASM tool owns a runtime that      *)
(* Close ends in two steps, each of which may fail.                         *)
(***************************************************************************)
EXTENDS Naturals, Sequences, SequencesExt, FiniteSets

CONSTANTS ManifestFiles,  \* number of manifest paths, numbered as the walk meets them
          Manifests,      \* what such a file may hold: see ManifestShape
          PluginKeys,     \* "name@version" keys of tools
          MaxHostOps

VARIABLES onDisk,         \* path |-> manifest, or NoManifest
          scanResult,     \* [err, found, info]: the last scan, and the plugin info found
          validation,     \* [ran, valid, invalid, warnings, err, n]: the last validate command
          goTools,        \* keys the Go loader holds
          reloading,      \* [pc, key]: a ReloadPlugin between its two critical sections
          wasmTools,      \* key |-> [held, runtime, module]: the entry and what of it is open
          halfClosed,     \* keys an UnloadWASM failed on: still held
          leaked,         \* runtimes no tool owns any more that were never closed
          watching,       \* [registered, goroutines]: hot-reload of the plugin directory
          hostOps

hostVars == <<onDisk, scanResult, validation, goTools, reloading, wasmTools, halfClosed, leaked,
              watching, hostOps>>

NoManifest == [name |-> "none", version |-> "none", type |-> "none", binary |-> FALSE,
               present |-> FALSE, described |-> FALSE, garbled |-> FALSE, key |-> "none"]
NoTool == [held |-> FALSE, runtime |-> FALSE, module |-> FALSE]
NoValidation == [ran |-> FALSE, valid |-> 0, invalid |-> 0, warnings |-> 0, err |-> FALSE, n |-> 0]

ASSUME ManifestShape == \A m \in Manifests : DOMAIN m = DOMAIN NoManifest

HostInit ==
  /\ onDisk = [f \in 1 .. ManifestFiles |-> NoManifest]
  /\ scanResult = [err |-> FALSE, found |-> <<>>, info |-> "none"]
  /\ validation = NoValidation
  /\ goTools = {} /\ reloading = [pc |-> "idle", key |-> "none"]
  /\ wasmTools = [k \in PluginKeys |-> NoTool] /\ halfClosed = {} /\ leaked = 0
  /\ watching = [registered |-> 0, goroutines |-> {}]
  /\ hostOps = 0

Op == hostOps < MaxHostOps /\ hostOps' = hostOps + 1

\* Somebody edits the plugin directory.
EditManifest(f, m) ==
  /\ Op /\ onDisk' = [onDisk EXCEPT ![f] = m]
  /\ UNCHANGED <<scanResult, validation, goTools, reloading, wasmTools, halfClosed, leaked, watching>>

\* The manifests in walk order; one that cannot be parsed makes the whole scan fail.
\* An absent binary field becomes the manifest's own directory, which exists.
ScanOf(disk) ==
  LET there == SelectSeq(disk, LAMBDA m : m # NoManifest)
  IN IF \E i \in 1 .. Len(there) : there[i].garbled THEN [err |-> TRUE, found |-> <<>>, info |-> "none"]
     ELSE [err |-> FALSE, found |-> there, info |-> "none"]

\* The list and scan commands: one scan, printed.
ScanPlugins ==
  /\ Op /\ scanResult' = [ScanOf(onDisk) EXCEPT !.info = "none"]
  /\ UNCHANGED <<onDisk, validation, goTools, reloading, wasmTools, halfClosed, leaked, watching>>

\* The info command scans and prints the first manifest of that name.
ShowPluginInfo(name) ==
  LET r == ScanOf(onDisk)
      found == \E i \in 1 .. Len(r.found) : r.found[i].name = name
  IN /\ Op /\ scanResult' = [r EXCEPT !.info = IF found THEN name ELSE "none"]
     /\ UNCHANGED <<onDisk, validation, goTools, reloading, wasmTools, halfClosed, leaked, watching>>

\* Mutant: an invalid type is counted and the manifest is then counted as valid too.
JudgedOnward(m) ==
  LET bad == m.name = "" \/ m.version = ""
  IN [valid |-> IF bad THEN 0 ELSE 1,
      invalid |-> IF bad \/ m.type \notin {"goplugin", "wasm"} THEN 1 ELSE 0,
      warnings |-> IF bad THEN 0 ELSE (IF m.binary /\ ~m.present THEN 1 ELSE 0)
                                      + (IF m.described THEN 0 ELSE 1)]

\* One manifest under the validate command: the first missing field makes it invalid;
\* the check for a missing binary cannot fail, its path was resolved by the scan.
Judged(m) ==
  LET bad == m.name = "" \/ m.version = "" \/ m.type \notin {"goplugin", "wasm"}
  IN [valid |-> IF bad THEN 0 ELSE 1,
      invalid |-> IF bad THEN 1 ELSE 0,
      warnings |-> IF bad THEN 0 ELSE (IF m.binary /\ ~m.present THEN 1 ELSE 0)
                                      + (IF m.described THEN 0 ELSE 1)]

\* Over all the manifests of a scan.
Judgement(s) ==
  [valid |-> Cardinality({i \in 1 .. Len(s) : Judged(s[i]).valid = 1}),
   invalid |-> Cardinality({i \in 1 .. Len(s) : Judged(s[i]).invalid = 1}),
   warnings |-> FoldSeq(LAMBDA m, n : n + Judged(m).warnings, 0, s)]

ValidatePlugins ==
  LET r == ScanOf(onDisk)
      j == Judgement(r.found)
  IN /\ Op /\ validation' = [ran |-> TRUE, n |-> Len(r.found), valid |-> j.valid,
                             invalid |-> j.invalid, warnings |-> j.warnings,
                             err |-> r.err \/ j.invalid > 0]
     /\ UNCHANGED <<onDisk, scanResult, goTools, reloading, wasmTools, halfClosed, leaked, watching>>

\* LoadFromManifest looks at the type in lower case; the validate command does not.
ToLower(type) == IF type = "WASM" THEN "wasm" ELSE type

\* The Go loader takes the key from the plugin itself.
LoadGo(m, ok) ==
  /\ ToLower(m.type) = "goplugin" /\ goTools' = IF ok THEN goTools \cup {m.key} ELSE goTools
  /\ UNCHANGED <<wasmTools, halfClosed, leaked>>

\* NewWASMTool makes a runtime before it reads the file; when a later step fails, or an
\* entry under the same key is replaced, that runtime is not closed.
LoadWASM(m, ok) ==
  /\ ToLower(m.type) = "wasm"
  /\ wasmTools' = IF ok THEN [wasmTools EXCEPT ![m.key] = [held |-> TRUE, runtime |-> TRUE, module |-> TRUE]]
                  ELSE wasmTools
  /\ halfClosed' = IF ok THEN halfClosed \ {m.key} ELSE halfClosed
  /\ leaked' = IF ~ok \/ wasmTools[m.key].runtime THEN leaked + 1 ELSE leaked
  /\ UNCHANGED goTools

\* LoadFromManifest of a scanned manifest, as it was when scanned; a binary that is
\* gone, or of the wrong kind, makes the load fail.
LoadFromManifest(i, ok) ==
  /\ Op /\ i <= Len(scanResult.found)
  /\ LET m == scanResult.found[i]
     IN /\ ok => m.present /\ m.binary
        /\ IF ToLower(m.type) \in {"goplugin", "wasm"} THEN LoadGo(m, ok) \/ LoadWASM(m, ok)
           ELSE UNCHANGED <<goTools, wasmTools, halfClosed, leaked>>
  /\ UNCHANGED <<onDisk, scanResult, validation, reloading, watching>>

UnloadPlugin(k) ==
  /\ Op /\ k \in goTools /\ goTools' = goTools \ {k}
  /\ UNCHANGED <<onDisk, scanResult, validation, reloading, wasmTools, halfClosed, leaked, watching>>

\* ReloadPlugin drops the entry in one critical section ...
ReloadDrop(k) ==
  /\ Op /\ reloading.pc = "idle" /\ reloading' = [pc |-> "load", key |-> k]
  /\ goTools' = goTools \ {k}
  /\ UNCHANGED <<onDisk, scanResult, validation, wasmTools, halfClosed, leaked, watching>>

\* ... and loads the file in another; a failure leaves nothing loaded.
ReloadLoad(k, ok) ==
  /\ reloading.pc = "load" /\ reloading' = [pc |-> "idle", key |-> "none"]
  /\ goTools' = IF ok THEN goTools \cup {k} ELSE goTools
  /\ UNCHANGED <<onDisk, scanResult, validation, wasmTools, halfClosed, leaked, watching, hostOps>>

\* Mutant: the entry stays in the map when it has been closed.
RemainsUnloaded(moduleOK, runtimeOK) == TRUE

\* The entry is deleted only when Close succeeded.
Remains(moduleOK, runtimeOK) == ~moduleOK \/ ~runtimeOK

\* UnloadWASM: Close ends the module, then the runtime, and stops at the first failure.
UnloadWASM(k, moduleOK, runtimeOK) ==
  /\ Op /\ wasmTools[k].held
  /\ LET closed == [held |-> Remains(moduleOK, runtimeOK),
                    runtime |-> wasmTools[k].runtime /\ ~(moduleOK /\ runtimeOK),
                    module |-> wasmTools[k].module /\ ~moduleOK]
     IN wasmTools' = [wasmTools EXCEPT ![k] = closed]
  /\ halfClosed' = IF ~moduleOK \/ ~runtimeOK THEN halfClosed \cup {k} ELSE halfClosed \ {k}
  /\ UNCHANGED <<onDisk, scanResult, validation, goTools, reloading, leaked, watching>>

MayWatch == watching.registered = 0

\* WatchForChanges registers a stop channel and starts a goroutine that polls.
WatchForChanges ==
  /\ Op /\ MayWatch
  /\ watching' = [registered |-> hostOps + 1, goroutines |-> watching.goroutines \cup {hostOps + 1}]
  /\ UNCHANGED <<onDisk, scanResult, validation, goTools, reloading, wasmTools, halfClosed, leaked>>

\* StopWatching closes the channel; the goroutine sees it at its next select.
StopWatching ==
  /\ Op /\ watching.registered # 0
  /\ watching' = [registered |-> 0, goroutines |-> watching.goroutines \ {watching.registered}]
  /\ UNCHANGED <<onDisk, scanResult, validation, goTools, reloading, wasmTools, halfClosed, leaked>>

HostNext ==
  \/ \E f \in 1 .. ManifestFiles, m \in Manifests \cup {NoManifest} : EditManifest(f, m)
  \/ ScanPlugins
  \/ \E m \in Manifests : ShowPluginInfo(m.name)
  \/ ValidatePlugins
  \/ \E i \in 1 .. ManifestFiles, ok \in BOOLEAN : LoadFromManifest(i, ok)
  \/ \E k \in PluginKeys : UnloadPlugin(k) \/ ReloadDrop(k)
  \/ \E k \in PluginKeys, ok \in BOOLEAN : ReloadLoad(k, ok)
  \/ \E k \in PluginKeys, moduleOK, runtimeOK \in BOOLEAN : UnloadWASM(k, moduleOK, runtimeOK)
  \/ WatchForChanges
  \/ StopWatching

-----------------------------------------------------------------------------
\* The validate command counts every manifest once, as valid or as invalid, and fails
\* exactly when one is invalid or the scan failed.
ValidationAccounts ==
  validation.ran => /\ validation.valid + validation.invalid = validation.n
                    /\ validation.n > 0 => validation.err = (validation.invalid > 0)

\* A tool that GetWASMTool can return has its module and its runtime, whatever loads,
\* reloads and unloads happened before, unless an unload of it failed half way; and a
\* directory is polled by the one goroutine StopWatching can end.
HostServesOpen ==
  /\ \A k \in PluginKeys : wasmTools[k].held /\ k \notin halfClosed
       => wasmTools[k] = [held |-> TRUE, runtime |-> TRUE, module |-> TRUE]
  /\ watching.goroutines = IF watching.registered = 0 THEN {} ELSE {watching.registered}
=============================================================================
