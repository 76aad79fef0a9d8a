---------------------------- MODULE PluginWatcher ----------------------------
(***************************************************************************)
(* The plugin watcher (pkg/registry/watcher.go): the directory is watched   *)
(* first, then every file under it is loaded, then the events that have     *)
(* queued up meanwhile are handled one at a time.  Files are created,       *)
(* written, removed and renamed by others at any moment, also between two   *)
(* steps of the watcher.  A handler reads the file (or its status) when it  *)
(* runs, not as it was when the event was sent.  No event comes from a      *)
(* subdirectory, which the walk loads all the same, or from a directory     *)
(* that could not be watched; and an event may be lost, which the watcher   *)
(* hears of only as an error it logs.                                       *)
(***************************************************************************)
EXTENDS Naturals, Sequences, FiniteSets

CONSTANTS PluginFiles,    \* the .yaml and .yml files under the directory, by name
          Nested,         \* those of them in its subdirectory
          WalkOrder,      \* the same files in lexical order, as filepath.Walk visits them
          MaxChanges

VARIABLES fileTime,       \* file |-> its modification time, 0 when it does not exist
          watched,        \* the directory could be added to the watcher
          fsEvents,       \* events sent and not handled yet
          loadedPlugins,  \* file |-> the modification time it was loaded with, 0: not loaded
          watcherPC,      \* "new", "walk", "load", "sub", "watch" or "reload"
          walkAt,         \* position of the initial walk in WalkOrder
          inHand,         \* the file a reload is working on
          listing,        \* the files the initial walk found in the directories it read
          untold,         \* history: files of whose last change the watcher is not told
          changes

watchVars == <<fileTime, watched, fsEvents, loadedPlugins, watcherPC, walkAt, inHand, listing,
               untold, changes>>

ASSUME WalkVisitsAll == {WalkOrder[i] : i \in 1 .. Len(WalkOrder)} = PluginFiles

WatchInit ==
  /\ fileTime = [f \in PluginFiles |-> 0] /\ watched = FALSE /\ fsEvents = <<>>
  /\ loadedPlugins = [f \in PluginFiles |-> 0] /\ watcherPC = "new" /\ walkAt = 1
  /\ inHand = "none" /\ listing = {} /\ untold = {} /\ changes = 0

\* The directory as it is when it starts being watched; when Add fails, that is logged
\* and the directory is loaded all the same.
NewPluginWatcher(present, added) ==
  /\ watcherPC = "new" /\ watcherPC' = "walk" /\ watched' = added
  /\ fileTime' = [f \in PluginFiles |-> IF f \in present THEN 1 ELSE 0]
  /\ UNCHANGED <<listing, fsEvents, loadedPlugins, walkAt, inHand, untold, changes>>

\* Somebody changes a file; every change gets a later time than any before it.  It
\* may be sent only from the watched directory itself; a rename is sent and ignored.
Change(f, op, sent) ==
  /\ watcherPC # "new" /\ changes < MaxChanges /\ changes' = changes + 1
  /\ (op = "create") = (fileTime[f] = 0)
  /\ sent => watched /\ f \notin Nested
  /\ fileTime' = [fileTime EXCEPT ![f] = IF op \in {"create", "write"} THEN changes + 2 ELSE 0]
  /\ fsEvents' = IF sent THEN Append(fsEvents, [op |-> op, file |-> f]) ELSE fsEvents
  /\ untold' = IF sent /\ op # "rename" THEN untold \ {f} ELSE untold \cup {f}
  /\ UNCHANGED <<listing, watched, loadedPlugins, watcherPC, walkAt, inHand>>

\* loadPlugin: the file must still be there to be read.
Loaded(f) == IF fileTime[f] = 0 THEN loadedPlugins ELSE [loadedPlugins EXCEPT ![f] = fileTime[f]]

\* Files of which no event waits to be handled.
Quiet == {f \in PluginFiles : \A i \in 1 .. Len(fsEvents) : fsEvents[i].file # f}

\* The walk reads the names in the directory, and those in the subdirectory when it
\* gets there; a file created later is seen through its event, if there is one.
ListDirectory ==
  /\ watcherPC = "walk" /\ watcherPC' = "load"
  /\ listing' = {f \in PluginFiles \ Nested : fileTime[f] # 0}
  /\ untold' = untold \ {f \in Quiet \ Nested : fileTime[f] = 0}
  /\ UNCHANGED <<fileTime, watched, fsEvents, loadedPlugins, walkAt, inHand, changes>>

ListSubdirectory ==
  /\ watcherPC = "load" /\ walkAt <= Len(WalkOrder) /\ WalkOrder[walkAt] \in Nested
  /\ watcherPC' = "sub"
  /\ listing' = listing \cup {f \in Nested : fileTime[f] # 0}
  /\ untold' = untold \ {f \in Nested : fileTime[f] = 0}
  /\ UNCHANGED <<fileTime, watched, fsEvents, loadedPlugins, walkAt, inHand, changes>>

\* The next file of the walk; for one that has vanished since the walk ends with an error,
\* and the watcher never learns of the files it had still to visit.
LoadAllPlugins ==
  /\ watcherPC \in {"load", "sub"} /\ walkAt <= Len(WalkOrder)
  /\ LET f == WalkOrder[walkAt]
         fails == f \in listing /\ fileTime[f] = 0
     IN /\ f \in Nested => watcherPC = "sub"
        /\ loadedPlugins' = IF f \in listing THEN Loaded(f) ELSE loadedPlugins
        /\ walkAt' = IF fails THEN Len(WalkOrder) + 1 ELSE walkAt + 1
        /\ untold' = IF fails THEN untold \cup ({WalkOrder[i] : i \in walkAt + 1 .. Len(WalkOrder)}
                                                  \cap Quiet)
                     ELSE IF f \in listing \cap Quiet THEN untold \ {f} ELSE untold
  /\ UNCHANGED <<fileTime, watched, fsEvents, watcherPC, inHand, listing, changes>>

\* Start returns and the watch goroutine begins.
StartWatch ==
  /\ watcherPC \in {"load", "sub"} /\ walkAt > Len(WalkOrder) /\ watcherPC' = "watch"
  /\ UNCHANGED <<listing, fileTime, watched, fsEvents, loadedPlugins, walkAt, inHand, untold, changes>>

\* Mutant: a change within the next tick of the clock is taken for no change.
ReloadStartsCoarse(f) == loadedPlugins[f] = 0 \/ fileTime[f] > loadedPlugins[f] + 1

\* reloadPlugin of a loaded file: it goes on only when the file is newer.
ReloadStarts(f) == loadedPlugins[f] = 0 \/ fileTime[f] > loadedPlugins[f]

\* A write: loaded at once when it is new, else unloaded now and loaded after a pause.
HandleWrite ==
  /\ watcherPC = "watch" /\ fsEvents # <<>> /\ Head(fsEvents).op = "write"
  /\ fsEvents' = Tail(fsEvents)
  /\ LET f == Head(fsEvents).file
     IN /\ loadedPlugins' = IF ~ReloadStarts(f) THEN loadedPlugins
                            ELSE IF loadedPlugins[f] = 0 THEN Loaded(f)
                            ELSE [loadedPlugins EXCEPT ![f] = 0]
        /\ IF ReloadStarts(f) /\ loadedPlugins[f] # 0
           THEN watcherPC' = "reload" /\ inHand' = f
           ELSE UNCHANGED <<watcherPC, inHand>>
  /\ UNCHANGED <<listing, fileTime, watched, walkAt, untold, changes>>

\* The second half of a reload; a file that cannot be read stays unloaded.
ReloadPlugin ==
  /\ watcherPC = "reload" /\ watcherPC' = "watch" /\ inHand' = "none"
  /\ loadedPlugins' = Loaded(inHand)
  /\ UNCHANGED <<listing, fileTime, watched, fsEvents, walkAt, untold, changes>>

\* A created file is loaded, a removed one unloaded; any other event is passed over.
HandleEvent ==
  /\ watcherPC = "watch" /\ fsEvents # <<>> /\ Head(fsEvents).op # "write"
  /\ fsEvents' = Tail(fsEvents)
  /\ LET e == Head(fsEvents)
     IN loadedPlugins' = CASE e.op = "create" -> Loaded(e.file)
                           [] e.op = "remove" -> [loadedPlugins EXCEPT ![e.file] = 0]
                           [] OTHER -> loadedPlugins
  /\ UNCHANGED <<listing, fileTime, watched, watcherPC, walkAt, inHand, untold, changes>>

WatchNext ==
  \/ \E present \in SUBSET PluginFiles, added \in BOOLEAN : NewPluginWatcher(present, added)
  \/ \E f \in PluginFiles, op \in {"create", "write", "remove", "rename"}, sent \in BOOLEAN :
       Change(f, op, sent)
  \/ ListDirectory
  \/ ListSubdirectory
  \/ LoadAllPlugins
  \/ StartWatch
  \/ HandleWrite
  \/ ReloadPlugin
  \/ HandleEvent

-----------------------------------------------------------------------------
\* When every event has been handled the watcher holds exactly the files that exist,
\* each as of its last change, although it reads files later than the events were sent
\* and although earlier changes of the same file may have gone by unnoticed.  It lags
\* behind only for a file of whose last change it was told by no event it handles (the
\* directory is not watched, the file lies deeper, the event was lost or a rename) and
\* which it has not loaded since in the walk, or which that walk failed to reach.
WatcherCaughtUp ==
  (watcherPC = "watch" /\ fsEvents = <<>>)
     => \A f \in PluginFiles \ untold : loadedPlugins[f] = fileTime[f]
=============================================================================
