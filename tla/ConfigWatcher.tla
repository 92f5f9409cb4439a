---------------------------- MODULE ConfigWatcher ----------------------------
(***************************************************************************)
(* internal/httpserver/config/config.go: the watcher that serves the       *)
(* executor built from the configuration file when the CRD manager is      *)
(* disabled.  NewWatcher loads the file, Start begins to watch it, and a   *)
(* goroutine handles one event at a time.  An event is handled in up to    *)
(* two steps, re-watch and load, between which the file may change again.  *)
(***************************************************************************)
EXTENDS FileWatcher

CONSTANTS ConfigFile, \* executorConfigPath
          Broken      \* versions of the configuration that cannot be built

ASSUME ConfigFileAssumption == Paths = {ConfigFile}

VARIABLES stage,      \* of the goroutine that runs the watcher
          executor    \* the version the executor pointer was built from

vars == <<disk, watch, events, version, mishaps, stage, executor>>

NoExecutor == 0

Init == FileInit /\ stage = "new" /\ executor = NoExecutor

Loadable == Readable(ConfigFile) /\ disk[ConfigFile].body \notin Broken

(* The bug of storing what could not be read or built. *)
loadExecutor_Unchecked(onOk, onError) ==
  /\ executor' = disk[ConfigFile].body
  /\ stage' = onOk

(* Reads the file and builds the executor, or leaves the old one in place. *)
loadExecutor(onOk, onError) ==
  IF Loadable
  THEN executor' = disk[ConfigFile].body /\ stage' = onOk
  ELSE UNCHANGED executor /\ stage' = onError

NewWatcher ==
  /\ stage = "new"
  /\ loadExecutor("loaded", "exited")
  /\ UNCHANGED fileVars

Start ==
  /\ stage = "loaded"
  /\ Add(ConfigFile)
  /\ stage' = IF Exists(ConfigFile) THEN "idle" ELSE "exited"
  /\ UNCHANGED <<disk, events, version, mishaps, executor>>

(* The bug of a Remove event that reloads and does not watch the new file. *)
handleEvent_NoRewatch ==
  /\ stage = "idle" /\ events # <<>>
  /\ events' = Tail(events)
  /\ stage' = IF Head(events).op \in {"write", "remove"} THEN "load" ELSE "idle"
  /\ UNCHANGED <<disk, watch, version, mishaps, executor>>

(* The select of the loop: Write, Create and Remove reload, Rename does not. *)
handleEvent ==
  /\ stage = "idle" /\ events # <<>>
  /\ events' = Tail(events)
  /\ stage' = CASE Head(events).op = "remove" -> "rewatch"
                [] Head(events).op = "write" -> "load"
                [] OTHER -> "idle"
  /\ UNCHANGED <<disk, watch, version, mishaps, executor>>

(* The bug of watching the new file without reading it. *)
rewatch_NoLoad ==
  /\ stage = "rewatch"
  /\ Add(ConfigFile)
  /\ stage' = "idle"
  /\ UNCHANGED <<disk, events, version, mishaps, executor>>

rewatch ==
  /\ stage = "rewatch"
  /\ Add(ConfigFile)
  /\ stage' = "load"
  /\ UNCHANGED <<disk, events, version, mishaps, executor>>

reload ==
  /\ stage = "load"
  /\ loadExecutor("idle", "idle")
  /\ UNCHANGED fileVars

Stop ==
  /\ stage = "idle"
  /\ stage' = "exited"
  /\ UNCHANGED <<disk, watch, events, version, mishaps, executor>>

(* Between the first load and the watch nobody would learn of a change. *)
FileStep == FileChange(stage # "loaded") /\ UNCHANGED <<stage, executor>>

WatcherStep == NewWatcher \/ Start \/ handleEvent \/ rewatch \/ reload

Next == WatcherStep \/ Stop \/ FileStep

(* The goroutine is scheduled, and the kernel drops the inode of a file that is gone. *)
Fairness == WF_vars(WatcherStep) /\ WF_vars(\E p \in Paths : Unlink(p) /\ FileStep)

Spec == Init /\ [][Next]_vars
FairSpec == Spec /\ Fairness

-----------------------------------------------------------------------------
(* Every variable holds a value of its kind: in particular the pointer never
   holds an executor of a torn or unbuildable file (loadExecutor). *)
TypeOK ==
  /\ FileTypeOK
  /\ stage \in {"new", "loaded", "idle", "rewatch", "load", "exited"}
  /\ executor \in (1..MaxVersion \ Broken) \cup {NoExecutor}

(* As long as the file never went missing, and did not change between the first
   load and the watch: whenever nothing is left to handle, the executor is the
   one the file describes, if it describes any.  A replacement ends the watch,
   and only the re-watch before the load keeps the next one from being missed. *)
Served == Loadable => executor = disk[ConfigFile].body
AtRest == stage = "idle" /\ FilesAtRest
ServesFile == (AtRest /\ mishaps = {}) => Served

(* Even when files are deleted and moved away: as long as the watch is on a file
   that was not changed before it was watched, whenever nothing is left to
   handle the executor is the file's. *)
WatchedIsServed == 
  (AtRest /\ watch[ConfigFile] # 0 /\ "early" \notin mishaps) => Served

(* The watcher keeps the promise of ServedFile: the pointer only ever changes, in
   one step, to the executor the file describes at that moment, never to that of
   a torn or unbuildable file and never back to none; and until the process ends,
   a file goes missing or one changes before it is watched, it comes to serve the
   file again after every change, whatever changes in the meantime. *)
Contract == INSTANCE ServedFile WITH
  Contents <- 1..MaxVersion \ Broken,
  None <- NoExecutor,
  file <- IF Loadable THEN disk[ConfigFile].body ELSE NoExecutor,
  served <- executor,
  bound <- stage # "exited" /\ mishaps = {}
ImplementsServedFile == Contract!Spec
=============================================================================
