--------------------------- MODULE ConfigWatcher ---------------------------
(***************************************************************************)
(* The ConfigWatcher of internal/producer: file events, the debounce and   *)
(* the loaded configuration.  The handlers, and POST /config/reload, which *)
(* hands one of them what is loaded, only validate and print it.           *)
(*                                                                         *)
(* One file is watched.  A program that saves it truncates it first, and   *)
(* each of the two steps raises an event; Half is what a reader sees       *)
(* between them, which is no JSON.  A removed file is watched no more.     *)
(***************************************************************************)
EXTENDS Integers, Sequences

CONSTANTS MaxSaves,   \* bound: saves of the file
          MaxPending  \* bound: events pending when the file's mode is changed

Half == 0
Gone == -1

VARIABLES
  cwFile,      \* the file: the number of the save it holds, Half or Gone
  cwSaves,     \* saves so far
  cwSaving,    \* a save has truncated the file
  cwEvents,    \* watcher.Events
  cwRecent,    \* lastChange is set, and less than debounceTime ago
  cwCurrent,   \* currentConfigs[configType]
  cwRunning,   \* watchLoop runs
  cwDone,      \* cw.ctx is done
  cwAlone,     \* history: the last save began with nothing recent or pending,
               \* and nothing was done to the file until its events were handled
  cwHalfRead   \* history: since it began an event found the file half written

file   == <<cwFile, cwSaves, cwSaving, cwAlone>>
config == <<cwCurrent, cwHalfRead>>
loop   == <<cwRunning, cwDone>>
cwVars == <<file, config, loop, cwEvents, cwRecent>>

\* WatchConfig has loaded the first save.
CWInit ==
  /\ cwFile = 1 /\ cwSaves = 1 /\ cwSaving = FALSE /\ cwAlone = FALSE
  /\ cwEvents = <<>> /\ cwRecent = FALSE
  /\ cwCurrent = 1 /\ cwHalfRead = FALSE
  /\ cwRunning = FALSE /\ cwDone = FALSE
-----------------------------------------------------------------------------
(* The file.                                                               *)

Truncate ==
  /\ cwFile # Gone /\ ~cwSaving /\ cwSaves < MaxSaves
  /\ cwFile' = Half /\ cwSaving' = TRUE /\ cwSaves' = cwSaves + 1
  /\ cwEvents' = Append(cwEvents, "write")
  /\ cwAlone' = (cwEvents = <<>> /\ ~cwRecent) /\ cwHalfRead' = FALSE
  /\ UNCHANGED <<loop, cwRecent, cwCurrent>>
Write ==
  /\ cwSaving /\ cwSaving' = FALSE /\ cwFile' = cwSaves
  /\ cwEvents' = Append(cwEvents, "write")
  /\ UNCHANGED <<cwSaves, cwAlone, config, loop, cwRecent>>
RemoveFile ==
  /\ cwFile # Gone /\ ~cwSaving /\ cwFile' = Gone
  /\ cwEvents' = Append(cwEvents, "remove") /\ cwAlone' = FALSE
  /\ UNCHANGED <<cwSaves, cwSaving, config, loop, cwRecent>>
Chmod ==
  /\ cwFile # Gone /\ Len(cwEvents) < MaxPending
  /\ cwEvents' = Append(cwEvents, "chmod")
  /\ cwAlone' = (cwAlone /\ ~cwSaving /\ cwEvents = <<>>)
  /\ UNCHANGED <<cwFile, cwSaves, cwSaving, config, loop, cwRecent>>
-----------------------------------------------------------------------------
(* The watcher.                                                            *)

\* The debounce looks at the time of the last event that was let through.
DebouncePasses == cwRecent' = FALSE /\ cwRecent /\ UNCHANGED <<file, config, loop, cwEvents>>

\* A file that is gone, or cannot be read, leaves the configuration as it is, and
\* so does an event of no kind that is handled.
HandleConfigChange(op) ==
  \/ op \in {"remove", "chmod"} /\ UNCHANGED config
  \/ op = "write" /\ cwFile > Half /\ cwCurrent' = cwFile /\ UNCHANGED cwHalfRead
  \/ op = "write" /\ cwFile <= Half /\ cwHalfRead' = TRUE /\ UNCHANGED cwCurrent

HandleFileEventOnce ==   \* mutant: any earlier change, however old, debounces
  /\ cwRunning /\ cwEvents # <<>> /\ cwEvents' = Tail(cwEvents)
  /\ IF cwRecent \/ cwCurrent > 1 THEN UNCHANGED <<cwRecent, config>>
     ELSE cwRecent' = TRUE /\ HandleConfigChange(Head(cwEvents))
  /\ UNCHANGED <<file, loop>>
HandleFileEvent ==
  /\ cwRunning /\ cwEvents # <<>> /\ cwEvents' = Tail(cwEvents)
  /\ IF cwRecent THEN UNCHANGED <<cwRecent, config>>
     ELSE cwRecent' = TRUE /\ HandleConfigChange(Head(cwEvents))
  /\ UNCHANGED <<file, loop>>

\* A loop that starts when cw.ctx is done may take events before it looks.
WatcherStart == ~cwRunning /\ cwRunning' = TRUE /\ UNCHANGED <<file, config, cwDone, cwEvents, cwRecent>>
WatcherStop  == cwRunning /\ cwDone' = TRUE /\ UNCHANGED <<file, config, cwRunning, cwEvents, cwRecent>>
WatchLoopEnds == cwDone /\ cwRunning /\ cwRunning' = FALSE /\ UNCHANGED <<file, config, cwDone, cwEvents, cwRecent>>
-----------------------------------------------------------------------------
CWNext ==
  \/ Truncate \/ Write \/ RemoveFile \/ Chmod \/ DebouncePasses
  \/ HandleFileEvent \/ WatcherStart \/ WatcherStop \/ WatchLoopEnds

CWSpec == CWInit /\ [][CWNext]_cwVars
-----------------------------------------------------------------------------
(* Properties.                                                             *)

\* The debounce keeps the first event of a burst, of whatever kind, and drops the
\* rest.  So a save made while nothing is recent is loaded, once its events are
\* handled, unless the event that was let through found the file half written; of a
\* save made within the debounce time of another, or of a change of the file's mode,
\* nothing may ever be loaded.
LoneSaveIsLoaded ==
  cwAlone /\ cwEvents = <<>> /\ ~cwSaving => cwCurrent = cwFile \/ cwHalfRead
=============================================================================
