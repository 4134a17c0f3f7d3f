----------------------------- MODULE Lifecycle -----------------------------
(***************************************************************************)
(* A process from start to end and what it leaves on disk (src/main.rs):   *)
(* main reads config.toml, loads or trains the model and writes it to      *)
(* model.json; the watcher reloads config.toml while it runs; the process  *)
(* may be killed at any step and started again.                            *)
(*                                                                         *)
(* The contents of config.toml are the numbers of its edits, 0 for a file  *)
(* that does not parse.  MaxEdits and MaxStarts bound edits and starts.    *)
(***************************************************************************)
EXTENDS Naturals

CONSTANTS MaxEdits, MaxStarts,
          TrainingSamples   \* training_samples of each content

ASSUME LifecycleAssumption ==
  /\ MaxEdits \in Nat \ {0} /\ MaxStarts \in Nat
  /\ TrainingSamples \in [1 .. MaxEdits -> Nat]

VARIABLES config_toml,     \* the content of the file,
          modified,        \*   its modification time,
          edits,           \*   the edits so far
          model_json,      \* the model file: "absent", "torn" or "complete"
          main, watcher,   \* where the two threads are; main is "down" between processes
          running,         \* the AtomicBool
          app_config,      \* the content main read at the start
          shared_config,   \* the content in the RwLock
          last_metadata,   \* the watcher's modification time
          content,         \* what the watcher has read, 0 for nothing
          starts,          \* history: processes started,
          unnoticed,       \*   an edit that no modification time betrays,
          unread,          \*   the last content whose reading failed, 0 for none,
          misread          \*   a complete model that this process could not read

file == <<config_toml, modified, edits>>
config == <<app_config, shared_config, last_metadata>>
vars == <<file, model_json, main, watcher, running, config, content, starts,
          unnoticed, unread, misread>>

Torn == 0

Init ==
  /\ config_toml = 1 /\ modified = 1 /\ edits = 1
  /\ model_json \in {"absent", "complete"}
  /\ main = "down" /\ watcher = "none" /\ running = FALSE
  /\ app_config = 1 /\ shared_config = 1 /\ last_metadata = 0 /\ content = 0
  /\ starts = 0 /\ unnoticed = FALSE /\ unread = 0 /\ misread = FALSE

-----------------------------------------------------------------------------
(* The environment.                                                        *)

\* The watcher has taken the modification time it compares with.
Watching == watcher \notin {"none", "baseline"}

\* The present tick: a baseline may have taken the clock's time.
Now == IF modified < last_metadata THEN last_metadata ELSE modified

\* The file gets new content, perhaps within the tick of the last one.  The
\* watcher cannot see an edit before its baseline or within the tick it knows.
Write(c) ==
  /\ config_toml' = c
  /\ modified' \in {Now, Now + 1}
  /\ unnoticed' = (main # "down" /\ (unnoticed \/ ~ Watching \/ modified' = last_metadata))

\* An editor replaces the file at once, or truncates and then fills it.
Edit ==
  /\ edits < MaxEdits /\ config_toml # Torn
  /\ \/ Write(edits + 1) \/ Write(Torn)
  /\ edits' = edits + 1

FinishEdit ==
  /\ config_toml = Torn
  /\ Write(edits)
  /\ UNCHANGED edits

Environment ==
  /\ Edit \/ FinishEdit
  /\ UNCHANGED <<model_json, main, watcher, running, config, content, starts, unread, misread>>

Interrupt ==
  /\ running
  /\ running' = FALSE
  /\ UNCHANGED <<file, model_json, main, watcher, config, content, starts, unnoticed, unread,
                 misread>>

\* The process is gone: main has returned or panicked, or it was killed.
Gone ==
  /\ main' = "down" /\ watcher' = "none" /\ running' = FALSE
  /\ content' = 0 /\ unnoticed' = FALSE /\ unread' = 0 /\ misread' = FALSE
  /\ UNCHANGED config

Crash ==
  /\ main # "down"
  /\ Gone
  /\ UNCHANGED <<file, model_json, starts>>

-----------------------------------------------------------------------------
(* The main thread.                                                        *)

Enter(place) ==
  /\ main' = place
  /\ UNCHANGED <<watcher, running, config, content, unnoticed, unread>>

Becomes(place) == Enter(place) /\ UNCHANGED misread

\* A configuration that cannot be read or does not parse ends main.
Start ==
  /\ main = "down" /\ starts < MaxStarts
  /\ starts' = starts + 1
  /\ \/ /\ config_toml # Torn
        /\ app_config' = config_toml /\ shared_config' = config_toml
        /\ main' = "spawn" /\ running' = TRUE
     \/ UNCHANGED <<app_config, shared_config, main, running>>
  /\ UNCHANGED <<model_json, last_metadata, watcher, content, unnoticed, unread, misread>>

SpawnWatcher ==
  /\ main = "spawn"
  /\ main' = "load" /\ watcher' = "baseline"
  /\ UNCHANGED <<running, content, unnoticed, unread, misread, config, model_json, starts>>

\* Mutant of LoadModel: a file that exists is taken for a model.
LoadExisting ==
  /\ main = "load"
  /\ \/ model_json # "absent" /\ Becomes("classify")
     \/ Enter("collect") /\ misread' = (model_json = "complete")
  /\ UNCHANGED <<model_json, starts>>

\* Mutant of LoadModel: a new model is trained at every start.
LoadNever ==
  /\ main = "load"
  /\ Becomes("collect")
  /\ UNCHANGED <<model_json, starts>>

\* A model file that is missing, cannot be read or does not parse means training.
LoadModel ==
  /\ main = "load"
  /\ \/ model_json = "complete" /\ Becomes("classify")
     \/ Enter("collect") /\ misread' = (model_json = "complete")
  /\ UNCHANGED <<model_json, starts>>

\* The samples are complete; or the flag is found cleared before.
Collect ==
  /\ main = "collect"
  /\ \/ Becomes("train")
     \/ ~ running /\ TrainingSamples[app_config] > 0 /\ Becomes("join")
  /\ UNCHANGED <<model_json, starts>>

\* train_model returns an error for no samples, and indexes the empty list of
\* distances for one.
TrainModel(n) == CASE n = 0 -> "error" [] n = 1 -> "panic" [] OTHER -> "model"

Train ==
  /\ main = "train"
  /\ IF TrainModel(TrainingSamples[app_config]) = "model" THEN Becomes("write") ELSE Gone
  /\ UNCHANGED <<model_json, starts>>

\* fs::write truncates the file, then fills it; each may fail and end main.
WriteModel ==
  /\ main = "write"
  /\ \/ Becomes("writing") /\ model_json' = "torn"
     \/ Gone /\ UNCHANGED model_json
  /\ UNCHANGED starts

ModelWritten ==
  /\ main = "writing"
  /\ \/ Becomes("classify") /\ model_json' = "complete"
     \/ Gone /\ UNCHANGED model_json
  /\ UNCHANGED starts

\* The joins of the other threads are in module Pipeline; the watcher's is last.
Join ==
  /\ \/ main = "classify" /\ ~ running /\ Becomes("join")
     \/ main = "join" /\ watcher = "done" /\ Gone
  /\ UNCHANGED <<model_json, starts>>

MainSteps ==
  \/ SpawnWatcher \/ LoadModel \/ Collect \/ Train \/ WriteModel \/ ModelWritten \/ Join

Main == (Start \/ MainSteps) /\ UNCHANGED file

-----------------------------------------------------------------------------
(* The watcher.                                                            *)

\* The clock's time stands in for a modification time that cannot be had.
Baseline ==
  /\ watcher = "baseline"
  /\ last_metadata' \in {modified, Now, Now + 1}
  /\ watcher' = "poll"
  /\ UNCHANGED <<shared_config, content, unnoticed, unread>>

Poll ==
  /\ watcher = "poll"
  /\ watcher' = IF running THEN "sleep" ELSE "done"
  /\ UNCHANGED <<last_metadata, shared_config, content, unnoticed, unread>>

\* After two seconds.  last_metadata advances before the file is read.
Notice ==
  /\ watcher = "sleep" /\ modified > last_metadata
  /\ watcher' = "read" /\ last_metadata' = modified /\ unnoticed' = FALSE
  /\ UNCHANGED <<shared_config, content, unread>>

\* The file is no newer, or its metadata cannot be had this time.
Skip ==
  /\ watcher = "sleep"
  /\ watcher' = "poll"
  /\ UNCHANGED <<last_metadata, shared_config, content, unnoticed, unread>>

\* Mutant of Read: a file that does not parse ends the watcher's loop.
ReadOrEnd ==
  /\ watcher = "read"
  /\ \/ config_toml # Torn /\ watcher' = "replace" /\ content' = config_toml /\ UNCHANGED unread
     \/ config_toml # Torn /\ watcher' = "poll" /\ unread' = config_toml /\ UNCHANGED content
     \/ config_toml = Torn /\ watcher' = "done" /\ UNCHANGED <<unread, content>>
  /\ UNCHANGED <<last_metadata, shared_config, unnoticed>>

\* Mutant of Read: what does not parse is replaced by default values.
ReadDefaults ==
  /\ watcher = "read"
  /\ watcher' = "replace" /\ content' = config_toml
  /\ UNCHANGED <<last_metadata, shared_config, unnoticed, unread>>

\* What cannot be read or does not parse is reported and forgotten.
Read ==
  /\ watcher = "read"
  /\ \/ config_toml # Torn /\ watcher' = "replace" /\ content' = config_toml /\ UNCHANGED unread
     \/ watcher' = "poll" /\ unread' = config_toml /\ UNCHANGED content
  /\ UNCHANGED <<last_metadata, shared_config, unnoticed>>

\* Mutant of Replace: the modification time is taken after the reload.
ReplaceThenStat ==
  /\ watcher = "replace"
  /\ shared_config' = content /\ content' = 0
  /\ last_metadata' = modified
  /\ watcher' = "poll"
  /\ UNCHANGED <<unnoticed, unread>>

Replace ==
  /\ watcher = "replace"
  /\ shared_config' = content /\ content' = 0
  /\ watcher' = "poll"
  /\ UNCHANGED <<last_metadata, unnoticed, unread>>

Watcher ==
  /\ Baseline \/ Poll \/ Notice \/ Skip \/ Read \/ Replace
  /\ UNCHANGED <<file, model_json, main, running, app_config, starts, misread>>

-----------------------------------------------------------------------------
Next == Environment \/ Interrupt \/ Crash \/ Main \/ Watcher

\* Threads run.  Nobody has to edit, start, kill or stop; packets to train on
\* need not come, so main may collect forever.  The metadata of a file that stays
\* newer can be had at some poll.
Fairness == WF_vars(Watcher) /\ SF_vars(Watcher /\ Notice)

Spec == Init /\ [][Next]_vars /\ Fairness

-----------------------------------------------------------------------------
Contents == 1 .. MaxEdits

FileType ==
  /\ config_toml \in Contents \union {Torn} /\ edits \in Contents
  /\ modified \in Nat /\ last_metadata \in Nat
  /\ model_json \in {"absent", "torn", "complete"}

ThreadType ==
  /\ main \in {"down", "spawn", "load", "collect", "train", "write", "writing", "classify", "join"}
  /\ watcher \in {"none", "baseline", "poll", "sleep", "read", "replace", "done"}
  /\ watcher = "none" <=> main \in {"down", "spawn"}
  /\ starts \in 0 .. MaxStarts

ConfigType ==
  /\ app_config \in Contents /\ shared_config \in Contents
  /\ IF watcher = "replace" THEN content \in Contents ELSE content = 0

HistoryType ==
  /\ running \in BOOLEAN /\ unnoticed \in BOOLEAN /\ misread \in BOOLEAN
  /\ unread \in Contents \union {Torn}

\* What is in use or about to be used always parsed.
TypeOK == FileType /\ ThreadType /\ ConfigType /\ HistoryType

\* "R-NADS watches this file for modifications and reloads configurations
\* dynamically without restarting" (README.md:27): between its polls, when no
\* newer modification time is waiting, the threads use what is in the file,
\* unless it does not parse, could not be read (main.rs:112 does not try again)
\* or was last edited where no modification time can tell: before the watcher's
\* baseline or within the tick it has seen.
WatcherUpToDate ==
  watcher \in {"poll", "sleep"} /\ modified <= last_metadata
    => shared_config = config_toml \/ config_toml \in {Torn, unread} \/ unnoticed

\* The detector never starts with a model that a crash has cut off: when it
\* runs, the model file is the whole one it uses.
ModelUsedIsWhole == main = "classify" => model_json = "complete"

\* A complete model is written over only by a process that could not read it
\* (main.rs:269), whatever is edited, killed or started: no other process trains
\* again what it has, or leaves it torn by a crash.
CompleteModelKept == [][model_json = "complete" /\ model_json' # "complete" => misread]_vars

\* A content whose modification time is newer than the watcher's is at last in
\* use, replaced by another or lost to a failing read, as long as the process
\* runs, whatever failed to parse or to be read before.
EditsTakeEffect ==
  \A c \in Contents :
    config_toml = c /\ Watching /\ modified > last_metadata
      ~> shared_config = c \/ config_toml # c \/ unread = c \/ ~ running
=============================================================================
