-------------------------- MODULE LifecycleProofs --------------------------
(***************************************************************************)
(* Lifecycle: what the watcher has put in use, and what model files a      *)
(* detector can meet, for any number of edits, kills and starts.           *)
(***************************************************************************)
EXTENDS Lifecycle, TLAPS

\* What excuses a content that is not in use.
Excused == config_toml \in {Torn, unread} \/ unnoticed

\* Before the baseline every edit is one that will not be noticed; a content
\* about to be put in use is the file's unless a newer time is waiting.
WatcherInv ==
  /\ watcher \in {"poll", "sleep"} /\ modified <= last_metadata
       => shared_config = config_toml \/ Excused
  /\ main = "spawn" \/ watcher = "baseline" => shared_config = config_toml \/ Excused
  /\ watcher = "replace" /\ modified <= last_metadata => content = config_toml \/ Excused

LifecycleInv == TypeOK /\ WatcherInv /\ ModelUsedIsWhole

\* The types hold at first.
LEMMA LifecycleInit == Init => LifecycleInv
<1> SUFFICES ASSUME Init PROVE LifecycleInv
  OBVIOUS
<1>1. 1 \in Contents
  BY LifecycleAssumption DEF Contents
<1>2. FileType
  BY <1>1 DEF Init, FileType
<1>3. ThreadType /\ ConfigType
  BY <1>1, LifecycleAssumption DEF Init, ThreadType, ConfigType
<1>4. HistoryType
  BY DEF Init, HistoryType, Torn
<1>5. WatcherInv /\ ModelUsedIsWhole
  BY DEF Init, WatcherInv, Excused, ModelUsedIsWhole
<1> QED
  BY <1>2, <1>3, <1>4, <1>5 DEF LifecycleInv, TypeOK

\* An edit moves the modification time on, or is one that nobody notices.
LEMMA EnvironmentStep ==
  LifecycleInv /\ Environment => LifecycleInv'
<1> SUFFICES ASSUME LifecycleInv, Environment PROVE LifecycleInv'
  OBVIOUS
<1> USE DEF LifecycleInv, TypeOK
<1>1. UNCHANGED <<model_json, main, watcher, running, app_config, shared_config, last_metadata,
                  content, starts, unread, misread>>
  BY DEF Environment, config
<1>2. PICK c \in Contents \union {Torn} : Write(c) /\ edits' \in Contents
  <2>1. edits \in Contents /\ Torn \in Contents \union {Torn}
    BY DEF FileType
  <2>2. CASE Edit
    <3>1. edits' = edits + 1 /\ edits + 1 \in Contents
      BY <2>1, <2>2, LifecycleAssumption DEF Edit, Contents
    <3>2. Write(edits + 1) \/ Write(Torn)
      BY <2>2, Zenon DEF Edit
    <3> QED
      BY <2>1, <3>1, <3>2, Zenon
  <2>3. CASE FinishEdit
    <3>1. Write(edits) /\ edits' = edits
      BY <2>3, Zenon DEF FinishEdit
    <3> QED
      BY <2>1, <3>1, Zenon
  <2> QED
    BY <2>2, <2>3, Zenon DEF Environment
<1>3. config_toml' = c /\ modified' \in {Now, Now + 1}
  BY <1>2 DEF Write
<1>4. FileType'
  <2>1. modified' \in Nat
    BY <1>1, <1>3 DEF FileType, Now
  <2> QED
    BY <1>1, <1>2, <1>3, <2>1 DEF FileType
<1>5. ThreadType' /\ ConfigType'
  BY <1>1 DEF ThreadType, ConfigType
<1>6. HistoryType'
  <2>1. unnoticed' \in BOOLEAN
    BY <1>2 DEF Write
  <2>2. running' \in BOOLEAN /\ misread' \in BOOLEAN /\ unread' \in Contents \union {Torn}
    BY <1>1, Zenon DEF HistoryType
  <2> QED
    BY <2>1, <2>2 DEF HistoryType
<1>7. unnoticed' <=> main # "down" /\ (unnoticed \/ ~ Watching \/ modified' = last_metadata)
  BY <1>2 DEF Write
<1>8. WatcherInv'
  <2>1. main' # "down" /\ modified' <= last_metadata' => unnoticed' \/ ~ Watching
    BY <1>1, <1>3, <1>7 DEF Now, FileType
  <2> QED
    BY <1>1, <1>7, <2>1 DEF WatcherInv, Excused, Watching, ThreadType
<1>9. ModelUsedIsWhole'
  BY <1>1 DEF ModelUsedIsWhole
<1> QED
  BY <1>4, <1>5, <1>6, <1>8, <1>9

\* A process that ends leaves no watcher behind.
LEMMA GoneStep ==
  ASSUME LifecycleInv, Gone, UNCHANGED file, UNCHANGED starts,
         model_json' \in {"absent", "torn", "complete"}
  PROVE  LifecycleInv'
<1> USE DEF LifecycleInv, TypeOK
<1>1. FileType'
  BY DEF Gone, FileType, file, config
<1>2. ThreadType' /\ ConfigType'
  BY DEF Gone, ThreadType, ConfigType, config
<1>3. HistoryType'
  BY DEF Gone, HistoryType, Torn
<1>4. WatcherInv' /\ ModelUsedIsWhole'
  BY DEF Gone, WatcherInv, ModelUsedIsWhole
<1> QED
  BY <1>1, <1>2, <1>3, <1>4

\* A step of main between load and join leaves the watcher's business alone.
LEMMA BecomesStep ==
  ASSUME LifecycleInv, NEW place \in {"load", "collect", "train", "write", "writing", "classify",
                                      "join"},
         Enter(place), misread' \in BOOLEAN, UNCHANGED file, UNCHANGED starts,
         main \notin {"down", "spawn"}, model_json' \in {"absent", "torn", "complete"},
         place = "classify" => model_json' = "complete"
  PROVE  LifecycleInv'
<1> USE DEF LifecycleInv, TypeOK
<1>0. main' = place /\ UNCHANGED <<watcher, running, content, unnoticed, unread, app_config,
                                  shared_config, last_metadata>>
  BY DEF Enter, config
<1>1. FileType'
  BY <1>0 DEF FileType, file
<1>2. ThreadType' /\ ConfigType'
  BY <1>0 DEF ThreadType, ConfigType
<1>3. HistoryType'
  BY <1>0, Zenon DEF HistoryType
<1>4. WatcherInv' /\ ModelUsedIsWhole'
  BY <1>0 DEF WatcherInv, Excused, ModelUsedIsWhole, file
<1> QED
  BY <1>1, <1>2, <1>3, <1>4

\* The main thread keeps the invariant.
LEMMA MainStep == LifecycleInv /\ Main => LifecycleInv'
<1> SUFFICES ASSUME LifecycleInv, Main PROVE LifecycleInv'
  OBVIOUS
<1>0. UNCHANGED file
  BY DEF Main
<1>1. model_json \in {"absent", "torn", "complete"}
  BY DEF LifecycleInv, TypeOK, FileType
<1>2. CASE Start
  <2> USE DEF LifecycleInv, TypeOK
  <2>1. /\ main = "down" /\ starts < MaxStarts /\ starts' = starts + 1
        /\ UNCHANGED <<model_json, last_metadata, watcher, content, unnoticed, unread, misread>>
    BY <1>2 DEF Start
  <2>2. \/ /\ config_toml # Torn /\ app_config' = config_toml /\ shared_config' = config_toml
           /\ main' = "spawn" /\ running' = TRUE
        \/ UNCHANGED <<app_config, shared_config, main, running>>
    BY <1>2, Zenon DEF Start
  <2>3. FileType' /\ ConfigType'
    BY <1>0, <2>1, <2>2 DEF FileType, ConfigType, file
  <2>4. ThreadType'
    BY <2>1, <2>2, LifecycleAssumption DEF ThreadType
  <2>5. HistoryType'
    <3>1. running' = running \/ running' = TRUE
      BY <2>2, Zenon
    <3> QED
      BY <2>1, <3>1, Zenon DEF HistoryType
  <2>6. WatcherInv' /\ ModelUsedIsWhole'
    BY <1>0, <2>1, <2>2 DEF WatcherInv, Excused, ModelUsedIsWhole, file, ThreadType
  <2> QED
    BY <2>3, <2>4, <2>5, <2>6
<1>3. CASE SpawnWatcher
  <2> USE DEF LifecycleInv, TypeOK
  <2>1. /\ main = "spawn" /\ main' = "load" /\ watcher' = "baseline"
        /\ UNCHANGED <<running, content, unnoticed, unread, misread, app_config, shared_config,
                       last_metadata, model_json, starts>>
    BY <1>3 DEF SpawnWatcher, config
  <2>2. FileType'
    BY <1>0, <2>1 DEF FileType, file
  <2>3. ThreadType' /\ ConfigType'
    BY <2>1 DEF ThreadType, ConfigType
  <2>4. HistoryType'
    BY <2>1, Zenon DEF HistoryType
  <2>5. WatcherInv' /\ ModelUsedIsWhole'
    BY <1>0, <2>1 DEF WatcherInv, Excused, ModelUsedIsWhole, file
  <2> QED
    BY <2>2, <2>3, <2>4, <2>5
<1>4. misread \in BOOLEAN
  BY DEF LifecycleInv, TypeOK, HistoryType
<1>5. ASSUME NEW place, Becomes(place) PROVE Enter(place) /\ misread' \in BOOLEAN
  BY <1>4, <1>5, Zenon DEF Becomes
<1>6. CASE LoadModel
  <2>1. CASE Becomes("classify") /\ model_json = "complete"
    BY <1>0, <1>1, <1>5, <1>6, <2>1, BecomesStep DEF LoadModel
  <2>2. CASE Enter("collect") /\ misread' = (model_json = "complete")
    <3>1. misread' \in BOOLEAN
      BY <2>2
    <3> QED
      BY <1>0, <1>1, <1>6, <2>2, <3>1, BecomesStep DEF LoadModel
  <2> QED
    BY <1>6, <2>1, <2>2, Zenon DEF LoadModel
<1>7. CASE Collect
  BY <1>0, <1>1, <1>5, <1>7, BecomesStep DEF Collect
<1>8. CASE Train
  BY <1>0, <1>1, <1>5, <1>8, BecomesStep, GoneStep DEF Train
<1>9. CASE WriteModel
  BY <1>0, <1>1, <1>5, <1>9, BecomesStep, GoneStep DEF WriteModel
<1>10. CASE ModelWritten
  BY <1>0, <1>1, <1>5, <1>10, BecomesStep, GoneStep DEF ModelWritten
<1>11. CASE Join
  BY <1>0, <1>1, <1>5, <1>11, BecomesStep, GoneStep DEF Join
<1> QED
  BY <1>2, <1>3, <1>6, <1>7, <1>8, <1>9, <1>10, <1>11 DEF Main, MainSteps

\* What the watcher knows and puts in use matches the file.
LEMMA WatcherStep == LifecycleInv /\ Watcher => LifecycleInv'
<1> SUFFICES ASSUME LifecycleInv, Watcher PROVE LifecycleInv'
  OBVIOUS
<1> USE DEF LifecycleInv, TypeOK
<1> DEFINE Steps == Baseline \/ Poll \/ Notice \/ Skip \/ Read \/ Replace
<1>0. Steps /\ UNCHANGED <<file, model_json, main, running, app_config, starts, misread>>
  BY Zenon DEF Watcher
<1>1. FileType'
  BY <1>0 DEF Baseline, Poll, Notice, Skip, Read, Replace, FileType, file, Now
<1>2. ThreadType'
  BY <1>0 DEF Baseline, Poll, Notice, Skip, Read, Replace, ThreadType
<1>3. ConfigType'
  BY <1>0 DEF Baseline, Poll, Notice, Skip, Read, Replace, ConfigType, FileType, Torn
<1>4. HistoryType'
  <2>1. unnoticed' = unnoticed \/ unnoticed' = FALSE
    BY <1>0 DEF Baseline, Poll, Notice, Skip, Read, Replace
  <2>2. unread' \in Contents \union {Torn}
    BY <1>0 DEF Baseline, Poll, Notice, Skip, Read, Replace, HistoryType, FileType
  <2> QED
    BY <1>0, <2>1, <2>2, Zenon DEF HistoryType
<1>5. ModelUsedIsWhole'
  BY <1>0 DEF ModelUsedIsWhole
<1>6. main # "spawn"
  BY <1>0 DEF Baseline, Poll, Notice, Skip, Read, Replace, ThreadType
<1>7. WatcherInv'
  <2>1. main' # "spawn" /\ config_toml' = config_toml /\ modified' = modified
    BY <1>0, <1>6 DEF file
  <2>2. CASE Baseline
    BY <2>1, <2>2 DEF Baseline, WatcherInv, Excused
  <2>3. CASE Poll \/ Notice \/ Skip
    BY <2>1, <2>3 DEF Poll, Notice, Skip, WatcherInv, Excused
  <2>4. CASE Read
    BY <2>1, <2>4 DEF Read, WatcherInv, Excused
  <2>5. CASE Replace
    BY <2>1, <2>5 DEF Replace, WatcherInv, Excused
  <2> QED
    BY <1>0, <2>2, <2>3, <2>4, <2>5
<1> QED
  BY <1>1, <1>2, <1>3, <1>4, <1>5, <1>7

\* Ctrl+C changes the flag only.
LEMMA InterruptStep == LifecycleInv /\ (Interrupt \/ UNCHANGED vars) => LifecycleInv'
<1> SUFFICES ASSUME LifecycleInv, Interrupt \/ UNCHANGED vars PROVE LifecycleInv'
  OBVIOUS
<1> USE DEF LifecycleInv, TypeOK
<1>1. UNCHANGED <<file, model_json, main, watcher, app_config, shared_config, last_metadata,
                  content, starts, unnoticed, unread, misread>>
  BY DEF Interrupt, vars, config
<1>2. FileType' /\ ThreadType' /\ ConfigType'
  BY <1>1 DEF FileType, ThreadType, ConfigType, file
<1>3. running' = running \/ running' = FALSE
  BY DEF Interrupt, vars
<1>4. HistoryType'
  BY <1>1, <1>3, Zenon DEF HistoryType
<1>5. WatcherInv' /\ ModelUsedIsWhole'
  BY <1>1 DEF WatcherInv, Excused, ModelUsedIsWhole, file
<1> QED
  BY <1>2, <1>4, <1>5

\* Every step keeps the invariant.
LEMMA LifecycleStep == LifecycleInv /\ [Next]_vars => LifecycleInv'
<1> SUFFICES ASSUME LifecycleInv, [Next]_vars PROVE LifecycleInv'
  OBVIOUS
<1>1. CASE Crash
  <2>1. model_json' \in {"absent", "torn", "complete"}
    BY <1>1 DEF Crash, LifecycleInv, TypeOK, FileType
  <2> QED
    BY <1>1, <2>1, GoneStep DEF Crash
<1> QED
  BY <1>1, EnvironmentStep, MainStep, WatcherStep, InterruptStep DEF Next

\* For any number of edits and starts, and whatever is killed: between polls
\* the configuration in use is the file's unless no modification time tells
\* (main.rs:81-93), and a detector runs with a whole model (main.rs:249-342).
THEOREM LifecycleInvariant == Spec => [](TypeOK /\ WatcherUpToDate /\ ModelUsedIsWhole)
<1>1. LifecycleInv => TypeOK /\ WatcherUpToDate /\ ModelUsedIsWhole
  BY DEF LifecycleInv, WatcherInv, WatcherUpToDate, Excused
<1> QED
  BY <1>1, LifecycleInit, LifecycleStep, PTL DEF Spec

\* Only a main that found no complete model, or could not read it, is about to
\* write one.
Writing ==
  main \in {"collect", "train", "write", "writing"} /\ model_json = "complete" => misread

\* No step spoils a complete model file that could be read (main.rs:252-325).
THEOREM ModelKept == Spec => CompleteModelKept
<1> DEFINE Kept == model_json = "complete" /\ model_json' # "complete" => misread
<1>1. Init => Writing
  BY DEF Init, Writing
<1>2. Writing /\ [Next]_vars => Writing' /\ Kept
  <2> SUFFICES ASSUME Writing, [Next]_vars PROVE Writing' /\ Kept
    OBVIOUS
  <2>1. CASE LoadModel
    BY <2>1 DEF LoadModel, Becomes, Enter, Writing
  <2>2. CASE Collect \/ Train \/ WriteModel \/ ModelWritten
    BY <2>2 DEF Collect, Train, WriteModel, ModelWritten, Becomes, Enter, Gone, Writing
  <2>3. CASE Start \/ SpawnWatcher \/ Join
    BY <2>3 DEF Start, SpawnWatcher, Join, Becomes, Enter, Gone, Writing
  <2>4. CASE Environment \/ Interrupt \/ Crash \/ Watcher \/ UNCHANGED vars
    BY <2>4 DEF Environment, Interrupt, Crash, Watcher, vars, Gone, Writing
  <2> QED
    BY <2>1, <2>2, <2>3, <2>4 DEF Next, Main, MainSteps
<1>3. Kept => [model_json = "complete" /\ model_json' # "complete" => misread]_vars
  OBVIOUS
<1> QED
  BY <1>1, <1>2, <1>3, PTL DEF Spec, CompleteModelKept
=============================================================================
