--------------------------- MODULE ModelLifecycle ---------------------------
(***************************************************************************)
(* The models of one strategy's ML filter, from the dataset to the trade   *)
(* manager.  Four programs share files without any lock: collect_data      *)
(* writes the dataset, train_model fits a model, dumps it and registers a  *)
(* version, promote_model names the version in production, and the trade   *)
(* manager reads registry and model.  A file being written is first        *)
(* emptied, and stays as it is when its writer dies.                       *)
(*                                                                         *)
(* A model file is named after the strategy and the day, so a day stands   *)
(* for its path; what is in it is the number of the training run.          *)
(***************************************************************************)
EXTENDS Integers, FiniteSets, FiniteSetsExt

CONSTANTS
    Trainers,    \* runs of train_model that may overlap
    Promoter,    \* promote_model
    NoPath,      \* production: null
    MaxDay,      \* bound: days
    MaxRuns,     \* bound: trainings
    MaxDeaths    \* bound: processes that die at their work

Paths == 1 .. MaxDay
Runs == 1 .. MaxRuns
NoFile == 0
Broken == -1
Writers == Trainers \cup {Promoter}

ASSUME LifecycleAssumption ==
    /\ Promoter \notin Trainers /\ NoPath \notin Nat
    /\ MaxDay \in Nat \ {0} /\ MaxRuns \in Nat /\ MaxDeaths \in Nat

FileStates == {"missing", "empty", "torn", "whole"}

Version == [num : Nat, path : Paths, status : {"candidate", "production", "archived"}, run : Runs]
Entry == [versions : SUBSET Version, production : Paths \cup {NoPath}]
EmptyEntry == [versions |-> {}, production |-> NoPath]

VARIABLES
    today,
    dataset,   \* labelled_dataset.jsonl: state
    collector, \* run of collect_data: control point and the dataset it appends to
    files,     \* [path -> training run in the model file]
    registry,  \* model_registry.json: state and the strategy's entry
    proc,      \* [writer of the registry -> control point and locals]
    tm,        \* MLInferenceHandler of the trade manager
    trained,   \* trainings so far
    promoted,  \* training runs of which a version was promoted (history)
    deaths,
    numbered,  \* numbers and runs of the versions ever saved (history)
    stale,     \* writers whose copy of the registry is older than its last save (history)
    lossy      \* TRUE once such a copy was written back (history)

saves == <<numbered, stale, lossy>>
mlVars == <<today, dataset, collector, files, registry, proc, tm, trained, promoted, deaths, saves>>

Idle == [pc |-> "idle", run |-> 0, path |-> NoPath, entry |-> EmptyEntry]
Down == [up |-> FALSE, entry |-> EmptyEntry, model |-> NoFile]

MlInit ==
    /\ today = 1 /\ dataset = "missing"
    /\ collector = [pc |-> "idle", base |-> "missing"]
    /\ files = [path \in Paths |-> NoFile]
    /\ registry = [state |-> "missing", entry |-> EmptyEntry]
    /\ proc = [p \in Writers |-> Idle]
    /\ tm = Down
    /\ trained = 0 /\ promoted = {} /\ deaths = 0
    /\ numbered = {} /\ stale = {} /\ lossy = FALSE

-----------------------------------------------------------------------------
(* BasePipeline.run *)

\* The dataset is opened, and emptied when it is to be overwritten; without trades, candles or a
\* pipeline for the strategy it is not even opened.
CollectOpen ==
    /\ collector.pc = "idle"
    /\ \E overwrite \in BOOLEAN :
          dataset' = IF overwrite \/ dataset = "missing" THEN "empty" ELSE dataset
    /\ collector' = [pc |-> "write", base |-> dataset']
    /\ UNCHANGED <<today, files, registry, proc, tm, trained, promoted, deaths, saves>>

\* A part of the lines is in the file.
CollectFlush ==
    /\ collector.pc = "write" /\ dataset # "torn"
    /\ dataset' = "torn"
    /\ UNCHANGED <<today, collector, files, registry, proc, tm, trained, promoted, deaths, saves>>

\* One line for each trade with a bar at or before its entry and a result; maybe for none.
CollectWrite ==
    /\ collector.pc = "write"
    /\ dataset' \in (IF collector.base = "empty" THEN {"whole", "empty"} ELSE {collector.base})
    /\ collector' = [pc |-> "idle", base |-> "missing"]
    /\ UNCHANGED <<today, files, registry, proc, tm, trained, promoted, deaths, saves>>

-----------------------------------------------------------------------------
(* ModelRegistryManager *)

\* load_all: a missing file is an empty registry, any other but a whole one an exception.
Readable == registry.state \in {"missing", "whole"}
Loaded == IF registry.state = "whole" THEN registry.entry ELSE EmptyEntry

\* The versions of an entry, without their statuses.
Numbered(entry) == {[num |-> v.num, run |-> v.run] : v \in entry.versions}

\* Mutant: the number of the last version is used again.
NextNumberAgain(entry) == Max({1} \cup {v.num : v \in entry.versions})

NextNumber(entry) == Max({0} \cup {v.num : v \in entry.versions}) + 1

Registered(entry, path, run) ==
    [entry EXCEPT !.versions = entry.versions \cup
        {[num |-> NextNumber(entry), path |-> path, status |-> "candidate", run |-> run]}]

\* Mutant: the version in production so far keeps its status.
ArchivedNot(entry) == entry.versions

\* Demote old production.
Archived(entry) ==
    {IF v.path = entry.production /\ v.status = "production"
     THEN [v EXCEPT !.status = "archived"] ELSE v : v \in entry.versions}

\* Mutant: the version in production is named by its number.
PromotedByNumber(entry, v) == [versions |-> Archived(entry), production |-> v.num]

Promoted(entry, v) ==
    [versions |-> {IF w.num = v.num THEN [w EXCEPT !.status = "production"] ELSE w : w \in Archived(entry)},
     production |-> v.path]

\* save_all, opening: the file is empty.
SaveOpen(p) ==
    /\ proc[p].pc = "save"
    /\ registry' = [registry EXCEPT !.state = "empty"]
    /\ proc' = [proc EXCEPT ![p].pc = "write"]
    /\ UNCHANGED <<today, dataset, collector, files, tm, trained, promoted, deaths, saves>>

\* save_all, writing: over what another process wrote since, whose end may stay behind.
SaveWrite(p) ==
    /\ proc[p].pc = "write"
    /\ \/ registry' = [state |-> "whole", entry |-> proc[p].entry]
       \/ registry.state \in {"whole", "torn"} /\ registry' = [registry EXCEPT !.state = "torn"]
    /\ proc' = [proc EXCEPT ![p] = IF p = Promoter THEN [@ EXCEPT !.pc = "report"] ELSE Idle]
    /\ promoted' = IF p = Promoter THEN promoted \cup {proc[p].run} ELSE promoted
    /\ numbered' = IF registry'.state = "whole" THEN numbered \cup Numbered(proc[p].entry) ELSE numbered
    /\ stale' = {q \in Writers \ {p} : proc[q].pc \in {"save", "write"}}
    /\ lossy' = (lossy \/ p \in stale)
    /\ UNCHANGED <<today, dataset, collector, files, tm, trained, deaths>>

-----------------------------------------------------------------------------
(* BaseTrainer.train *)

\* load_dataset: a missing, an empty or a torn dataset ends the run.
DatasetLoads == dataset = "whole"

\* The time-aware split and the fit.
Fit(t) ==
    /\ proc[t].pc = "idle" /\ DatasetLoads /\ trained < MaxRuns
    /\ trained' = trained + 1
    /\ proc' = [proc EXCEPT ![t] = [Idle EXCEPT !.pc = "dump", !.run = trained + 1]]
    /\ UNCHANGED <<today, dataset, collector, files, registry, tm, promoted, deaths, saves>>

\* Mutant: the version is registered before there is a file.
DumpLater(t) ==
    /\ proc[t].pc = "dump"
    /\ proc' = [proc EXCEPT ![t].pc = "register", ![t].path = today]
    /\ UNCHANGED <<today, dataset, collector, files, registry, tm, trained, promoted, deaths, saves>>

\* joblib.dump, opening the file of the day, an earlier run's of the same day, too.
DumpOpen(t) ==
    /\ proc[t].pc = "dump"
    /\ files' = [files EXCEPT ![today] = Broken]
    /\ proc' = [proc EXCEPT ![t].pc = "dumping", ![t].path = today]
    /\ UNCHANGED <<today, dataset, collector, registry, tm, trained, promoted, deaths, saves>>

\* Over what another training of the day has written since, the two may be mixed.
DumpWrite(t) ==
    /\ proc[t].pc = "dumping"
    /\ \/ files' = [files EXCEPT ![proc[t].path] = proc[t].run]
       \/ files[proc[t].path] # Broken /\ files' = [files EXCEPT ![proc[t].path] = Broken]
    /\ proc' = [proc EXCEPT ![t].pc = "register"]
    /\ UNCHANGED <<today, dataset, collector, registry, tm, trained, promoted, deaths, saves>>

\* register_version up to its save.
RegisterVersion(t) ==
    /\ proc[t].pc = "register"
    /\ proc' = [proc EXCEPT ![t] =
           IF Readable THEN [@ EXCEPT !.pc = "save", !.entry = Registered(Loaded, proc[t].path, proc[t].run)]
           ELSE Idle]
    /\ stale' = stale \ {t}
    /\ UNCHANGED <<today, dataset, collector, files, registry, tm, trained, promoted, deaths,
                   numbered, lossy>>

-----------------------------------------------------------------------------
(* PromoteAction *)

\* promote_version up to its save.  An unknown strategy or version, a missing model file, or a
\* version whose file is in production already: a message, nothing else.
PromoteVersion ==
    /\ proc[Promoter].pc = "idle" /\ Readable
    /\ \E v \in Loaded.versions :
          /\ files[v.path] # NoFile /\ Loaded.production # v.path
          /\ proc' = [proc EXCEPT ![Promoter] =
                 [pc |-> "save", run |-> v.run, path |-> v.path, entry |-> Promoted(Loaded, v)]]
    /\ stale' = stale \ {Promoter}
    /\ UNCHANGED <<today, dataset, collector, files, registry, tm, trained, promoted, deaths,
                   numbered, lossy>>

\* get_strategy for the message; its failure is reported as a failed promotion.
ReportPromotion ==
    /\ proc[Promoter].pc = "report"
    /\ proc' = [proc EXCEPT ![Promoter] = Idle]
    /\ UNCHANGED <<today, dataset, collector, files, registry, tm, trained, promoted, deaths, saves>>

-----------------------------------------------------------------------------
(* The trade manager *)

\* A new handler reads the registry once; it is None when that fails.
StartHandler ==
    /\ ~tm.up
    /\ tm' = IF Readable THEN [up |-> TRUE, entry |-> Loaded, model |-> NoFile] ELSE [Down EXCEPT !.up = TRUE]
    /\ UNCHANGED <<today, dataset, collector, files, registry, proc, trained, promoted, deaths, saves>>

\* get_production_model at the first signal with use_ml: the file of the path in production is
\* loaded and kept.  Without one, or when it is broken, the signal passes unfiltered.
GetProductionModel ==
    /\ tm.up /\ tm.model = NoFile /\ tm.entry.production # NoPath
    /\ files[tm.entry.production] \notin {NoFile, Broken}
    /\ tm' = [tm EXCEPT !.model = files[tm.entry.production]]
    /\ UNCHANGED <<today, dataset, collector, files, registry, proc, trained, promoted, deaths, saves>>

StopHandler ==
    /\ tm.up
    /\ tm' = Down
    /\ UNCHANGED <<today, dataset, collector, files, registry, proc, trained, promoted, deaths, saves>>

-----------------------------------------------------------------------------
(* Days and deaths *)

NextDay ==
    /\ today < MaxDay
    /\ today' = today + 1
    /\ UNCHANGED <<dataset, collector, files, registry, proc, tm, trained, promoted, deaths, saves>>

\* A program dies, or is stopped, at its work; what it has opened stays as it is.
Die ==
    /\ deaths < MaxDeaths /\ deaths' = deaths + 1
    /\ \/ /\ \E p \in Writers : proc[p].pc # "idle" /\ proc' = [proc EXCEPT ![p] = Idle]
          /\ UNCHANGED collector
       \/ /\ collector.pc # "idle" /\ collector' = [pc |-> "idle", base |-> "missing"]
          /\ UNCHANGED proc
    /\ UNCHANGED <<today, dataset, files, registry, tm, trained, promoted, saves>>

TrainModel(t) == Fit(t) \/ DumpOpen(t) \/ DumpWrite(t) \/ RegisterVersion(t)
MlNext ==
    \/ CollectOpen \/ CollectFlush \/ CollectWrite
    \/ \E t \in Trainers : TrainModel(t)
    \/ PromoteVersion \/ ReportPromotion
    \/ \E p \in Writers : SaveOpen(p) \/ SaveWrite(p)
    \/ StartHandler \/ GetProductionModel \/ StopHandler
    \/ NextDay \/ Die
MlSpec == MlInit /\ [][MlNext]_mlVars

-----------------------------------------------------------------------------
(* Properties *)

WorkTypeOK ==
    /\ today \in Paths /\ dataset \in FileStates
    /\ collector \in [pc : {"idle", "write"}, base : FileStates]
    /\ files \in [Paths -> Runs \cup {NoFile, Broken}]
    /\ registry \in [state : FileStates, entry : Entry]
    /\ proc \in [Writers -> [pc : {"idle", "dump", "dumping", "register", "save", "write", "report"},
                             run : Runs \cup {0}, path : Paths \cup {NoPath}, entry : Entry]]
    /\ tm \in [up : BOOLEAN, entry : Entry, model : Runs \cup {NoFile}]
    /\ trained \in 0 .. MaxRuns /\ promoted \subseteq Runs /\ deaths \in 0 .. MaxDeaths

SavesTypeOK ==
    /\ numbered \subseteq [num : Nat, run : Runs]
    /\ stale \subseteq Writers /\ lossy \in BOOLEAN

\* The types of the files, the registry and the locals of the programs, and of the history of
\* the saves.
MlTypeOK == WorkTypeOK /\ SavesTypeOK

\* "Auto-increment version number": a number is given to two trainings, or a version lost, only
\* when a program writes back a registry it has loaded before another saved.  As long as none
\* has, whatever dies in the middle of its save, every number ever given is one version's and
\* a registry that can be read has all of them.
OnlyStaleSavesLose ==
    ~lossy => /\ \A v, w \in numbered : v.num = w.num => v = w
              /\ registry.state = "whole" => numbered \subseteq Numbered(registry.entry)

\* "Promote a version to production": one version at most has the status, and its file is the
\* one named as the production model, whoever saved last.
OneProduction ==
    LET inProduction == {v \in registry.entry.versions : v.status = "production"}
    IN  /\ \A v, w \in inProduction : v.num = w.num
        /\ \A v \in inProduction : v.path = registry.entry.production
        /\ registry.entry.production # NoPath => inProduction # {}

\* A version is registered after its model has been written: the file of every version in the
\* registry, and of every version a handler may ask for, exists.
RegisteredFilesExist ==
    /\ \A v \in registry.entry.versions : files[v.path] # NoFile
    /\ tm.entry.production # NoPath => files[tm.entry.production] # NoFile

\* "Promote a version to production" and "Trading engine will use the new model on next
\* restart.": the model that filters the signals is of a version that was promoted.
OnlyPromotedServes == tm.model # NoFile => tm.model \in promoted
=============================================================================
