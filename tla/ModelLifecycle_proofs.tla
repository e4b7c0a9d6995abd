----------------------- MODULE ModelLifecycle_proofs -----------------------
(***************************************************************************)
(* Proofs about ModelLifecycle for any number of overlapping trainings,    *)
(* days and deaths: types, what only stale saves lose, one version in      *)
(* production, and a file for every registered version.                    *)
(*                                                                         *)
(* Programs hold copies of the registry and write them back, so the        *)
(* properties of the registry are properties of every copy (Sound).        *)
(***************************************************************************)
EXTENDS ModelLifecycle, TLAPS

-----------------------------------------------------------------------------
(* One entry of the registry, wherever it is held. *)

Nums(e) == {0} \cup {v.num : v \in e.versions}

\* There is a largest number, or NextNumber would be any number.
HasTop(e) == \E m \in Nums(e) : \A n \in Nums(e) : m >= n

Distinct(e) == \A v, w \in e.versions : v.num = w.num => v = w

Productive(e) == {v \in e.versions : v.status = "production"}

OnlyOne(e) ==
    /\ \A v, w \in Productive(e) : v.num = w.num
    /\ \A v \in Productive(e) : v.path = e.production
    /\ e.production # NoPath => Productive(e) # {}

Sound(e) == e \in Entry /\ HasTop(e) /\ Distinct(e) /\ OnlyOne(e)

\* Its files exist among fs.
Backed(fs, e) ==
    /\ \A v \in e.versions : fs[v.path] # NoFile
    /\ e.production # NoPath => fs[e.production] # NoFile

LEMMA EmptySound == Sound(EmptyEntry) /\ \A fs : Backed(fs, EmptyEntry)
<1>1. EmptyEntry.versions = {} /\ EmptyEntry.production = NoPath
  BY DEF EmptyEntry
<1>2. EmptyEntry \in Entry
  BY DEF EmptyEntry, Entry
<1>3. HasTop(EmptyEntry)
  BY <1>1 DEF HasTop, Nums
<1>4. Distinct(EmptyEntry) /\ OnlyOne(EmptyEntry) /\ \A fs : Backed(fs, EmptyEntry)
  BY <1>1 DEF Distinct, OnlyOne, Productive, Backed
<1>5. QED
  BY <1>2, <1>3, <1>4 DEF Sound

\* The number of a new version is larger than all others.
LEMMA NewNumber ==
    ASSUME NEW e \in Entry, HasTop(e)
    PROVE  /\ NextNumber(e) \in Nat
           /\ \A n \in Nums(e) : n < NextNumber(e)
<1>1. Nums(e) \subseteq Nat
  BY DEF Nums, Entry, Version
<1>2. PICK m \in Nums(e) : \A n \in Nums(e) : m >= n
  BY DEF HasTop
<1>3. /\ Max(Nums(e)) \in Nums(e)
      /\ \A n \in Nums(e) : Max(Nums(e)) >= n
  BY <1>2 DEF Max
<1>4. NextNumber(e) = Max(Nums(e)) + 1
  BY DEF NextNumber, Nums
<1>5. QED
  BY <1>1, <1>3, <1>4

LEMMA RegisteredSound ==
    ASSUME NEW e, Sound(e), NEW path \in Paths, NEW run \in Runs
    PROVE  Sound(Registered(e, path, run))
<1> DEFINE v == [num |-> NextNumber(e), path |-> path, status |-> "candidate", run |-> run]
           f == Registered(e, path, run)
<1>1. e \in Entry /\ HasTop(e) /\ Distinct(e) /\ OnlyOne(e)
  BY DEF Sound
<1>2. NextNumber(e) \in Nat /\ \A n \in Nums(e) : n < NextNumber(e)
  BY <1>1, NewNumber
<1>3. /\ f.versions = e.versions \cup {v} /\ f.production = e.production
      /\ v.num = NextNumber(e) /\ v.status = "candidate"
  BY <1>1 DEF Registered, Entry
<1>4. v \in Version
  BY <1>2 DEF Version
<1>5. f \in Entry
  BY <1>1, <1>4 DEF Registered, Entry
<1>6. HasTop(f)
  <2>1. Nums(f) = Nums(e) \cup {NextNumber(e)}
    BY <1>3 DEF Nums
  <2>2. Nums(e) \subseteq Nat
    BY <1>1 DEF Nums, Entry, Version
  <2>3. QED
    BY <1>2, <2>1, <2>2 DEF HasTop
<1>7. Distinct(f)
  <2>1. \A w \in e.versions : w.num \in Nums(e) /\ w.num \in Nat
    BY <1>1 DEF Nums, Entry, Version
  <2>2. \A w \in e.versions : w.num # v.num
    BY <1>2, <1>3, <2>1
  <2>3. QED
    BY <1>1, <1>3, <2>2 DEF Distinct
<1>8. OnlyOne(f)
  <2>1. Productive(f) = Productive(e)
    BY <1>3 DEF Productive
  <2>2. QED
    BY <1>1, <1>3, <2>1 DEF OnlyOne
<1>9. QED
  BY <1>5, <1>6, <1>7, <1>8 DEF Sound

-----------------------------------------------------------------------------
(* A promotion changes statuses only. *)

\* What becomes of one version.
Demoted(e, v) ==
    IF v.path = e.production /\ v.status = "production" THEN [v EXCEPT !.status = "archived"] ELSE v
Raised(e, v, w) ==
    IF Demoted(e, w).num = v.num THEN [Demoted(e, w) EXCEPT !.status = "production"] ELSE Demoted(e, w)

LEMMA OneRaised ==
    ASSUME NEW e, Sound(e), NEW v \in e.versions, NEW w \in e.versions
    PROVE  /\ Raised(e, v, w) \in Version
           /\ Raised(e, v, w).num = w.num /\ Raised(e, v, w).path = w.path
           /\ Raised(e, v, w).run = w.run
           /\ Raised(e, v, w).status = "production" <=> w = v
<1>1. v \in Version /\ w \in Version /\ (v.num = w.num => v = w)
  BY DEF Sound, Entry, Distinct
<1>2. w.status = "production" => w.path = e.production
  BY DEF Sound, OnlyOne, Productive
<1>3. /\ Demoted(e, w) \in Version /\ Demoted(e, w).num = w.num /\ Demoted(e, w).path = w.path
      /\ Demoted(e, w).run = w.run /\ Demoted(e, w).status # "production"
  <2>1. CASE w.path = e.production /\ w.status = "production"
    BY <2>1, <1>1 DEF Demoted, Version
  <2>2. CASE ~(w.path = e.production /\ w.status = "production")
    BY <2>2, <1>1, <1>2 DEF Demoted
  <2>3. QED
    BY <2>1, <2>2
<1>4. CASE w.num = v.num
  BY <1>1, <1>3, <1>4 DEF Raised, Version
<1>5. CASE w.num # v.num
  BY <1>3, <1>5 DEF Raised
<1>6. QED
  BY <1>4, <1>5

LEMMA PromotedIs ==
    ASSUME NEW e, NEW v \in e.versions
    PROVE  /\ Promoted(e, v).versions = {Raised(e, v, w) : w \in e.versions}
           /\ Promoted(e, v).production = v.path
<1>1. Archived(e) = {Demoted(e, w) : w \in e.versions}
  BY DEF Archived, Demoted
<1> DEFINE raise(x) == IF x.num = v.num THEN [x EXCEPT !.status = "production"] ELSE x
<1>2. Promoted(e, v) = [versions |-> {raise(x) : x \in Archived(e)}, production |-> v.path]
  BY DEF Promoted
<1>3. \A w \in e.versions : Raised(e, v, w) = raise(Demoted(e, w))
  BY DEF Raised
<1> HIDE DEF raise
<1>4. {raise(x) : x \in Archived(e)} = {Raised(e, v, w) : w \in e.versions}
  BY <1>1, <1>3
<1>5. QED
  BY <1>2, <1>4

LEMMA PromotedSound ==
    ASSUME NEW e, Sound(e), NEW v \in e.versions
    PROVE  Sound(Promoted(e, v))
<1> DEFINE f == Promoted(e, v)
           raised(w) == Raised(e, v, w)
<1>1. f.versions = {raised(w) : w \in e.versions} /\ f.production = v.path
  BY PromotedIs
<1>2. \A w \in e.versions : /\ raised(w) \in Version
                            /\ raised(w).num = w.num /\ raised(w).path = w.path
                            /\ raised(w).status = "production" <=> w = v
  BY OneRaised
<1>3. e \in Entry /\ HasTop(e) /\ Distinct(e)
  BY DEF Sound
<1> HIDE DEF raised
<1>4. v.path \in Paths
  BY <1>3 DEF Entry, Version
<1>5. f \in Entry
  <2>1. f.versions \in SUBSET Version
    BY <1>1, <1>2
  <2>2. f = [versions |-> f.versions, production |-> f.production]
    BY DEF Promoted
  <2>3. QED
    BY <1>1, <1>4, <2>1, <2>2 DEF Entry
<1>6. HasTop(f)
  <2>1. Nums(f) = Nums(e)
    BY <1>1, <1>2 DEF Nums
  <2>2. QED
    BY <1>3, <2>1 DEF HasTop
<1>7. Distinct(f)
  BY <1>1, <1>2, <1>3 DEF Distinct
<1>8. Productive(f) = {raised(v)}
  BY <1>1, <1>2 DEF Productive
<1>9. OnlyOne(f)
  BY <1>1, <1>2, <1>8 DEF OnlyOne
<1>10. QED
  BY <1>5, <1>6, <1>7, <1>9 DEF Sound

LEMMA PromotedBacked ==
    ASSUME NEW fs, NEW e, Sound(e), Backed(fs, e), NEW v \in e.versions
    PROVE  Backed(fs, Promoted(e, v))
<1>1. /\ Promoted(e, v).versions = {Raised(e, v, w) : w \in e.versions}
      /\ Promoted(e, v).production = v.path
  BY PromotedIs
<1>2. \A w \in e.versions : Raised(e, v, w).path = w.path
  BY OneRaised
<1>3. QED
  BY <1>1, <1>2 DEF Backed

LEMMA RegisteredBacked ==
    ASSUME NEW fs, NEW e \in Entry, Backed(fs, e), NEW path \in Paths, NEW run, fs[path] # NoFile
    PROVE  Backed(fs, Registered(e, path, run))
<1> DEFINE v == [num |-> NextNumber(e), path |-> path, status |-> "candidate", run |-> run]
           f == Registered(e, path, run)
<1>1. f.versions = e.versions \cup {v} /\ f.production = e.production /\ v.path = path
  BY DEF Registered, Entry
<1>2. QED
  BY <1>1 DEF Backed

\* No file ever disappears.
LEMMA StaysBacked ==
    ASSUME NEW fs, NEW gs, NEW e \in Entry, Backed(fs, e),
           \A path \in Paths : fs[path] # NoFile => gs[path] # NoFile
    PROVE  Backed(gs, e)
BY DEF Backed, Entry, Version

-----------------------------------------------------------------------------
(* The inductive invariant: every copy of the entry that may be written back *)
(* is sound and backed, and a training past its dump has its file.           *)

ProcType == [pc : {"idle", "dump", "dumping", "register", "save", "write", "report"},
             run : Runs \cup {0}, path : Paths \cup {NoPath}, entry : Entry]

ProcOK(fs, r) ==
    /\ r \in ProcType
    /\ r.pc \in {"save", "write"} => Sound(r.entry) /\ Backed(fs, r.entry)
    /\ r.pc \in {"dump", "dumping", "register", "save", "write"} => r.run \in Runs
    /\ r.pc \in {"dumping", "register"} => r.path \in Paths /\ fs[r.path] # NoFile

Procs == \A p \in Writers : ProcOK(files, proc[p])

Copies == /\ Sound(registry.entry) /\ Backed(files, registry.entry)
          /\ Backed(files, tm.entry)

LInv == WorkTypeOK /\ Copies /\ Procs

LEMMA IdleOK == \A fs : ProcOK(fs, Idle)
<1>1. EmptyEntry \in Entry
  BY EmptySound DEF Sound
<1>2. QED
  BY <1>1 DEF ProcOK, ProcType, Idle

\* One program moves and the files stay.
LEMMA OneMoves ==
    ASSUME NEW fs, NEW f \in [Writers -> ProcType], \A q \in Writers : ProcOK(fs, f[q]),
           NEW p \in Writers, NEW r, ProcOK(fs, r)
    PROVE  /\ [f EXCEPT ![p] = r] \in [Writers -> ProcType]
           /\ \A q \in Writers : ProcOK(fs, [f EXCEPT ![p] = r][q])
<1>1. r \in ProcType
  BY DEF ProcOK
<1>2. QED
  BY <1>1

\* A file is written and the programs stay.
LEMMA FilesMove ==
    ASSUME NEW fs, NEW gs, NEW r, ProcOK(fs, r),
           \A path \in Paths : fs[path] # NoFile => gs[path] # NoFile
    PROVE  ProcOK(gs, r)
<1>1. r.pc \in {"save", "write"} => Backed(gs, r.entry)
  BY StaysBacked DEF ProcOK, ProcType
<1>2. QED
  BY <1>1 DEF ProcOK

LEMMA LoadedSound ==
    ASSUME LInv PROVE Sound(Loaded) /\ Backed(files, Loaded)
BY EmptySound DEF LInv, Copies, Loaded

LEMMA LInit == MlInit => LInv
<1> SUFFICES ASSUME MlInit PROVE LInv
  OBVIOUS
<1>1. EmptyEntry \in Entry /\ Sound(EmptyEntry) /\ Backed(files, EmptyEntry)
  BY EmptySound DEF Sound
<1>2. proc \in [Writers -> ProcType] /\ Procs
  BY IdleOK DEF MlInit, Procs, ProcOK
<1>3. Copies
  BY <1>1 DEF MlInit, Copies, Down
<1>4. WorkTypeOK
  BY <1>1, <1>2, LifecycleAssumption
     DEF MlInit, WorkTypeOK, ProcType, Paths, FileStates, Down, NoFile
<1>5. QED
  BY <1>2, <1>3, <1>4 DEF LInv

-----------------------------------------------------------------------------
(* Steps *)

LEMMA Collecting ==
    ASSUME LInv, CollectOpen \/ CollectFlush \/ CollectWrite
    PROVE  LInv'
<1> USE DEF LInv, WorkTypeOK, FileStates
<1>1. UNCHANGED <<today, files, registry, proc, tm, trained, promoted, deaths>>
  BY DEF CollectOpen, CollectFlush, CollectWrite
<1>2. Copies' /\ Procs'
  BY <1>1 DEF Copies, Procs
<1>3. dataset' \in FileStates /\ collector' \in [pc : {"idle", "write"}, base : FileStates]
  <2>1. CASE CollectOpen
    BY <2>1 DEF CollectOpen
  <2>2. CASE CollectFlush
    BY <2>2 DEF CollectFlush
  <2>3. CASE CollectWrite
    BY <2>3 DEF CollectWrite
  <2>4. QED
    BY <2>1, <2>2, <2>3
<1>4. QED
  BY <1>1, <1>2, <1>3

\* A step of one program that leaves files, registry and handler alone.
LEMMA ProgramMoves ==
    ASSUME LInv, NEW p \in Writers, NEW r, ProcOK(files, r),
           proc' = [proc EXCEPT ![p] = r],
           UNCHANGED <<today, dataset, collector, files, registry, tm>>,
           trained' \in 0 .. MaxRuns, promoted' \subseteq Runs, deaths' \in 0 .. MaxDeaths
    PROVE  LInv'
<1>1. proc \in [Writers -> ProcType] /\ \A q \in Writers : ProcOK(files, proc[q])
  BY DEF LInv, WorkTypeOK, ProcType, Procs
<1>2. proc' \in [Writers -> ProcType] /\ \A q \in Writers : ProcOK(files, proc'[q])
  BY <1>1, OneMoves
<1>3. Procs' /\ Copies'
  BY <1>2 DEF Procs, LInv, Copies
<1>4. WorkTypeOK'
  BY <1>2 DEF LInv, WorkTypeOK, ProcType
<1>5. QED
  BY <1>3, <1>4 DEF LInv

LEMMA ProcFacts ==
    ASSUME LInv, NEW p \in Writers
    PROVE  ProcOK(files, proc[p]) /\ proc[p] \in ProcType /\ proc \in [Writers -> ProcType]
BY DEF LInv, Procs, WorkTypeOK, ProcType

LEMMA Counters ==
    ASSUME LInv
    PROVE  /\ trained \in 0 .. MaxRuns /\ promoted \subseteq Runs /\ deaths \in 0 .. MaxDeaths
           /\ MaxRuns \in Nat /\ MaxDeaths \in Nat
           /\ today \in Paths /\ files \in [Paths -> Runs \cup {NoFile, Broken}]
           /\ registry \in [state : FileStates, entry : Entry]
           /\ tm \in [up : BOOLEAN, entry : Entry, model : Runs \cup {NoFile}]
BY LifecycleAssumption DEF LInv, WorkTypeOK

LEMMA Fitting ==
    ASSUME LInv, NEW t \in Trainers, Fit(t)
    PROVE  LInv'
<1> DEFINE r == [Idle EXCEPT !.pc = "dump", !.run = trained + 1]
<1>1. t \in Writers
  BY DEF Writers
<1>2. trained + 1 \in Runs /\ trained' \in 0 .. MaxRuns
  BY Counters DEF Fit, Runs
<1>3. ProcOK(files, r)
  <2>1. ProcOK(files, Idle)
    BY IdleOK
  <2>2. QED
    BY <1>2, <2>1 DEF ProcOK, ProcType, Idle
<1>4. proc' = [proc EXCEPT ![t] = r]
  BY DEF Fit
<1>5. QED
  BY <1>1, <1>2, <1>3, <1>4, ProgramMoves, Counters DEF Fit

LEMMA Registering ==
    ASSUME LInv, NEW t \in Trainers, RegisterVersion(t)
    PROVE  LInv'
<1> DEFINE e == Registered(Loaded, proc[t].path, proc[t].run)
           r == IF Readable THEN [proc[t] EXCEPT !.pc = "save", !.entry = e] ELSE Idle
<1>1. t \in Writers
  BY DEF Writers
<1>2. /\ proc[t] \in ProcType /\ proc[t].run \in Runs
      /\ proc[t].path \in Paths /\ files[proc[t].path] # NoFile
  BY <1>1, ProcFacts DEF ProcOK, RegisterVersion
<1>3. Sound(e) /\ Backed(files, e) /\ e \in Entry
  BY <1>2, LoadedSound, RegisteredSound, RegisteredBacked DEF Sound
<1>4. ProcOK(files, r)
  <2>1. CASE Readable
    <3> DEFINE q == [proc[t] EXCEPT !.pc = "save", !.entry = e]
    <3> HIDE DEF e
    <3>1. q \in ProcType /\ q.pc = "save" /\ q.entry = e /\ q.run = proc[t].run
      BY <1>2, <1>3 DEF ProcType
    <3>2. ProcOK(files, q)
      BY <3>1, <1>2, <1>3 DEF ProcOK
    <3>3. QED
      BY <2>1, <3>2
  <2>2. CASE ~Readable
    BY <2>2, IdleOK
  <2>3. QED
    BY <2>1, <2>2
<1>5. proc' = [proc EXCEPT ![t] = r]
  BY DEF RegisterVersion
<1>6. QED
  BY <1>1, <1>4, <1>5, ProgramMoves, Counters DEF RegisterVersion

LEMMA Promoting ==
    ASSUME LInv, PromoteVersion
    PROVE  LInv'
<1>1. PICK v \in Loaded.versions :
          proc' = [proc EXCEPT ![Promoter] =
                      [pc |-> "save", run |-> v.run, path |-> v.path, entry |-> Promoted(Loaded, v)]]
  BY DEF PromoteVersion
<1> DEFINE e == Promoted(Loaded, v)
           r == [pc |-> "save", run |-> v.run, path |-> v.path, entry |-> e]
<1>2. v.run \in Runs /\ v.path \in Paths
  BY LoadedSound DEF Sound, Entry, Version
<1>3. Sound(e) /\ Backed(files, e) /\ e \in Entry
  BY LoadedSound, PromotedSound, PromotedBacked DEF Sound
<1>4. ProcOK(files, r)
  <2> HIDE DEF e
  <2>1. QED
    BY <1>2, <1>3 DEF ProcOK, ProcType
<1>5. Promoter \in Writers
  BY DEF Writers
<1>6. QED
  BY <1>1, <1>4, <1>5, ProgramMoves, Counters DEF PromoteVersion

LEMMA Reporting ==
    ASSUME LInv, ReportPromotion
    PROVE  LInv'
<1>1. Promoter \in Writers
  BY DEF Writers
<1>2. QED
  BY <1>1, IdleOK, ProgramMoves, Counters DEF ReportPromotion

LEMMA Opening ==
    ASSUME LInv, NEW p \in Writers, SaveOpen(p)
    PROVE  LInv'
<1> DEFINE r == [proc[p] EXCEPT !.pc = "write"]
<1>1. ProcOK(files, proc[p]) /\ proc[p] \in ProcType /\ proc \in [Writers -> ProcType]
  BY ProcFacts
<1>2. ProcOK(files, r)
  BY <1>1 DEF ProcOK, ProcType, SaveOpen
<1>3. proc' = [proc EXCEPT ![p] = r]
  BY <1>1 DEF SaveOpen
<1>4. proc' \in [Writers -> ProcType] /\ \A q \in Writers : ProcOK(files, proc'[q])
  <2> HIDE DEF r
  <2>1. \A q \in Writers : ProcOK(files, proc[q])
    BY DEF LInv, Procs
  <2>2. QED
    BY <1>1, <1>2, <1>3, <2>1, OneMoves
<1>5. registry'.entry = registry.entry /\ registry' \in [state : FileStates, entry : Entry]
  BY Counters DEF SaveOpen, FileStates
<1>6. Copies' /\ Procs'
  BY <1>4, <1>5 DEF SaveOpen, LInv, Copies, Procs
<1>7. WorkTypeOK'
  BY <1>4, <1>5 DEF SaveOpen, LInv, WorkTypeOK, ProcType
<1>8. QED
  BY <1>6, <1>7 DEF LInv

LEMMA Writing ==
    ASSUME LInv, NEW p \in Writers, SaveWrite(p)
    PROVE  LInv'
<1> DEFINE r == IF p = Promoter THEN [proc[p] EXCEPT !.pc = "report"] ELSE Idle
<1>1. ProcOK(files, proc[p]) /\ proc[p] \in ProcType /\ proc \in [Writers -> ProcType]
  BY ProcFacts
<1>2. ProcOK(files, r)
  <2>1. CASE p = Promoter
    BY <1>1, <2>1 DEF ProcOK, ProcType
  <2>2. CASE p # Promoter
    BY <2>2, IdleOK
  <2>3. QED
    BY <2>1, <2>2
<1>3. proc' = [proc EXCEPT ![p] = r]
  BY <1>1 DEF SaveWrite
<1>4. proc' \in [Writers -> ProcType] /\ \A q \in Writers : ProcOK(files, proc'[q])
  <2> HIDE DEF r
  <2>1. \A q \in Writers : ProcOK(files, proc[q])
    BY DEF LInv, Procs
  <2>2. QED
    BY <1>1, <1>2, <1>3, <2>1, OneMoves
<1>5. /\ registry' \in [state : FileStates, entry : Entry]
      /\ registry'.entry \in {registry.entry, proc[p].entry}
  BY <1>1, Counters DEF SaveWrite, FileStates, ProcType
<1>6. Sound(proc[p].entry) /\ Backed(files, proc[p].entry) /\ proc[p].run \in Runs
  BY <1>1 DEF ProcOK, SaveWrite
<1>7. Copies' /\ Procs'
  BY <1>4, <1>5, <1>6 DEF SaveWrite, LInv, Copies, Procs
<1>8. promoted' \subseteq Runs
  BY <1>6, Counters DEF SaveWrite
<1>9. WorkTypeOK'
  BY <1>4, <1>5, <1>8 DEF SaveWrite, LInv, WorkTypeOK, ProcType
<1>10. QED
  BY <1>7, <1>9 DEF LInv

\* A step that writes a model file, and has it in hand afterwards.
LEMMA FileWritten ==
    ASSUME LInv, NEW t \in Trainers, NEW path \in Paths, NEW x \in Runs \cup {Broken},
           NEW r, ProcOK([files EXCEPT ![path] = x], r),
           files' = [files EXCEPT ![path] = x], proc' = [proc EXCEPT ![t] = r],
           UNCHANGED <<today, dataset, collector, registry, tm, trained, promoted, deaths>>
    PROVE  LInv'
<1>1. files \in [Paths -> Runs \cup {NoFile, Broken}] /\ t \in Writers
  BY Counters DEF Writers
<1>2. files' \in [Paths -> Runs \cup {NoFile, Broken}]
  BY <1>1
<1>3. \A q \in Paths : files[q] # NoFile => files'[q] # NoFile
  BY <1>1 DEF NoFile, Broken, Runs
<1>4. proc \in [Writers -> ProcType] /\ \A q \in Writers : ProcOK(files', proc[q])
  BY <1>3, ProcFacts, FilesMove DEF LInv, Procs, WorkTypeOK, ProcType
<1>5. proc' \in [Writers -> ProcType] /\ \A q \in Writers : ProcOK(files', proc'[q])
  BY <1>1, <1>4, OneMoves
<1>6. Backed(files', registry.entry) /\ Backed(files', tm.entry)
  BY <1>3, StaysBacked, Counters DEF LInv, Copies
<1>7. Copies' /\ Procs'
  BY <1>5, <1>6 DEF LInv, Copies, Procs
<1>8. WorkTypeOK'
  BY <1>2, <1>5 DEF LInv, WorkTypeOK, ProcType
<1>9. QED
  BY <1>7, <1>8 DEF LInv

LEMMA Dumping ==
    ASSUME LInv, NEW t \in Trainers, DumpOpen(t)
    PROVE  LInv'
<1> DEFINE r == [proc[t] EXCEPT !.pc = "dumping", !.path = today]
           fs == [files EXCEPT ![today] = Broken]
<1>1. ProcOK(files, proc[t]) /\ proc[t] \in ProcType /\ proc[t].run \in Runs
  BY ProcFacts DEF Writers, DumpOpen, ProcOK
<1>2. fs[today] # NoFile
  BY Counters DEF Broken, NoFile
<1>3. ProcOK(fs, r)
  BY <1>1, <1>2, Counters DEF ProcOK, ProcType
<1>4. proc' = [proc EXCEPT ![t] = r]
  BY DEF DumpOpen
<1>5. QED
  BY <1>3, <1>4, FileWritten, Counters DEF DumpOpen

LEMMA Dumped ==
    ASSUME LInv, NEW t \in Trainers, DumpWrite(t)
    PROVE  LInv'
<1> DEFINE path == proc[t].path
           r == [proc[t] EXCEPT !.pc = "register"]
<1>1. /\ proc[t] \in ProcType /\ proc[t].run \in Runs
      /\ path \in Paths /\ files[path] # NoFile
  BY ProcFacts DEF Writers, DumpWrite, ProcOK
<1>2. PICK x \in Runs \cup {Broken} : files' = [files EXCEPT ![path] = x]
  BY <1>1 DEF DumpWrite
<1> DEFINE fs == [files EXCEPT ![path] = x]
<1>3. fs[path] # NoFile
  BY <1>1, Counters DEF Broken, NoFile, Runs
<1>4. ProcOK(fs, r)
  <2> HIDE DEF fs
  <2>1. QED
    BY <1>1, <1>3 DEF ProcOK, ProcType
<1>5. proc' = [proc EXCEPT ![t] = r]
  BY DEF DumpWrite
<1>6. QED
  BY <1>1, <1>2, <1>4, <1>5, FileWritten DEF DumpWrite

LEMMA Serving ==
    ASSUME LInv, StartHandler \/ GetProductionModel \/ StopHandler
    PROVE  LInv'
<1>1. UNCHANGED <<today, dataset, collector, files, registry, proc, trained, promoted, deaths>>
  BY DEF StartHandler, GetProductionModel, StopHandler
<1>2. Down \in [up : BOOLEAN, entry : Entry, model : Runs \cup {NoFile}] /\ Backed(files, Down.entry)
  BY EmptySound DEF Down, Sound
<1>3. Loaded \in Entry /\ Backed(files, Loaded)
  BY LoadedSound DEF Sound
<1>4. tm' \in [up : BOOLEAN, entry : Entry, model : Runs \cup {NoFile}] /\ Backed(files, tm'.entry)
  <2>1. CASE StartHandler
    BY <2>1, <1>2, <1>3 DEF StartHandler
  <2>2. CASE GetProductionModel
    <3>1. tm.entry.production \in Paths
      BY <2>2, Counters DEF GetProductionModel, Entry
    <3>2. files[tm.entry.production] \in Runs
      BY <2>2, <3>1, Counters DEF GetProductionModel
    <3>3. QED
      BY <2>2, <3>2, Counters DEF GetProductionModel, LInv, Copies
  <2>3. CASE StopHandler
    BY <2>3, <1>2 DEF StopHandler
  <2>4. QED
    BY <2>1, <2>2, <2>3
<1>5. Copies' /\ Procs'
  BY <1>1, <1>4 DEF LInv, Copies, Procs
<1>6. WorkTypeOK'
  BY <1>1, <1>4 DEF LInv, WorkTypeOK
<1>7. QED
  BY <1>5, <1>6 DEF LInv

LEMMA Passing ==
    ASSUME LInv, NextDay
    PROVE  LInv'
<1>1. today' \in Paths
  BY Counters, LifecycleAssumption DEF NextDay, Paths
<1>2. Copies' /\ Procs'
  BY DEF NextDay, LInv, Copies, Procs
<1>3. WorkTypeOK'
  BY <1>1 DEF NextDay, LInv, WorkTypeOK
<1>4. QED
  BY <1>2, <1>3 DEF LInv

LEMMA Dying ==
    ASSUME LInv, Die
    PROVE  LInv'
<1>1. deaths' \in 0 .. MaxDeaths
  BY Counters DEF Die
<1>2. CASE \E p \in Writers : proc[p].pc # "idle" /\ proc' = [proc EXCEPT ![p] = Idle] /\ UNCHANGED collector
  BY <1>1, <1>2, IdleOK, ProgramMoves, Counters DEF Die
<1>3. CASE collector' = [pc |-> "idle", base |-> "missing"] /\ UNCHANGED proc
  <2>1. Copies' /\ Procs'
    BY <1>3 DEF Die, LInv, Copies, Procs
  <2>2. WorkTypeOK'
    BY <1>1, <1>3 DEF Die, LInv, WorkTypeOK, FileStates
  <2>3. QED
    BY <2>1, <2>2 DEF LInv
<1>4. QED
  BY <1>2, <1>3 DEF Die

LEMMA LStep == LInv /\ [MlNext]_mlVars => LInv'
<1> SUFFICES ASSUME LInv, [MlNext]_mlVars PROVE LInv'
  OBVIOUS
<1>1. CASE CollectOpen \/ CollectFlush \/ CollectWrite
  BY <1>1, Collecting
<1>2. ASSUME NEW t \in Trainers, TrainModel(t) PROVE LInv'
  BY <1>2, Fitting, Dumping, Dumped, Registering DEF TrainModel
<1>3. CASE PromoteVersion \/ ReportPromotion
  BY <1>3, Promoting, Reporting
<1>4. ASSUME NEW p \in Writers, SaveOpen(p) \/ SaveWrite(p) PROVE LInv'
  BY <1>4, Opening, Writing
<1>5. CASE StartHandler \/ GetProductionModel \/ StopHandler
  BY <1>5, Serving
<1>6. CASE NextDay \/ Die
  BY <1>6, Passing, Dying
<1>7. CASE UNCHANGED mlVars
  BY <1>7 DEF mlVars, LInv, WorkTypeOK, Copies, Procs
<1>8. QED
  BY <1>1, <1>2, <1>3, <1>4, <1>5, <1>6, <1>7 DEF MlNext

LEMMA LInvariant == MlSpec => []LInv
<1>1. QED
  BY LInit, LStep, PTL DEF MlSpec

-----------------------------------------------------------------------------
(* The versions ever saved.  A copy that is not stale has every version of   *)
(* the registry, so what it adds has a new number and its save keeps all.    *)

Fresh(p) == proc[p].pc \in {"save", "write"} /\ p \notin stale

SInv ==
    /\ SavesTypeOK
    /\ ~lossy => numbered = Numbered(registry.entry) /\ registry.state # "torn"
    /\ registry.state = "missing" => registry.entry = EmptyEntry
    /\ \A p \in Writers : Fresh(p) =>
          /\ Numbered(registry.entry) \subseteq Numbered(proc[p].entry)
          /\ proc[p].pc = "write" => registry.state = "empty"

LEMMA NumberedTyped ==
    ASSUME NEW e \in Entry PROVE Numbered(e) \subseteq [num : Nat, run : Runs]
BY DEF Numbered, Entry, Version

LEMMA RegisteredKeeps ==
    ASSUME NEW e \in Entry, NEW path, NEW run
    PROVE  Numbered(e) \subseteq Numbered(Registered(e, path, run))
<1>1. e.versions \subseteq Registered(e, path, run).versions
  BY DEF Registered, Entry
<1>2. QED
  BY <1>1 DEF Numbered

LEMMA PromotedKeeps ==
    ASSUME NEW e, Sound(e), NEW v \in e.versions
    PROVE  Numbered(e) \subseteq Numbered(Promoted(e, v))
<1> SUFFICES ASSUME NEW w \in e.versions
             PROVE  [num |-> w.num, run |-> w.run] \in Numbered(Promoted(e, v))
  BY DEF Numbered
<1>1. Raised(e, v, w) \in Promoted(e, v).versions
  BY PromotedIs
<1>2. Raised(e, v, w).num = w.num /\ Raised(e, v, w).run = w.run
  BY OneRaised
<1>3. QED
  BY <1>1, <1>2 DEF Numbered

\* A registry that loads is the last one saved.
LEMMA LoadedLast ==
    ASSUME SInv, Readable PROVE Loaded = registry.entry
BY DEF SInv, Readable, Loaded

LEMMA SInit == MlInit => SInv
<1> SUFFICES ASSUME MlInit PROVE SInv
  OBVIOUS
<1>1. Numbered(EmptyEntry) = {}
  BY DEF Numbered, EmptyEntry
<1>2. QED
  BY <1>1 DEF MlInit, SInv, SavesTypeOK, Fresh, Idle

\* A step that saves nothing, and after which no other program is about to save.
LEMMA NothingSaved ==
    ASSUME SInv, UNCHANGED <<registry, numbered, lossy>>, stale' \subseteq stale,
           \A p \in Writers : Fresh(p)' =>
               \/ Fresh(p) /\ proc'[p] = proc[p]
               \/ /\ Numbered(registry.entry) \subseteq Numbered(proc'[p].entry)
                  /\ proc'[p].pc = "save"
    PROVE  SInv'
<1>1. SavesTypeOK'
  BY DEF SInv, SavesTypeOK
<1>2. \A p \in Writers : Fresh(p)' =>
          /\ Numbered(registry.entry) \subseteq Numbered(proc'[p].entry)
          /\ proc'[p].pc = "write" => registry.state = "empty"
  BY DEF SInv
<1>3. QED
  BY <1>1, <1>2 DEF SInv

LEMMA SLoading ==
    ASSUME LInv, SInv, NEW t \in Writers,
           \/ t \in Trainers /\ RegisterVersion(t)
           \/ t = Promoter /\ PromoteVersion
    PROVE  SInv'
<1>1. proc \in [Writers -> ProcType]
  BY ProcFacts DEF LInv, WorkTypeOK, ProcType
<1>2. \A p \in Writers \ {t} : proc'[p] = proc[p]
  BY <1>1 DEF RegisterVersion, PromoteVersion
<1>3. proc'[t].pc \in {"save", "write"} =>
          /\ Numbered(registry.entry) \subseteq Numbered(proc'[t].entry)
          /\ proc'[t].pc = "save"
  <2>1. CASE t \in Trainers /\ RegisterVersion(t)
    <3>1. CASE Readable
      <4> DEFINE e == Registered(Loaded, proc[t].path, proc[t].run)
      <4>1. proc'[t].entry = e /\ proc'[t].pc = "save"
        <5> HIDE DEF e
        <5>1. proc'[t] = [proc[t] EXCEPT !.pc = "save", !.entry = e]
          BY <1>1, <2>1, <3>1 DEF RegisterVersion, e
        <5>2. proc[t] \in ProcType
          BY <1>1
        <5>3. QED
          BY <5>1, <5>2 DEF ProcType
      <4>2. Numbered(Loaded) \subseteq Numbered(e)
        BY LoadedSound, RegisteredKeeps DEF Sound
      <4>3. QED
        BY <3>1, <4>1, <4>2, LoadedLast
    <3>2. CASE ~Readable
      BY <1>1, <2>1, <3>2 DEF RegisterVersion, Idle
    <3>3. QED
      BY <3>1, <3>2
  <2>2. CASE t = Promoter /\ PromoteVersion
    <3>1. PICK v \in Loaded.versions :
             proc' = [proc EXCEPT ![Promoter] =
                 [pc |-> "save", run |-> v.run, path |-> v.path, entry |-> Promoted(Loaded, v)]]
      BY <2>2 DEF PromoteVersion
    <3>2. proc'[t].entry = Promoted(Loaded, v) /\ proc'[t].pc = "save"
      BY <1>1, <2>2, <3>1
    <3>3. Numbered(Loaded) \subseteq Numbered(Promoted(Loaded, v))
      BY LoadedSound, PromotedKeeps
    <3>4. QED
      BY <2>2, <3>2, <3>3, LoadedLast DEF PromoteVersion
  <2>3. QED
    BY <2>1, <2>2
<1>4. stale' = stale \ {t} /\ UNCHANGED <<registry, numbered, lossy>>
  BY DEF RegisterVersion, PromoteVersion
<1>5. \A p \in Writers : Fresh(p)' =>
          \/ Fresh(p) /\ proc'[p] = proc[p]
          \/ /\ Numbered(registry.entry) \subseteq Numbered(proc'[p].entry)
             /\ proc'[p].pc = "save"
  BY <1>2, <1>3, <1>4 DEF Fresh
<1>6. QED
  BY <1>4, <1>5, NothingSaved

\* A step that neither loads nor saves: no copy changes, and none is new.
LEMMA SOthers ==
    ASSUME LInv, SInv, [MlNext]_mlVars,
           \A t \in Trainers : ~RegisterVersion(t), ~PromoteVersion,
           \A p \in Writers : ~SaveOpen(p) /\ ~SaveWrite(p)
    PROVE  SInv'
<1>1. proc \in [Writers -> ProcType]
  BY DEF LInv, WorkTypeOK, ProcType
<1>2. UNCHANGED <<registry, numbered, lossy, stale>>
  BY DEF MlNext, TrainModel, CollectOpen, CollectFlush, CollectWrite, Fit, DumpOpen, DumpWrite,
         ReportPromotion, StartHandler, GetProductionModel, StopHandler, NextDay, Die, mlVars, saves
<1>3. \/ UNCHANGED proc
      \/ \E q \in Writers : \E r : /\ r.pc \notin {"save", "write"}
                                  /\ proc' = [proc EXCEPT ![q] = r]
  <2>1. CASE CollectOpen \/ CollectFlush \/ CollectWrite
    BY <2>1 DEF CollectOpen, CollectFlush, CollectWrite
  <2>2. ASSUME NEW t \in Trainers, Fit(t) \/ DumpOpen(t) \/ DumpWrite(t)
        PROVE  \E r : r.pc \notin {"save", "write"} /\ proc' = [proc EXCEPT ![t] = r]
    <3>1. t \in Writers /\ proc[t] \in ProcType
      BY <1>1 DEF Writers
    <3>2. CASE Fit(t)
      <4> DEFINE r == [Idle EXCEPT !.pc = "dump", !.run = trained + 1]
      <4>1. r.pc = "dump"
        BY DEF Idle
      <4>2. proc' = [proc EXCEPT ![t] = r]
        BY <3>2 DEF Fit
      <4>3. QED
        BY <4>1, <4>2
    <3>3. CASE DumpOpen(t)
      <4> DEFINE r == [proc[t] EXCEPT !.pc = "dumping", !.path = today]
      <4>1. r.pc = "dumping"
        BY <3>1 DEF ProcType
      <4>2. proc' = [proc EXCEPT ![t] = r]
        BY <3>3 DEF DumpOpen
      <4>3. QED
        BY <4>1, <4>2
    <3>4. CASE DumpWrite(t)
      <4> DEFINE r == [proc[t] EXCEPT !.pc = "register"]
      <4>1. r.pc = "register"
        BY <3>1 DEF ProcType
      <4>2. proc' = [proc EXCEPT ![t] = r]
        BY <3>4 DEF DumpWrite
      <4>3. QED
        BY <4>1, <4>2
    <3>5. QED
      BY <2>2, <3>2, <3>3, <3>4
  <2>3. CASE ReportPromotion
    BY <2>3 DEF ReportPromotion, Writers, Idle
  <2>4. CASE StartHandler \/ GetProductionModel \/ StopHandler \/ NextDay \/ UNCHANGED mlVars
    BY <2>4 DEF StartHandler, GetProductionModel, StopHandler, NextDay, mlVars
  <2>5. CASE Die
    BY <2>5 DEF Die, Idle
  <2>6. QED
    BY <2>1, <2>2, <2>3, <2>4, <2>5 DEF MlNext, TrainModel, Writers
<1>4. \A p \in Writers : proc'[p].pc \in {"save", "write"} => proc'[p] = proc[p]
  BY <1>1, <1>3
<1>5. \A p \in Writers : Fresh(p)' => Fresh(p) /\ proc'[p] = proc[p]
  BY <1>2, <1>4 DEF Fresh
<1>6. QED
  BY <1>2, <1>5, NothingSaved

LEMMA SOpening ==
    ASSUME LInv, SInv, NEW p \in Writers, SaveOpen(p)
    PROVE  SInv'
<1>1. proc \in [Writers -> ProcType] /\ registry \in [state : FileStates, entry : Entry]
  BY Counters DEF LInv, WorkTypeOK, ProcType
<1>2. registry'.state = "empty" /\ registry'.entry = registry.entry
  BY <1>1 DEF SaveOpen
<1>3. UNCHANGED <<numbered, stale, lossy>> /\ proc[p].pc = "save"
  BY DEF SaveOpen, saves
<1>4. \A q \in Writers : /\ proc'[q].entry = proc[q].entry
                        /\ proc'[q].pc = IF q = p THEN "write" ELSE proc[q].pc
  BY <1>1 DEF SaveOpen, ProcType
<1>5. \A q \in Writers : Fresh(q)' => Numbered(registry'.entry) \subseteq Numbered(proc'[q].entry)
  BY <1>2, <1>3, <1>4 DEF Fresh, SInv
<1>6. SavesTypeOK'
  BY <1>3 DEF SInv, SavesTypeOK
<1>7. QED
  BY <1>2, <1>3, <1>5, <1>6 DEF SInv

\* After a save every other copy is stale.
LEMMA SWriting ==
    ASSUME LInv, SInv, NEW p \in Writers, SaveWrite(p)
    PROVE  SInv'
<1>1. /\ proc \in [Writers -> ProcType] /\ registry \in [state : FileStates, entry : Entry]
      /\ Sound(proc[p].entry) /\ proc[p].entry \in Entry
  BY Counters, ProcFacts DEF LInv, WorkTypeOK, ProcType, ProcOK, SaveWrite, Sound
<1>2. /\ proc[p].pc = "write"
      /\ stale' = {q \in Writers \ {p} : proc[q].pc \in {"save", "write"}}
      /\ lossy' = (lossy \/ p \in stale)
      /\ numbered' = IF registry'.state = "whole" THEN numbered \cup Numbered(proc[p].entry)
                     ELSE numbered
  BY DEF SaveWrite
<1>3. \/ registry'.state = "whole" /\ registry'.entry = proc[p].entry
      \/ registry'.state = "torn" /\ registry.state \in {"whole", "torn"}
         /\ registry'.entry = registry.entry
  BY <1>1 DEF SaveWrite
<1>4. \A q \in Writers : ~Fresh(q)'
  <2>1. \A q \in Writers : q # p => proc'[q] = proc[q]
    BY <1>1 DEF SaveWrite
  <2>2. proc'[p].pc \notin {"save", "write"}
    <3>1. CASE p = Promoter
      <4>1. proc[p] \in ProcType /\ proc'[p] = [proc[p] EXCEPT !.pc = "report"]
        BY <1>1, <3>1 DEF SaveWrite
      <4>2. QED
        BY <4>1 DEF ProcType
    <3>2. CASE p # Promoter
      BY <1>1, <3>2 DEF SaveWrite, Idle
    <3>3. QED
      BY <3>1, <3>2
  <2>3. QED
    BY <1>2, <2>1, <2>2 DEF Fresh
<1>5. SavesTypeOK'
  <2>1. numbered' \subseteq [num : Nat, run : Runs]
    BY <1>1, <1>2, NumberedTyped DEF SInv, SavesTypeOK
  <2>2. stale' \subseteq Writers
    BY <1>2
  <2>3. lossy' \in BOOLEAN
    BY <1>2
  <2>4. QED
    BY <2>1, <2>2, <2>3 DEF SavesTypeOK
<1>6. ~lossy' => numbered' = Numbered(registry'.entry) /\ registry'.state # "torn"
  <2> SUFFICES ASSUME ~lossy, p \notin stale
               PROVE  numbered' = Numbered(registry'.entry) /\ registry'.state # "torn"
    BY <1>2
  <2>1. numbered = Numbered(registry.entry) /\ registry.state # "torn"
    BY DEF SInv
  <2>2. Numbered(registry.entry) \subseteq Numbered(proc[p].entry) /\ registry.state = "empty"
    BY <1>2 DEF Fresh, SInv
  <2>3. CASE registry'.state = "whole" /\ registry'.entry = proc[p].entry
    BY <1>2, <2>1, <2>2, <2>3
  <2>4. QED
    BY <1>3, <2>2, <2>3
<1>7. QED
  BY <1>3, <1>4, <1>5, <1>6 DEF SInv

LEMMA SStep == LInv /\ SInv /\ [MlNext]_mlVars => SInv'
<1> SUFFICES ASSUME LInv, SInv, [MlNext]_mlVars PROVE SInv'
  OBVIOUS
<1>1. CASE \E t \in Trainers : RegisterVersion(t)
  BY <1>1, SLoading DEF Writers
<1>2. CASE PromoteVersion
  BY <1>2, SLoading DEF Writers
<1>3. CASE \E p \in Writers : SaveOpen(p) \/ SaveWrite(p)
  BY <1>3, SOpening, SWriting
<1>4. QED
  BY <1>1, <1>2, <1>3, SOthers

LEMMA SInvariant == MlSpec => []SInv
<1>1. QED
  BY SInit, SStep, LInvariant, PTL DEF MlSpec

-----------------------------------------------------------------------------
(* Theorems *)

\* The files, the registry, the locals of the programs and the history of the saves keep
\* their types.
THEOREM MlTypeCorrect == MlSpec => []MlTypeOK
<1>1. LInv /\ SInv => MlTypeOK
  BY DEF LInv, SInv, MlTypeOK
<1>2. QED
  BY <1>1, LInvariant, SInvariant, PTL

\* As long as no program has written back a registry older than the last one saved, no number
\* was ever given to two trainings and a readable registry has every version ever saved,
\* whatever overlaps and dies.
THEOREM OnlyStaleSaves == MlSpec => []OnlyStaleSavesLose
<1>1. LInv /\ SInv => OnlyStaleSavesLose
  <2> SUFFICES ASSUME LInv, SInv, ~lossy
               PROVE  /\ \A v, w \in numbered : v.num = w.num => v = w
                      /\ numbered = Numbered(registry.entry)
    BY DEF OnlyStaleSavesLose
  <2>1. numbered = Numbered(registry.entry)
    BY DEF SInv
  <2>2. Distinct(registry.entry)
    BY DEF LInv, Copies, Sound
  <2>3. \A v, w \in Numbered(registry.entry) : v.num = w.num => v = w
    BY <2>2 DEF Distinct, Numbered
  <2>4. QED
    BY <2>1, <2>3
<1>2. QED
  BY <1>1, LInvariant, SInvariant, PTL

\* promote_version leaves one version in production, the one whose file the entry names,
\* whichever program saves last.
THEOREM OneInProduction == MlSpec => []OneProduction
<1>1. LInv => OneProduction
  BY DEF LInv, Copies, Sound, OnlyOne, Productive, OneProduction
<1>2. QED
  BY <1>1, LInvariant, PTL

\* A version in the registry, or in the registry a handler has read, has its model file.
THEOREM FilesExist == MlSpec => []RegisteredFilesExist
<1>1. LInv => RegisteredFilesExist
  BY DEF LInv, Copies, Backed, RegisteredFilesExist
<1>2. QED
  BY <1>1, LInvariant, PTL
=============================================================================
