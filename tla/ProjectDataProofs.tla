----------------------------- MODULE ProjectDataProofs -----------------------------
(* What the files of a project hold, for any tasks, chunks, pairs, seeds,  *)
(* configurations and corpora, and any number of operations: the edits,    *)
(* the pairs, the build, the corpora, what an evaluation counts, and the   *)
(* seed that holds its pairs out.                                          *)
EXTENDS ProjectFolderProofs

---------------------------------------------------------------------------
(* What the steps of each operation do, field by field                     *)

Updates == {"set_synth_model", "persist_last_run_id"}

FilesStill == disk' = disk /\ tmp' = tmp
Still == FilesStill /\ dir' = dir /\ told' = told /\ reseeded' = reseeded
DataStill == index' = index /\ trained' = trained /\ flags' = flags /\ calm' = calm

\* What a swap writes of what its task carries.
Lines(j) == IF j.file \in {"sft", "eval"} THEN j.data[j.file] ELSE j.data

SwapOpened(t) ==
  /\ job[t].at = "open" /\ Moved(t, "opened", job[t].file, job[t].data, job[t].arg)
  /\ disk' = disk /\ TmpRest(job[t].file) /\ OpenedBy(tmp'[job[t].file], tmp[job[t].file], t)

SwapPut(t) ==
  /\ job[t].at = "opened" /\ job[t].data # Absent
  /\ Moved(t, "written", job[t].file, job[t].data, job[t].arg)
  /\ SwapWritten(t, job[t].file, Lines(job[t]))

RenamedTo(f) ==
  /\ TmpRest(f) /\ DiskRest(f) /\ disk'[f] = tmp[f] /\ tmp'[f] = NoFile /\ tmp[f].data # Absent

Dropped(f) == disk' = disk /\ TmpRest(f) /\ tmp'[f] = NoFile

AllLeft(t) == \A f \in Files : LeftBy(disk'[f], disk[f], t) /\ LeftBy(tmp'[f], tmp[f], t)

ConfigOpened(t) ==
  /\ job[t].at = "config" /\ Moved(t, "config_opened", job[t].file, job[t].data, job[t].arg)
  /\ tmp' = tmp /\ DiskRest("toml") /\ OpenedBy(disk'["toml"], disk["toml"], t)
  /\ dir /\ dir' = dir /\ told' = told /\ reseeded' = reseeded

ConfigWritten(t) ==
  /\ job[t].at = "config_opened" /\ PlaceWritten(t, "toml", job[t].arg)
  /\ dir' = dir /\ reseeded' = reseeded

FieldTold(t) == told' = [told EXCEPT ![Field(job[t].op)] = job[t].arg[Field(job[t].op)]]

CreateDoes(t) ==
  /\ DataStill /\ corpora' = corpora
  /\ \/ ~dir /\ Begun(t, "create", "dirs", "none", Absent, Absent) /\ Still
     \/ /\ job[t].op = "create" /\ job[t].at = "dirs" /\ Moved(t, "config", job[t].file, job[t].data, Fresh)
        /\ FilesStill /\ dir' = TRUE /\ told' = told /\ reseeded' = reseeded
     \/ job[t].op = "create" /\ ConfigOpened(t)
     \/ job[t].op = "create" /\ ConfigWritten(t) /\ told' = Fresh /\ Done(t)

UpdateDoes(t) ==
  /\ DataStill /\ corpora' = corpora
  /\ \/ \E op \in Updates : Begun(t, op, "get", "none", Absent, Absent) /\ Still
     \/ /\ job[t].op \in Updates /\ job[t].at = "get" /\ disk["toml"].data \in Configs
        /\ Moved(t, "config", job[t].file, job[t].data, [disk["toml"].data EXCEPT ![Field(job[t].op)] = TRUE])
        /\ Still
     \/ job[t].op \in Updates /\ ConfigOpened(t)
     \/ job[t].op \in Updates /\ ConfigWritten(t) /\ FieldTold(t) /\ Done(t)

DeleteDoes(t) ==
  /\ told' = told /\ flags' = flags /\ corpora' = corpora
  /\ \/ dir /\ Begun(t, "delete", "remove", "none", Absent, Absent) /\ Still /\ DataStill
     \/ /\ job[t].op = "delete" /\ job[t].at = "remove"
        /\ Moved(t, "rmdir", job[t].file, job[t].data, job[t].arg)
        /\ tmp' = tmp /\ \A f \in Files : disk'[f] \in {disk[f], NoFile}
        /\ dir' = dir /\ reseeded' = reseeded
        /\ index' \in {index, Absent} /\ calm' = {} /\ trained' = trained
     \/ /\ job[t].at = "rmdir" /\ Vanishes(t)
        /\ \A f \in Files : disk'[f] = NoFile /\ tmp'[f] = NoFile
        /\ dir' = FALSE /\ reseeded' = FALSE
        /\ index' = Absent /\ calm' = {} /\ trained' = Untrained

FilterDoes(t) ==
  /\ dir' = dir /\ told' = told /\ reseeded' = reseeded
  /\ index' = index /\ trained' = trained /\ corpora' = corpora
  /\ \/ /\ \E included \in Readings("chunks", Chunks), arg \in [ids : SUBSET Chunks, include : BOOLEAN] :
             Begun(t, "filter", "opened", "chunks", Flagged(included, arg), arg)
        /\ Present("chunks")
        /\ disk' = disk /\ TmpRest("chunks") /\ OpenedBy(tmp'["chunks"], tmp["chunks"], t)
        /\ flags' = flags /\ calm' = calm
     \/ job[t].op = "filter" /\ SwapPut(t) /\ flags' = flags /\ calm' = calm
     \/ /\ job[t].op = "filter" /\ job[t].at = "written" /\ RenamedTo("chunks") /\ Done(t)
        /\ flags' = Flagged(flags, job[t].arg) /\ calm' = calm \ {"current"}

IngestDoes(t) ==
  /\ told' = told /\ reseeded' = reseeded
  /\ index' = index /\ trained' = trained /\ corpora' = corpora
  /\ \/ /\ \E kept \in SUBSET Chunks : Begun(t, "ingest", "open", "chunks", kept, "first")
        /\ Still /\ DataStill
     \/ job[t].op = "ingest" /\ SwapOpened(t) /\ dir' = TRUE /\ DataStill
     \/ job[t].op = "ingest" /\ SwapPut(t) /\ dir' = dir /\ DataStill
     \/ /\ job[t].op = "ingest" /\ AllLeft(t) /\ dir' = dir /\ DataStill
        /\ \E kept \in SUBSET Chunks : Moved(t, "open", job[t].file, kept, "retry")
     \/ /\ job[t].op = "ingest" /\ job[t].at = "written" /\ RenamedTo("chunks")
        /\ \E kept \in SUBSET Chunks : Moved(t, "open", job[t].file, kept, "retry")
        /\ dir' = dir /\ flags' = job[t].data /\ calm' = calm \ {"current"}
     \/ /\ job[t].op = "ingest" /\ job[t].at = "written" /\ RenamedTo("chunks") /\ Done(t)
        /\ dir' = dir /\ flags' = job[t].data /\ calm' = calm \ {"current"}
     \/ /\ job[t].op = "ingest" /\ job[t].at = "written" /\ Dropped("chunks") /\ Done(t)
        /\ dir' = dir /\ DataStill

BuildDoes(t) ==
  /\ told' = told /\ reseeded' = reseeded
  /\ trained' = trained /\ flags' = flags /\ corpora' = corpora
  /\ \/ Begun(t, "build", "open", "rag", Absent, Absent) /\ Still /\ DataStill
     \/ job[t].op = "build" /\ SwapOpened(t) /\ dir' = TRUE /\ DataStill
     \/ /\ job[t].op = "build" /\ job[t].at = "opened" /\ job[t].data = Absent
        /\ \E included \in Readings("chunks", Chunks) : Moved(t, "opened", "rag", included, job[t].arg)
        /\ Still /\ DataStill
     \/ job[t].op = "build" /\ SwapPut(t) /\ dir' = dir /\ DataStill
     \/ /\ job[t].op = "build" /\ job[t].at = "written" /\ Moved(t, "embed", "rag", job[t].data, job[t].arg)
        /\ dir' = dir /\ index' = index
        /\ \/ job[t].data = {} /\ Dropped("rag") /\ calm' = calm
           \/ job[t].data # {} /\ RenamedTo("rag") /\ calm' = calm \ {"current", "index"}
     \/ /\ job[t].op = "build" /\ job[t].at = "embed"
        /\ \E included \in Readings("chunks", Chunks) : Moved(t, "delete", "none", included, job[t].arg)
        /\ Still /\ DataStill
     \/ job[t].op = "build" /\ job[t].at = "delete" /\ Done(t) /\ Still /\ DataStill
     \/ /\ job[t].op = "build" /\ job[t].at = "delete" /\ job[t].data # {}
        /\ Moved(t, "add", job[t].file, job[t].data, job[t].arg)
        /\ FilesStill /\ dir' = TRUE
        /\ index' = (IF index = Absent THEN Absent ELSE index \ job[t].data)
        /\ calm' = calm \ {"current", "index"}
     \/ /\ job[t].op = "build" /\ job[t].at = "add" /\ Done(t) /\ Still
        /\ index' = Rows \cup job[t].data
        /\ \/ job[t].alone /\ disk["chunks"].data # Torn /\ calm' = calm \cup {"current", "index"}
           \/ ~(job[t].alone /\ disk["chunks"].data # Torn) /\ calm' = calm

GenerateDoes(t) ==
  /\ index' = index /\ trained' = trained /\ flags' = flags /\ corpora' = corpora
  /\ \/ dir /\ (\E op \in Generators : \E d : Begun(t, op, "get", "none", d, Absent)) /\ Still /\ calm' = calm
     \/ /\ job[t].op \in Generators /\ job[t].at = "get" /\ disk["toml"].data \in Configs
        /\ \E s \in Seeds :
             /\ Moved(t, "config", job[t].file, job[t].data, [disk["toml"].data EXCEPT !["seed"] = s])
             /\ reseeded' <=> reseeded \/ disk["toml"].data.seed \notin {NoSeed, s}
        /\ FilesStill /\ dir' = dir /\ told' = told /\ calm' = calm
     \/ /\ job[t].op \in Generators /\ job[t].at = "get" /\ disk["toml"].data \in Configs
        /\ disk["toml"].data.seed # NoSeed
        /\ Moved(t, "work", job[t].file, job[t].data, disk["toml"].data) /\ Still /\ calm' = calm
     \/ job[t].op \in Generators /\ ConfigOpened(t) /\ calm' = calm
     \/ /\ job[t].op \in Generators /\ ConfigWritten(t) /\ FieldTold(t)
        /\ Moved(t, "work", job[t].file, job[t].data, job[t].arg) /\ calm' = calm
     \/ /\ job[t].op \in Generators /\ job[t].at = "work" /\ Still /\ calm' = calm
        /\ \E d : SplitBy(job[t].op, d, job[t].arg.seed) /\ Moved(t, "open", "sft", d, job[t].arg)
     \/ /\ job[t].op \in Generators /\ SwapOpened(t) /\ told' = told /\ reseeded' = reseeded /\ calm' = calm
        /\ dir' = TRUE
     \/ /\ job[t].op \in Generators /\ SwapPut(t)
        /\ dir' = dir /\ told' = told /\ reseeded' = reseeded /\ calm' = calm
     \/ /\ job[t].op \in Generators /\ job[t].at = "written" /\ job[t].file = "sft"
        /\ RenamedTo("sft") /\ Moved(t, "open", "eval", job[t].data, job[t].arg)
        /\ dir' = dir /\ told' = told /\ reseeded' = reseeded /\ calm' = calm \ {"pairs"}
     \/ /\ job[t].op \in Generators /\ job[t].at = "written" /\ job[t].file = "eval"
        /\ RenamedTo("eval") /\ Done(t)
        /\ dir' = dir /\ told' = told /\ reseeded' = reseeded
        /\ \/ job[t].alone /\ calm' = calm \cup {"pairs"}
           \/ ~job[t].alone /\ calm' = calm

TrainDoes(t) ==
  /\ Still /\ index' = index /\ flags' = flags /\ calm' = calm /\ corpora' = corpora
  /\ \/ Begun(t, "train", "train", "none", Absent, Absent) /\ trained' = trained
     \/ /\ job[t].op = "train" /\ Present("sft") /\ Done(t)
        /\ trained'.calm <=> "pairs" \in calm
        /\ \/ disk["sft"].data = Torn /\ trained'.from = "nothing"
           \/ /\ disk["sft"].data # Torn
              /\ trained'.from = disk["sft"].data.from /\ trained'.pairs = disk["sft"].data.pairs

EvalDoes(t) ==
  /\ FilesStill /\ told' = told /\ reseeded' = reseeded /\ DataStill /\ corpora' = corpora
  /\ \/ \E d : Begun(t, "eval", "score", "none", d, [missed |-> {}, failed |-> {}]) /\ dir' = dir
     \/ /\ job[t].op = "eval" /\ job[t].at = "score" /\ dir' = dir
        /\ \E p \in Pairs, fails \in BOOLEAN :
             Moved(t, "score", job[t].file, job[t].data \ {p},
                   [missed |-> job[t].arg.missed \cup (IF Retrievable(p) /\ ~fails THEN {} ELSE {p}),
                    failed |-> job[t].arg.failed \cup (IF fails THEN {p} ELSE {})])
     \/ job[t].op = "eval" /\ Moved(t, "report", job[t].file, job[t].data, job[t].arg) /\ dir' = dir
     \/ job[t].op = "eval" /\ Done(t) /\ dir' = TRUE

\* The fields of the corpus k an export leaves as they are.
Same(k, fields) == \A x \in fields : corpora'[k][x] = corpora[k][x]

ExportDoes(t) ==
  /\ Still /\ DataStill
  /\ \/ \E k \in Names :
          /\ Present("rag") /\ ~corpora[k].dir
          /\ Begun(t, "export", "mkdir", "rag", Absent, k) /\ corpora' = corpora
     \/ /\ job[t].op = "export" /\ CorporaRest(job[t].arg)
        /\ \/ /\ job[t].at = "mkdir" /\ Moved(t, "copy", job[t].file, job[t].data, job[t].arg)
              /\ corpora'[job[t].arg].dir
              /\ Same(job[t].arg, {"manifest", "rag", "sft", "eval", "store", "calm"})
           \/ /\ job[t].at = "copy" /\ job[t].file # "store"
              /\ Moved(t, "copy", NextFile(job[t].file), Absent, job[t].arg)
              /\ Same(job[t].arg, {"dir", "manifest", "rag", "sft", "eval", "store", "calm"} \ {job[t].file})
              /\ corpora'[job[t].arg][job[t].file] =
                   IF Present(job[t].file) THEN Copied(job[t].file) ELSE corpora[job[t].arg][job[t].file]
           \/ /\ job[t].at = "copy" /\ job[t].file = "store"
              /\ Moved(t, "manifest", job[t].file, job[t].data, job[t].arg)
              /\ Same(job[t].arg, {"dir", "manifest", "rag", "sft", "eval", "calm"})
              /\ corpora'[job[t].arg].store = index
           \/ /\ job[t].at = "manifest" /\ Moved(t, "manifest_opened", job[t].file, job[t].data, job[t].arg)
              /\ Same(job[t].arg, {"dir", "rag", "sft", "eval", "store", "calm"})
              /\ corpora'[job[t].arg].manifest = "torn"
           \/ /\ job[t].at = "manifest_opened" /\ Done(t)
              /\ Same(job[t].arg, {"dir", "rag", "sft", "eval", "store"})
              /\ corpora'[job[t].arg].manifest = "whole"
              /\ \/ job[t].alone /\ corpora'[job[t].arg].calm = calm
                 \/ ~job[t].alone /\ corpora'[job[t].arg].calm = {}

ImportDoes(t) ==
  /\ told' = told /\ reseeded' = reseeded /\ trained' = trained /\ flags' = flags /\ corpora' = corpora
  /\ \/ /\ \E k \in Names, a \in [name : Names, include_sft : BOOLEAN] :
             /\ Begun(t, "import", "copy", "rag", Absent, a)
             /\ a.name = k /\ corpora[k].manifest = "whole"
        /\ NothingPrepared /\ Still /\ DataStill
     \/ /\ job[t].op = "import" /\ job[t].at = "copy" /\ job[t].file # "store"
        /\ corpora[job[t].arg.name][job[t].file] # Absent
        /\ Moved(t, "copying", job[t].file, job[t].data, job[t].arg)
        /\ tmp' = tmp /\ DiskRest(job[t].file) /\ OpenedBy(disk'[job[t].file], disk[job[t].file], t)
        /\ dir' = TRUE /\ index' = index
        /\ calm' = calm \ IF job[t].file = "rag" THEN {"current", "index"} ELSE {"pairs"}
     \/ /\ job[t].op = "import" /\ job[t].at = "copy" /\ job[t].file # "store"
        /\ corpora[job[t].arg.name][job[t].file] = Absent
        /\ Moved(t, "copy", FollowingFile(t), Absent, job[t].arg) /\ Still /\ DataStill
     \/ /\ job[t].op = "import" /\ job[t].at = "copying"
        /\ Moved(t, "copy", FollowingFile(t), Absent, job[t].arg)
        /\ PlaceWritten(t, job[t].file, corpora[job[t].arg.name][job[t].file])
        /\ dir' = dir /\ DataStill
     \/ /\ job[t].op = "import" /\ job[t].at = "copy" /\ job[t].file = "store" /\ Done(t)
        /\ FilesStill /\ dir' = TRUE /\ index' = CopiedOver(corpora[job[t].arg.name].store, index)
        /\ \/ /\ job[t].alone
              /\ calm' = calm \cup (corpora[job[t].arg.name].calm \cap
                                     IF job[t].arg.include_sft THEN {"index", "pairs"} ELSE {"index"})
           \/ ~job[t].alone /\ calm' = calm

BreakDoes(t) ==
  /\ job[t].op # "none" /\ Done(t) /\ AllLeft(t)
  /\ dir' = dir /\ told' = told /\ reseeded' = reseeded /\ DataStill /\ corpora' = corpora

Does(t) ==
  \/ CreateDoes(t) \/ UpdateDoes(t) \/ DeleteDoes(t) \/ FilterDoes(t) \/ IngestDoes(t) \/ BuildDoes(t)
  \/ GenerateDoes(t) \/ TrainDoes(t) \/ EvalDoes(t) \/ ExportDoes(t) \/ ImportDoes(t) \/ BreakDoes(t)

---------------------------------------------------------------------------
LEMMA StaysStill ==
  /\ UNCHANGED <<filevars, storevars>> => Still
  /\ UNCHANGED datavars => DataStill
BY DEF filevars, storevars, datavars, Still, FilesStill, DataStill

\* What the steps tell of the operation.
LEMMA AtOf ==
  ASSUME TypesInv, NEW t \in Tasks
  PROVE  /\ job[t].at = "dirs" => job[t].op = "create"
         /\ job[t].at \in {"remove", "rmdir"} => job[t].op = "delete"
         /\ job[t].at \in {"get", "config", "config_opened"} => job[t].op \in {"create"} \cup Updates \cup Generators
         /\ job[t].at = "work" => job[t].op \in Generators
         /\ job[t].at \in {"embed", "delete", "add"} => job[t].op = "build"
         /\ job[t].at = "train" => job[t].op = "train"
         /\ job[t].at \in {"score", "report"} => job[t].op = "eval"
         /\ job[t].at \in {"manifest", "manifest_opened"} => job[t].op = "export"
         /\ job[t].at = "copying" => job[t].op = "import"
         /\ job[t].at \in {"open", "opened", "written"} =>
              job[t].op \in {"filter", "ingest", "build"} \cup Generators
         /\ job[t].at \in {"open", "opened", "written"} =>
              /\ job[t].file = "chunks" <=> job[t].op \in {"filter", "ingest"}
              /\ job[t].file = "rag" <=> job[t].op = "build"
              /\ job[t].file \in {"sft", "eval"} <=> job[t].op \in Generators
              /\ job[t].file \in {"chunks", "rag", "sft", "eval"}
         /\ job[t].at = "open" => job[t].op # "filter"
         /\ job[t].op = "none" <=> job[t].at = "idle"
         /\ job[t].op = "import" => /\ job[t].arg \in [name : Names, include_sft : BOOLEAN]
                                    /\ job[t].file \in {"rag", "sft", "eval", "store"}
         /\ job[t].op = "export" => job[t].arg \in Names /\ job[t].file \in {"rag", "sft", "eval", "store"}
<1>1. JobFormed(job[t])
  BY JobsFormed
<1> QED BY <1>1 DEF JobFormed, Idling, Creating, Updating, Deleting, Filtering, Ingesting, Building,
     Generating, Training, Evaluating, Exporting, Importing, Generators, Updates

LEMMA ConfigOpensDoes ==
  ASSUME TypesInv, NEW t \in Tasks, ConfigOpens(t)
  PROVE  ConfigOpened(t)
<1>1. Moved(t, "config_opened", job[t].file, job[t].data, job[t].arg) /\ job[t].at = "config"
  BY GoesIs, JobsShaped DEF ConfigOpens, TypesInv
<1>2. tmp' = tmp /\ DiskRest("toml") /\ OpenedBy(disk'["toml"], disk["toml"], t)
  BY PlaceOpensIs DEF ConfigOpens, TypesInv, FilesTyped, Files
<1> QED BY <1>1, <1>2 DEF ConfigOpens, ConfigOpened, storevars

LEMMA ConfigWritesDoes ==
  ASSUME TypesInv, NEW t \in Tasks, ConfigWrites(t)
  PROVE  /\ ConfigWritten(t)
         /\ job[t].op = "create" => told' = Fresh
         /\ job[t].op # "create" => FieldTold(t)
         /\ job[t].op \in Generators => Moved(t, "work", job[t].file, job[t].data, job[t].arg)
         /\ job[t].op \notin Generators => Done(t)
<1>1. PlaceWritten(t, "toml", job[t].arg)
  BY PlaceWritesIs DEF ConfigWrites, TypesInv, FilesTyped, Files
<1>2. job[t].op \in Generators => Moved(t, "work", job[t].file, job[t].data, job[t].arg)
  BY GoesIs, JobsShaped DEF ConfigWrites, TypesInv, Generators
<1>3. job[t].op \notin Generators => Done(t)
  BY EndsDone DEF ConfigWrites, TypesInv, Generators
<1>4. ConfigWritten(t)
  BY <1>1 DEF ConfigWrites, ConfigWritten
<1>5. told' = IF job[t].op = "create" THEN Fresh
              ELSE [told EXCEPT ![Field(job[t].op)] = job[t].arg[Field(job[t].op)]]
  BY DEF ConfigWrites
<1> QED BY <1>2, <1>3, <1>4, <1>5 DEF FieldTold

LEMMA StoreDoes ==
  ASSUME TypesInv, NEW t \in Tasks, StoreStep(t), UNCHANGED <<datavars, corpora>>
  PROVE  Does(t)
<1>0. DataStill /\ corpora' = corpora
  BY StaysStill
<1>1. CASE CreateChecks(t)
  BY <1>0, <1>1, JobBegun, StaysStill DEF CreateChecks, Does, CreateDoes
<1>2. CASE CreateMakesDirs(t)
  <2>1. Moved(t, "config", job[t].file, job[t].data, Fresh) /\ job[t].at = "dirs"
    BY <1>2, PatchIs, JobsShaped DEF CreateMakesDirs, TypesInv
  <2> QED BY <1>0, <1>2, <2>1, AtOf DEF CreateMakesDirs, Does, CreateDoes, FilesStill
<1>3. ASSUME NEW op \in {"set_synth_model", "persist_last_run_id"}, UpdateBegins(t, op) PROVE Does(t)
  BY <1>0, <1>3, JobBegun, StaysStill DEF UpdateBegins, Does, UpdateDoes, Updates
<1>p. ASSUME NEW field, NEW value, Patches(t, field, value)
      PROVE  /\ Moved(t, "config", job[t].file, job[t].data, [disk["toml"].data EXCEPT ![field] = value])
             /\ job[t].at = "get" /\ disk["toml"].data \in Configs
             /\ FilesStill /\ dir' = dir /\ told' = told
  <2> DEFINE c == [disk["toml"].data EXCEPT ![field] = value]
  <2>1. Moved(t, "config", job[t].file, job[t].data, c)
    BY <1>p, PatchIs, JobsShaped DEF Patches, TypesInv
  <2> HIDE DEF c
  <2>2. /\ job[t].at = "get" /\ disk["toml"].data \in Configs
        /\ FilesStill /\ dir' = dir /\ told' = told
    BY <1>p DEF Patches, Gets, filevars, FilesStill
  <2> QED BY <2>1, <2>2 DEF c
<1>4. CASE UpdatePatches(t)
  <2> DEFINE field == IF job[t].op = "set_synth_model" THEN "synth_model" ELSE "last_run_id"
  <2>1. Patches(t, field, TRUE) /\ job[t].op \in Updates /\ reseeded' = reseeded
    BY <1>4 DEF UpdatePatches, Updates
  <2>2. field = Field(job[t].op)
    BY <2>1 DEF Field, Updates
  <2>3. Patches(t, Field(job[t].op), TRUE)
    BY <2>1, <2>2
  <2>4. /\ Moved(t, "config", job[t].file, job[t].data, [disk["toml"].data EXCEPT ![Field(job[t].op)] = TRUE])
        /\ job[t].at = "get" /\ disk["toml"].data \in Configs
        /\ FilesStill /\ dir' = dir /\ told' = told
    BY <2>3, <1>p
  <2> QED BY <1>0, <2>1, <2>4 DEF Does, UpdateDoes, Still
<1>5. ASSUME NEW s \in Seeds, SeedExplicit(t, s) \/ SeedFresh(t, s) PROVE Does(t)
  <2>1. /\ Moved(t, "config", job[t].file, job[t].data, [disk["toml"].data EXCEPT !["seed"] = s])
        /\ job[t].at = "get" /\ disk["toml"].data \in Configs
        /\ FilesStill /\ dir' = dir /\ told' = told
    BY <1>5, <1>p DEF SeedExplicit, SeedFresh
  <2>2. job[t].op \in Generators /\ (reseeded' <=> reseeded \/ disk["toml"].data.seed \notin {NoSeed, s})
    <3>1. CASE SeedExplicit(t, s)
      BY <3>1 DEF SeedExplicit, Generators
    <3>2. CASE SeedFresh(t, s)
      <4>1. reseeded' = reseeded /\ disk["toml"].data.seed = NoSeed /\ job[t].op \in Generators
        BY <3>2 DEF SeedFresh, Generators
      <4> QED BY <4>1
    <3> QED BY <1>5, <3>1, <3>2
  <2>3. GenerateDoes(t)
    BY <1>0, <2>1, <2>2 DEF GenerateDoes, DataStill
  <2> QED BY <2>3 DEF Does
<1>6. CASE SeedStored(t)
  <2>1. Moved(t, "work", job[t].file, job[t].data, disk["toml"].data)
    BY <1>6, PatchIs, JobsShaped DEF SeedStored, TypesInv
  <2>2. GenerateDoes(t)
    BY <1>0, <1>6, <2>1, StaysStill DEF SeedStored, Gets, GenerateDoes, Generators, DataStill
  <2> QED BY <2>2 DEF Does
<1>7. CASE ConfigOpens(t)
  <2>1. ConfigOpened(t) /\ job[t].at = "config"
    BY <1>7, ConfigOpensDoes DEF ConfigOpened
  <2>2. job[t].op \in {"create"} \cup Updates \cup Generators
    BY <2>1, AtOf
  <2> QED BY <1>0, <2>1, <2>2 DEF Does, CreateDoes, UpdateDoes, GenerateDoes, DataStill
<1>8. CASE ConfigWrites(t)
  <2>1. ConfigWritten(t) /\ job[t].at = "config_opened"
    BY <1>8, ConfigWritesDoes DEF ConfigWritten
  <2>2. job[t].op \in {"create"} \cup Updates \cup Generators
    BY <2>1, AtOf
  <2>3. "create" \notin Generators /\ Updates \cap Generators = {} /\ "create" \notin Updates
    BY DEF Generators, Updates
  <2> QED BY <1>0, <1>8, <2>1, <2>2, <2>3, ConfigWritesDoes DEF Does, CreateDoes, UpdateDoes, GenerateDoes,
     DataStill
<1> QED BY <1>1, <1>2, <1>3, <1>4, <1>5, <1>6, <1>7, <1>8 DEF StoreStep

LEMMA DeletesDoes ==
  ASSUME TypesInv, NEW t \in Tasks, Deletes(t)
  PROVE  DeleteDoes(t)
<1>1. CASE DeleteChecks(t) /\ UNCHANGED <<datavars, corpora>>
  BY <1>1, JobBegun, StaysStill DEF DeleteChecks, DeleteDoes, Still, DataStill
<1>2. CASE DeleteRemovesSome(t) /\ index' \in {index, Absent} /\ calm' = {} /\ UNCHANGED <<trained, flags, corpora>>
  <2>1. Moved(t, "rmdir", job[t].file, job[t].data, job[t].arg) /\ job[t].at = "remove"
    BY <1>2, GoesIs, JobsShaped DEF DeleteRemovesSome, TypesInv
  <2>2. PICK gone : disk' = [f \in Files |-> IF f \in gone THEN NoFile ELSE disk[f]]
    BY <1>2 DEF DeleteRemovesSome
  <2>3. \A f \in Files : disk'[f] \in {disk[f], NoFile}
    BY <2>2
  <2> QED BY <1>2, <2>1, <2>3, AtOf DEF DeleteRemovesSome, DeleteDoes, storevars
<1>3. CASE DeleteRemovesDir(t) /\ index' = Absent /\ calm' = {} /\ trained' = Untrained /\ UNCHANGED <<flags, corpora>>
  <2>1. /\ Shaped' /\ Rest(t)
        /\ job'[t].op = "none" /\ job'[t].at = "idle" /\ job'[t].file = "none" /\ job'[t].alone
    BY <1>3, EndsIs, JobsShaped DEF DeleteRemovesDir, TypesInv
  <2>2. job[t].op = "delete" /\ job[t].at = "rmdir"
    BY <1>3, AtOf DEF DeleteRemovesDir
  <2>3. Vanishes(t)
    BY <1>3, <2>1, <2>2 DEF DeleteRemovesDir, Vanishes
  <2>4. \A f \in Files : disk'[f] = NoFile /\ tmp'[f] = NoFile
    BY <1>3 DEF DeleteRemovesDir
  <2> QED BY <1>3, <2>2, <2>3, <2>4 DEF DeleteRemovesDir, DeleteDoes
<1> QED BY <1>1, <1>2, <1>3 DEF Deletes

---------------------------------------------------------------------------
LEMMA SwapDoes ==
  ASSUME TypesInv, NEW t \in Tasks, SwapBegins(t) \/ WritesLines(t), corpora' = corpora
  PROVE  Does(t)
<1>0. job[t].at \in {"open", "opened"} /\ FilesShaped /\ DataStill
  BY StaysStill DEF SwapBegins, WritesLines, Goes, TypesInv, FilesTyped
<1>1. /\ job[t].op \in {"filter", "ingest", "build"} \cup Generators
      /\ job[t].file \in {"chunks", "rag", "sft", "eval"} /\ job[t].file \in Files
      /\ job[t].at = "open" => job[t].op # "filter"
  BY <1>0, AtOf DEF Files
<1>2. CASE SwapBegins(t)
  <2>1. Moved(t, "opened", job[t].file, job[t].data, job[t].arg) /\ job[t].at = "open"
    BY <1>2, GoesIs, JobsShaped DEF SwapBegins, TypesInv
  <2>2. disk' = disk /\ TmpRest(job[t].file) /\ OpenedBy(tmp'[job[t].file], tmp[job[t].file], t)
    BY <1>0, <1>1, <1>2, SwapOpensIs DEF SwapBegins
  <2>3. SwapOpened(t)
    BY <2>1, <2>2 DEF SwapOpened
  <2>4. told' = told /\ reseeded' = reseeded /\ dir' = TRUE
    BY <1>2 DEF SwapBegins, MakesDirs, storevars, TypesInv, DataTyped
  <2> QED BY <1>0, <1>1, <2>1, <2>3, <2>4 DEF Does, IngestDoes, BuildDoes, GenerateDoes, DataStill
<1>3. CASE WritesLines(t)
  <2>1. Moved(t, "written", job[t].file, job[t].data, job[t].arg) /\ job[t].at = "opened"
    BY <1>3, GoesIs, JobsShaped DEF WritesLines, TypesInv
  <2>2. SwapWritten(t, job[t].file, Lines(job[t]))
    BY <1>0, <1>1, <1>3, SwapWritesIs DEF WritesLines, Lines
  <2>3. SwapPut(t)
    BY <1>3, <2>1, <2>2 DEF WritesLines, SwapPut
  <2>4. told' = told /\ reseeded' = reseeded /\ dir' = dir
    BY <1>3 DEF WritesLines, storevars
  <2> QED BY <1>0, <1>1, <2>3, <2>4 DEF Does, FilterDoes, IngestDoes, BuildDoes, GenerateDoes, DataStill
<1> QED BY <1>2, <1>3

LEMMA ChunksDoes ==
  ASSUME TypesInv, NEW t \in Tasks, corpora' = corpora,
         \/ \E ids \in (SUBSET Chunks) \ {{}}, include \in BOOLEAN :
              FilterOpens(t, [ids |-> ids, include |-> include])
         \/ \E kept \in {{}, Chunks} : \/ IngestBegins(t, kept)
                                       \/ IngestRetries(t, kept) \/ IngestRenamesTwice(t, kept)
         \/ FilterRenames(t) \/ IngestRenames(t) \/ IngestKeepsNothing(t)
  PROVE  Does(t)
<1>0. FilesShaped /\ "chunks" \in Files
  BY DEF TypesInv, FilesTyped, Files
<1>1. ASSUME NEW ids \in SUBSET Chunks, NEW include \in BOOLEAN,
             FilterOpens(t, [ids |-> ids, include |-> include])
      PROVE  FilterDoes(t)
  <2>1. [ids |-> ids, include |-> include] \in [ids : SUBSET Chunks, include : BOOLEAN]
    OBVIOUS
  <2>2. PICK arg \in [ids : SUBSET Chunks, include : BOOLEAN] : FilterOpens(t, arg)
    BY <1>1, <2>1
  <2>3. PICK included \in Readings("chunks", Chunks) :
          Begins(t, Job("filter", "opened", "chunks", Flagged(included, arg), arg))
    BY <2>2 DEF FilterOpens
  <2>4. Begun(t, "filter", "opened", "chunks", Flagged(included, arg), arg)
    BY <2>3, JobBegun
  <2>5. disk' = disk /\ TmpRest("chunks") /\ OpenedBy(tmp'["chunks"], tmp["chunks"], t)
    BY <1>0, <2>2, SwapOpensIs DEF FilterOpens
  <2> QED BY <2>2, <2>4, <2>5 DEF FilterOpens, FilterDoes, storevars, datavars
<1>2. ASSUME NEW kept \in {{}, Chunks}, IngestBegins(t, kept) PROVE IngestDoes(t)
  BY <1>2, JobBegun, StaysStill DEF IngestBegins, IngestDoes, Still, DataStill
<1>3. ASSUME NEW kept \in {{}, Chunks}, IngestRetries(t, kept) PROVE IngestDoes(t)
  <2>1. Moved(t, "open", job[t].file, kept, "retry") /\ job[t].op = "ingest"
    BY <1>3, AgainIs, JobsShaped DEF IngestRetries, TypesInv
  <2>2. AllLeft(t)
    BY <1>0, <1>3, LeavesFilesIs DEF IngestRetries, AllLeft
  <2>3. kept \in SUBSET Chunks
    OBVIOUS
  <2> QED BY <1>3, <2>1, <2>2, <2>3, StaysStill DEF IngestRetries, IngestDoes, storevars, DataStill
<1>r. ASSUME NEW included, ChunksRename(t, included)
      PROVE  /\ RenamedTo("chunks") /\ job[t].at = "written" /\ flags' = included
             /\ calm' = calm \ {"current"}
             /\ dir' = dir /\ told' = told /\ reseeded' = reseeded /\ index' = index /\ trained' = trained
  <2>1. RenamedTo("chunks")
    BY <1>0, <1>r, SwapRenamesIs DEF ChunksRename, RenamedTo
  <2> QED BY <1>r, <2>1 DEF ChunksRename, storevars
<1>4. CASE FilterRenames(t)
  <2>1. Done(t)
    BY <1>4, EndsDone DEF FilterRenames, TypesInv
  <2> QED BY <1>4, <1>r, <2>1 DEF FilterRenames, Does, FilterDoes
<1>5. CASE IngestRenames(t)
  <2>1. Done(t)
    BY <1>5, EndsDone DEF IngestRenames, TypesInv
  <2> QED BY <1>5, <1>r, <2>1 DEF IngestRenames, Does, IngestDoes
<1>7. ASSUME NEW kept \in {{}, Chunks}, IngestRenamesTwice(t, kept) PROVE IngestDoes(t)
  <2>1. Moved(t, "open", job[t].file, kept, "retry") /\ job[t].op = "ingest"
    BY <1>7, AgainIs, JobsShaped DEF IngestRenamesTwice, TypesInv
  <2>2. kept \in SUBSET Chunks
    OBVIOUS
  <2> QED BY <1>7, <1>r, <2>1, <2>2 DEF IngestRenamesTwice, IngestDoes
<1>6. CASE IngestKeepsNothing(t)
  <2>1. Dropped("chunks")
    BY <1>0, <1>6, SwapDiscardsIs DEF IngestKeepsNothing, Dropped
  <2>2. Done(t)
    BY <1>6, EndsDone DEF IngestKeepsNothing, TypesInv
  <2> QED BY <1>6, <2>1, <2>2, StaysStill DEF IngestKeepsNothing, Does, IngestDoes, storevars, DataStill
<1> QED BY <1>1, <1>2, <1>3, <1>4, <1>5, <1>6, <1>7 DEF Does

LEMMA BuildsDoes ==
  ASSUME TypesInv, NEW t \in Tasks, corpora' = corpora,
         \/ BuildBegins(t) \/ BuildCopies(t) \/ RagRenames(t)
         \/ EmbedReads(t) \/ EmbedSkips(t) \/ EmbedDeletes(t) \/ EmbedAdds(t)
  PROVE  BuildDoes(t)
<1>0. FilesShaped /\ "rag" \in Files
  BY DEF TypesInv, FilesTyped, Files
<1>1. CASE BuildBegins(t)
  BY <1>1, JobBegun, StaysStill DEF BuildBegins, BuildDoes, Still, DataStill
<1>2. CASE BuildCopies(t)
  <2>1. PICK included \in Readings("chunks", Chunks) : Carries(t, "opened", "opened", "rag", included)
    BY <1>2 DEF BuildCopies
  <2>2. Moved(t, "opened", "rag", included, job[t].arg) /\ job[t].at = "opened"
    BY <2>1, CarriesIs, JobsShaped DEF TypesInv
  <2> QED BY <1>2, <2>2, StaysStill DEF BuildCopies, BuildDoes, Still, DataStill
<1>3. CASE RagRenames(t)
  <2>1. Moved(t, "embed", "rag", job[t].data, job[t].arg) /\ job[t].at = "written"
    BY <1>3, CarriesIs, JobsShaped DEF RagRenames, TypesInv
  <2>2. job[t].op = "build"
    BY <1>3, <2>1, AtOf DEF RagRenames
  <2>3. \/ job[t].data = {} /\ Dropped("rag") /\ calm' = calm
        \/ job[t].data # {} /\ RenamedTo("rag") /\ calm' = calm \ {"current", "index"}
    BY <1>0, <1>3, SwapDiscardsIs, SwapRenamesIs DEF RagRenames, Dropped, RenamedTo
  <2> QED BY <1>3, <2>1, <2>2, <2>3 DEF RagRenames, BuildDoes, storevars
<1>4. CASE EmbedReads(t)
  <2>1. PICK included \in Readings("chunks", Chunks) : Carries(t, "embed", "delete", "none", included)
    BY <1>4 DEF EmbedReads
  <2>2. Moved(t, "delete", "none", included, job[t].arg) /\ job[t].at = "embed"
    BY <2>1, CarriesIs, JobsShaped DEF TypesInv
  <2>3. job[t].op = "build"
    BY <2>2, AtOf
  <2> QED BY <1>4, <2>1, <2>2, <2>3, StaysStill DEF EmbedReads, BuildDoes, Still, DataStill
<1>5. CASE EmbedSkips(t)
  <2>1. job[t].op = "build" /\ job[t].at = "delete"
    BY <1>5, AtOf DEF EmbedSkips
  <2>2. Done(t)
    BY <1>5, EndsDone DEF EmbedSkips, TypesInv
  <2> QED BY <1>5, <2>1, <2>2, StaysStill DEF EmbedSkips, BuildDoes, Still, DataStill
<1>6. CASE EmbedDeletes(t)
  <2>1. Moved(t, "add", job[t].file, job[t].data, job[t].arg) /\ job[t].at = "delete"
    BY <1>6, GoesIs, JobsShaped DEF EmbedDeletes, TypesInv
  <2>2. job[t].op = "build"
    BY <2>1, AtOf
  <2> QED BY <1>6, <2>1, <2>2 DEF EmbedDeletes, MakesDirs, BuildDoes, FilesStill
<1>7. CASE EmbedAdds(t)
  <2>1. job[t].op = "build" /\ job[t].at = "add"
    BY <1>7, AtOf DEF EmbedAdds
  <2>2. Done(t)
    BY <1>7, EndsDone DEF EmbedAdds, TypesInv
  <2> QED BY <1>7, <2>1, <2>2, StaysStill DEF EmbedAdds, BuildDoes, Still
<1> QED BY <1>1, <1>2, <1>3, <1>4, <1>5, <1>6, <1>7

LEMMA PairsDoes ==
  ASSUME TypesInv, NEW t \in Tasks, corpora' = corpora,
         \/ GenerateBegins(t) \/ ImportHfBegins(t)
         \/ \E ps, held \in SUBSET Pairs : Synthesizes(t, ps, held)
         \/ (\E q \in Requests : Downloads(t, q)) \/ SftRenames(t) \/ EvalRenames(t)
  PROVE  GenerateDoes(t)
<1>0. FilesShaped /\ "sft" \in Files /\ "eval" \in Files
  BY DEF TypesInv, FilesTyped, Files
<1>1. CASE GenerateBegins(t)
  <2>1. PICK d : Begins(t, Job("generate", "get", "none", d, Absent))
    BY <1>1 DEF GenerateBegins
  <2>2. Begun(t, "generate", "get", "none", d, Absent)
    BY <2>1, JobBegun
  <2> QED BY <1>1, <2>2, StaysStill DEF GenerateBegins, GenerateDoes, Generators, Still, DataStill
<1>2. CASE ImportHfBegins(t)
  <2>1. Begun(t, "import_hf", "get", "none", Absent, Absent)
    BY <1>2, JobBegun DEF ImportHfBegins
  <2> QED BY <1>2, <2>1, StaysStill DEF ImportHfBegins, GenerateDoes, Generators, Still, DataStill
<1>s. ASSUME NEW ps \in SUBSET Pairs, NEW held \in SUBSET ps, NEW from \in Origins,
             job[t].op \in Generators, job[t].op = "generate" => from = "synth",
             job[t].op = "import_hf" => /\ from \in Requests /\ ps = Drawn[from][job[t].arg.seed]
                                        /\ held = HeldOut[from][job[t].arg.seed],
             Carries(t, "work", "open", "sft", Split(ps, held, from)),
             UNCHANGED <<filevars, storevars, datavars>>
      PROVE  GenerateDoes(t)
  <2>1. Moved(t, "open", "sft", Split(ps, held, from), job[t].arg) /\ job[t].at = "work"
    BY <1>s, CarriesIs, JobsShaped DEF TypesInv
  <2>2. SplitBy(job[t].op, Split(ps, held, from), job[t].arg.seed)
    BY <1>s DEF SplitBy
  <2> QED BY <1>s, <2>1, <2>2, StaysStill DEF GenerateDoes, Still, DataStill
<1>3. ASSUME NEW ps \in SUBSET Pairs, NEW held \in SUBSET Pairs, Synthesizes(t, ps, held)
      PROVE  GenerateDoes(t)
  <2>1. /\ Carries(t, "work", "open", "sft", Split(ps, held, "synth")) /\ job[t].op = "generate"
        /\ held \in SUBSET ps /\ UNCHANGED <<filevars, storevars, datavars>>
    BY <1>3 DEF Synthesizes
  <2>2. "synth" \in Origins
    BY DEF Origins
  <2> QED BY <2>1, <2>2, <1>s DEF Generators
<1>4. ASSUME NEW q \in Requests, Downloads(t, q) PROVE GenerateDoes(t)
  <2> DEFINE ps == Drawn[q][job[t].arg.seed]
             held == HeldOut[q][job[t].arg.seed]
  <2>1. /\ Carries(t, "work", "open", "sft", Split(ps, held, q)) /\ job[t].op = "import_hf"
        /\ job[t].at = "work" /\ UNCHANGED <<filevars, storevars, datavars>>
    BY <1>4, DownloadsIs
  <2>2. job[t].arg \in SeededConfigs
    BY <2>1, JobsFormed DEF JobFormed, Idling, Creating, Updating, Deleting, Filtering, Ingesting, Building,
       Generating, Training, Evaluating, Exporting, Importing, Generators
  <2>3. ps \in SUBSET Pairs /\ held \in SUBSET ps /\ q \in Origins
    BY <2>2, DrawnIs DEF SeededConfigs, Origins
  <2> QED BY <2>1, <2>3, <1>s DEF Generators
<1>5. CASE SftRenames(t)
  <2>1. Moved(t, "open", "eval", job[t].data, job[t].arg) /\ job[t].at = "written" /\ job[t].file = "sft"
    BY <1>5, CarriesIs, JobsShaped DEF SftRenames, TypesInv
  <2>2. RenamedTo("sft")
    BY <1>0, <1>5, SwapRenamesIs DEF SftRenames, RenamedTo
  <2>3. job[t].op \in Generators
    BY <2>1, AtOf
  <2> QED BY <1>5, <2>1, <2>2, <2>3 DEF SftRenames, GenerateDoes, storevars
<1>6. CASE EvalRenames(t)
  <2>1. Done(t)
    BY <1>6, EndsDone DEF EvalRenames, TypesInv
  <2>2. RenamedTo("eval")
    BY <1>0, <1>6, SwapRenamesIs DEF EvalRenames, RenamedTo
  <2>3. job[t].op \in Generators
    BY <1>6, AtOf DEF EvalRenames
  <2> QED BY <1>6, <2>1, <2>2, <2>3 DEF EvalRenames, GenerateDoes, storevars
<1> QED BY <1>1, <1>2, <1>3, <1>4, <1>5, <1>6

LEMMA UsesDoes ==
  ASSUME TypesInv, NEW t \in Tasks, corpora' = corpora,
         \/ TrainBegins(t) \/ TrainLoads(t)
         \/ EvalLoads(t) \/ (\E p \in Pairs, fails \in BOOLEAN : EvalScores(t, p, fails))
         \/ EvalGathers(t) \/ EvalReports(t)
  PROVE  Does(t)
<1>1. CASE TrainBegins(t)
  BY <1>1, JobBegun, StaysStill DEF TrainBegins, Does, TrainDoes, DataStill
<1>2. CASE TrainLoads(t)
  <2>1. Done(t) /\ job[t].op = "train"
    BY <1>2, EndsDone, AtOf DEF TrainLoads, TypesInv
  <2> DEFINE ok == "pairs" \in calm
             from == IF disk["sft"].data = Torn THEN "nothing" ELSE disk["sft"].data.from
  <2>2. PICK ps \in IF disk["sft"].data = Torn THEN SUBSET Pairs ELSE {disk["sft"].data.pairs} :
          trained' = [pairs |-> ps, calm |-> ok, from |-> from]
    BY <1>2 DEF TrainLoads
  <2>3. PICK x : x = ok
    OBVIOUS
  <2>4. PICK y : y = from
    OBVIOUS
  <2> HIDE DEF ok, from
  <2>5. trained'.pairs = ps /\ trained'.calm = x /\ trained'.from = y
    BY <2>2, <2>3, <2>4
  <2>6. /\ trained'.calm <=> "pairs" \in calm
        /\ \/ disk["sft"].data = Torn /\ trained'.from = "nothing"
           \/ /\ disk["sft"].data # Torn
              /\ trained'.from = disk["sft"].data.from /\ trained'.pairs = disk["sft"].data.pairs
    BY <2>2, <2>3, <2>4, <2>5 DEF ok, from
  <2>7. TrainDoes(t)
    BY <1>2, <2>1, <2>6, StaysStill DEF TrainLoads, TrainDoes
  <2> QED BY <2>7 DEF Does
<1>3. CASE EvalLoads(t)
  <2>1. PICK d : Begins(t, Job("eval", "score", "none", d, [missed |-> {}, failed |-> {}]))
    BY <1>3 DEF EvalLoads
  <2>2. Begun(t, "eval", "score", "none", d, [missed |-> {}, failed |-> {}])
    BY <2>1, JobBegun
  <2>3. EvalDoes(t)
    BY <1>3, <2>2, StaysStill DEF EvalLoads, EvalDoes, Still
  <2> QED BY <2>3 DEF Does
<1>4. ASSUME NEW p \in Pairs, NEW fails \in BOOLEAN, EvalScores(t, p, fails) PROVE Does(t)
  <2> DEFINE a == [missed |-> job[t].arg.missed \cup (IF Retrievable(p) /\ ~fails THEN {} ELSE {p}),
                   failed |-> job[t].arg.failed \cup (IF fails THEN {p} ELSE {})]
  <2>1. job' = [job EXCEPT ![t].data = job[t].data \ {p}, ![t].arg = a]
    BY <1>4 DEF EvalScores
  <2> HIDE DEF a
  <2>2. Moved(t, job[t].at, job[t].file, job[t].data \ {p}, a) /\ job[t].at = "score" /\ job[t].op = "eval"
    BY <1>4, <2>1, ScoreIs, JobsShaped, AtOf DEF EvalScores, TypesInv
  <2>3. EvalDoes(t)
    <3>1. FilesStill /\ dir' = dir /\ told' = told /\ reseeded' = reseeded /\ DataStill
      BY <1>4, StaysStill DEF EvalScores, Still
    <3>2. Moved(t, "score", job[t].file, job[t].data \ {p}, a)
      BY <2>2
    <3> QED BY <2>2, <3>1, <3>2 DEF EvalDoes, a
  <2> QED BY <2>3 DEF Does
<1>5. CASE EvalGathers(t)
  <2>1. Moved(t, "report", job[t].file, job[t].data, job[t].arg) /\ job[t].at = "score" /\ job[t].op = "eval"
    BY <1>5, GoesIs, JobsShaped, AtOf DEF EvalGathers, TypesInv
  <2>2. EvalDoes(t)
    BY <1>5, <2>1, StaysStill DEF EvalGathers, EvalDoes, Still
  <2> QED BY <2>2 DEF Does
<1>6. CASE EvalReports(t)
  <2>1. Done(t) /\ job[t].op = "eval"
    BY <1>6, EndsDone, AtOf DEF EvalReports, TypesInv
  <2>2. EvalDoes(t)
    BY <1>6, <2>1, StaysStill DEF EvalReports, MakesDirs, EvalDoes, FilesStill
  <2> QED BY <2>2 DEF Does
<1> QED BY <1>1, <1>2, <1>3, <1>4, <1>5, <1>6

LEMMA DataDoes ==
  ASSUME TypesInv, NEW t \in Tasks, DataStep(t), corpora' = corpora
  PROVE  Does(t)
<1>1. BuildDoes(t) \/ GenerateDoes(t) => Does(t)
  BY DEF Does
<1> QED BY <1>1, SwapDoes, ChunksDoes, BuildsDoes, PairsDoes, UsesDoes DEF DataStep

LEMMA ExportsDoes ==
  ASSUME TypesInv, NEW t \in Tasks,
         \/ \E k \in Names : ExportBegins(t, k)
         \/ ExportMakesDir(t) \/ ExportCopies(t) \/ ExportCopiesStore(t)
         \/ ExportOpensManifest(t) \/ ExportWritesManifest(t)
  PROVE  ExportDoes(t)
<1>0. Still /\ DataStill
  BY StaysStill DEF ExportBegins, ExportMakesDir, ExportCopies, ExportCopiesStore, ExportOpensManifest,
     ExportWritesManifest
<1>1. ASSUME NEW k \in Names, ExportBegins(t, k) PROVE ExportDoes(t)
  BY <1>0, <1>1, JobBegun DEF ExportBegins, ExportDoes
<1>2. CASE ExportMakesDir(t)
  <2>1. Moved(t, "copy", job[t].file, job[t].data, job[t].arg) /\ job[t].at = "mkdir" /\ job[t].op = "export"
    BY <1>2, GoesIs, JobsShaped DEF ExportMakesDir, TypesInv
  <2>2. PICK k \in Names : k = job[t].arg
    BY <2>1, AtOf
  <2>3. corpora' = [corpora EXCEPT ![k].dir = TRUE]
    BY <1>2, <2>2 DEF ExportMakesDir
  <2>4. CorporaRest(k) /\ corpora'[k].dir /\ Same(k, {"manifest", "rag", "sft", "eval", "store", "calm"})
    BY <2>3, SetDir DEF TypesInv, Same
  <2> QED BY <1>0, <2>1, <2>2, <2>4 DEF ExportDoes
<1>3. CASE ExportCopies(t)
  <2>1. /\ Moved(t, "copy", NextFile(job[t].file), Absent, job[t].arg) /\ job[t].at = "copy"
        /\ job[t].op = "export" /\ job[t].file # "store"
    BY <1>3, CarriesIs, JobsShaped DEF ExportCopies, TypesInv
  <2>2. PICK k \in Names, f \in {"rag", "sft", "eval"} : k = job[t].arg /\ f = job[t].file
    BY <2>1, AtOf
  <2>3. /\ CorporaRest(k)
        /\ Same(k, {"dir", "manifest", "rag", "sft", "eval", "store", "calm"} \ {f})
        /\ corpora'[k][f] = IF Present(f) THEN Copied(f) ELSE corpora[k][f]
    <3>1. CASE Present(f)
      <4>1. corpora' = [corpora EXCEPT ![k][f] = Copied(f)]
        BY <1>3, <2>2, <3>1 DEF ExportCopies, Copied
      <4>3. /\ f = "rag" => Copied(f) \in (SUBSET Chunks) \cup {Absent, Torn}
            /\ f # "rag" => Copied(f) \in PairFiles \cup {Absent, Torn}
        BY <3>1, CopiedTyped DEF TypesInv
      <4>4. PICK d : d = Copied(f)
        OBVIOUS
      <4>5. CorporaTyped /\ corpora' = [corpora EXCEPT ![k][f] = d]
        BY <4>1, <4>4 DEF TypesInv
      <4>6. /\ f = "rag" => d \in (SUBSET Chunks) \cup {Absent, Torn}
            /\ f # "rag" => d \in PairFiles \cup {Absent, Torn}
        BY <4>3, <4>4
      <4>7. /\ CorporaRest(k) /\ corpora'[k][f] = d
            /\ Same(k, {"dir", "manifest", "rag", "sft", "eval", "store", "calm"} \ {f})
        <5> DEFINE others == {"dir", "manifest", "rag", "sft", "eval", "store", "calm"} \ {f}
        <5>1. PICK c : c = [corpora[k] EXCEPT ![f] = d]
          OBVIOUS
        <5>2. corpora[k] \in CorpusTypes
          BY <4>5 DEF CorporaTyped
        <5>3. c \in CorpusTypes
          BY <4>6, <5>1, <5>2 DEF CorpusTypes
        <5>4. c[f] = d /\ \A x \in others : c[x] = corpora[k][x]
          BY <5>1, <5>2 DEF CorpusTypes
        <5>5. corpora' = [corpora EXCEPT ![k] = c]
          BY <4>5, <5>1
        <5> QED BY <4>5, <5>3, <5>4, <5>5, CorpusField, ZenonT(60) DEF CorporaRest, Same
      <4> QED BY <3>1, <4>4, <4>7
    <3>2. CASE ~Present(f)
      <4>1. corpora' = corpora
        BY <1>3, <2>2, <3>2 DEF ExportCopies
      <4> QED BY <3>2, <4>1 DEF CorporaRest, Same
    <3> QED BY <3>1, <3>2
  <2> QED BY <1>0, <2>1, <2>2, <2>3 DEF ExportDoes
<1>4. CASE ExportCopiesStore(t)
  <2>1. Moved(t, "manifest", job[t].file, job[t].data, job[t].arg) /\ job[t].at = "copy" /\ job[t].op = "export"
        /\ job[t].file = "store"
    BY <1>4, GoesIs, JobsShaped DEF ExportCopiesStore, TypesInv
  <2>2. PICK k \in Names : k = job[t].arg
    BY <2>1, AtOf
  <2>3. CopiedOver(index, Absent) = index /\ index \in (SUBSET Chunks) \cup {Absent}
    BY DEF CopiedOver, TypesInv, DataTyped
  <2>4. corpora' = [corpora EXCEPT ![k].store = index]
    BY <1>4, <2>2, <2>3 DEF ExportCopiesStore
  <2>5. CorporaRest(k) /\ corpora'[k].store = index /\ Same(k, {"dir", "manifest", "rag", "sft", "eval", "calm"})
    BY <2>3, <2>4, SetStore DEF TypesInv, Same
  <2> QED BY <1>0, <2>1, <2>2, <2>5 DEF ExportDoes
<1>5. CASE ExportOpensManifest(t)
  <2>1. Moved(t, "manifest_opened", job[t].file, job[t].data, job[t].arg) /\ job[t].at = "manifest"
    BY <1>5, GoesIs, JobsShaped DEF ExportOpensManifest, TypesInv
  <2>2. PICK k \in Names : k = job[t].arg /\ job[t].op = "export"
    BY <2>1, AtOf
  <2>3. corpora' = [corpora EXCEPT ![k].manifest = "torn"]
    BY <1>5, <2>2 DEF ExportOpensManifest
  <2>4. CorporaRest(k) /\ corpora'[k].manifest = "torn" /\ Same(k, {"dir", "rag", "sft", "eval", "store", "calm"})
    <3>1. PICK m \in {"absent", "torn", "whole"} : m = "torn"
      OBVIOUS
    <3>2. CorporaTyped /\ corpora' = [corpora EXCEPT ![k].manifest = m]
      BY <2>3, <3>1 DEF TypesInv
    <3>3. /\ CorporaRest(k) /\ corpora'[k].manifest = m
          /\ corpora'[k].dir = corpora[k].dir /\ corpora'[k].rag = corpora[k].rag
          /\ corpora'[k].sft = corpora[k].sft /\ corpora'[k].eval = corpora[k].eval
          /\ corpora'[k].store = corpora[k].store /\ corpora'[k].calm = corpora[k].calm
      BY <3>2, SetManifest
    <3> QED BY <3>1, <3>3 DEF Same
  <2> QED BY <1>0, <2>1, <2>2, <2>4 DEF ExportDoes
<1>6. CASE ExportWritesManifest(t)
  <2>1. Done(t) /\ job[t].at = "manifest_opened"
    BY <1>6, EndsDone DEF ExportWritesManifest, TypesInv
  <2>2. PICK k \in Names : k = job[t].arg /\ job[t].op = "export"
    BY <2>1, AtOf
  <2> DEFINE ca == IF job[t].alone THEN calm ELSE {}
  <2>3. corpora' = [corpora EXCEPT ![k].manifest = "whole", ![k].calm = ca]
    BY <1>6, <2>2 DEF ExportWritesManifest
  <2>4. /\ ca \in SUBSET {"current", "index", "pairs"}
        /\ (job[t].alone /\ ca = calm) \/ (~job[t].alone /\ ca = {})
    BY DEF TypesInv, DataTyped
  <2> HIDE DEF ca
  <2>5. /\ CorporaRest(k) /\ corpora'[k].manifest = "whole" /\ corpora'[k].calm = ca
        /\ Same(k, {"dir", "rag", "sft", "eval", "store"})
    <3>1. /\ CorporaRest(k) /\ corpora'[k].manifest = "whole" /\ corpora'[k].calm = ca
          /\ corpora'[k].dir = corpora[k].dir /\ corpora'[k].rag = corpora[k].rag
          /\ corpora'[k].sft = corpora[k].sft /\ corpora'[k].eval = corpora[k].eval
          /\ corpora'[k].store = corpora[k].store
      BY <2>3, <2>4, SetListed DEF TypesInv
    <3> QED BY <3>1 DEF Same
  <2> QED BY <1>0, <2>1, <2>2, <2>4, <2>5 DEF ExportDoes
<1> QED BY <1>1, <1>2, <1>3, <1>4, <1>5, <1>6

LEMMA ImportsDoes ==
  ASSUME TypesInv, NEW t \in Tasks,
         \/ \E k \in Names, include_sft \in BOOLEAN : ImportBegins(t, k, include_sft)
         \/ ImportOpens(t) \/ ImportSkips(t) \/ ImportWrites(t) \/ ImportCopiesStore(t)
  PROVE  ImportDoes(t)
<1>0. FilesShaped /\ {"rag", "sft", "eval"} \subseteq Files
  BY DEF TypesInv, FilesTyped, Files
<1>1. ASSUME NEW k \in Names, NEW include_sft \in BOOLEAN, ImportBegins(t, k, include_sft) PROVE ImportDoes(t)
  <2> DEFINE a0 == [name |-> k, include_sft |-> include_sft]
  <2>1. a0 \in [name : Names, include_sft : BOOLEAN] /\ a0.name = k
    OBVIOUS
  <2>2. PICK a \in [name : Names, include_sft : BOOLEAN] : a = a0 /\ a.name = k
    BY <2>1
  <2>3. Begins(t, Job("import", "copy", "rag", Absent, a))
    BY <1>1, <2>2 DEF ImportBegins
  <2>4. Begun(t, "import", "copy", "rag", Absent, a)
    BY <2>3, JobBegun
  <2>5. NothingPrepared /\ Still /\ DataStill /\ corpora[k].manifest = "whole" /\ corpora' = corpora
    BY <1>1, StaysStill DEF ImportBegins
  <2> QED BY <2>2, <2>4, <2>5 DEF ImportDoes, Still, DataStill
<1>2. CASE ImportOpens(t)
  <2>1. /\ Moved(t, "copying", job[t].file, job[t].data, job[t].arg) /\ job[t].at = "copy"
        /\ job[t].op = "import" /\ job[t].file # "store"
    BY <1>2, GoesIs, JobsShaped DEF ImportOpens, TypesInv
  <2>2. job[t].file \in Files
    BY <1>0, <2>1, AtOf
  <2>3. tmp' = tmp /\ DiskRest(job[t].file) /\ OpenedBy(disk'[job[t].file], disk[job[t].file], t)
    BY <1>0, <1>2, <2>2, PlaceOpensIs DEF ImportOpens
  <2>4. dir' = TRUE /\ told' = told /\ reseeded' = reseeded
    BY <1>2 DEF ImportOpens, MakesDirs, storevars, TypesInv, DataTyped
  <2> QED BY <1>2, <2>1, <2>3, <2>4 DEF ImportOpens, ImportDoes
<1>3. CASE ImportSkips(t)
  <2>1. /\ Moved(t, "copy", FollowingFile(t), Absent, job[t].arg) /\ job[t].at = "copy"
        /\ job[t].op = "import" /\ job[t].file # "store"
    BY <1>3, CarriesIs, JobsShaped DEF ImportSkips, TypesInv
  <2> QED BY <1>3, <2>1, StaysStill DEF ImportSkips, ImportDoes, Still, DataStill
<1>4. CASE ImportWrites(t)
  <2>1. Moved(t, "copy", FollowingFile(t), Absent, job[t].arg) /\ job[t].at = "copying"
    BY <1>4, CarriesIs, JobsShaped DEF ImportWrites, TypesInv
  <2>2. job[t].op = "import" /\ JobFormed(job[t])
    BY <2>1, AtOf, JobsFormed
  <2>3. job[t].file \in Files
    BY <1>0, <2>1, <2>2 DEF JobFormed, Idling, Creating, Updating, Deleting, Filtering, Ingesting, Building,
     Generating, Training, Evaluating, Exporting, Importing, Generators
  <2>4. PlaceWritten(t, job[t].file, corpora[job[t].arg.name][job[t].file])
    BY <1>0, <1>4, <2>3, PlaceWritesIs DEF ImportWrites
  <2> QED BY <1>4, <2>1, <2>2, <2>4, StaysStill DEF ImportWrites, ImportDoes, storevars, DataStill
<1>5. CASE ImportCopiesStore(t)
  <2>1. Done(t)
    BY <1>5, EndsDone DEF ImportCopiesStore, TypesInv
  <2> QED BY <1>5, <2>1 DEF ImportCopiesStore, MakesDirs, ImportDoes, FilesStill
<1> QED BY <1>1, <1>2, <1>3, <1>4, <1>5

LEMMA StepDoes ==
  ASSUME TypesInv, NEW t \in Tasks, Step(t)
  PROVE  Does(t)
<1>1. CASE BreaksOff(t)
  <2>1. Done(t)
    BY <1>1, EndsDone DEF BreaksOff, TypesInv
  <2>2. AllLeft(t)
    BY <1>1, LeavesFilesIs DEF BreaksOff, AllLeft, TypesInv, FilesTyped
  <2> QED BY <1>1, <2>1, <2>2, StaysStill DEF BreaksOff, Does, BreakDoes
<1>2. CASE CorpusStep(t)
  BY <1>2, ExportsDoes, ImportsDoes DEF CorpusStep, Does
<1>3. CASE Deletes(t)
  BY <1>3, DeletesDoes DEF Does
<1> QED BY <1>1, <1>2, <1>3, StoreDoes, DataDoes DEF Step

Base == TypesInv /\ WritersInv /\ HandlesInv

\* What is known of a step of t.
Steps(t) == Kind(t) /\ FilesStep(t) /\ Does(t)

LEMMA StepSteps == ASSUME TypesInv, NEW t \in Tasks, Step(t) PROVE Steps(t)
BY StepKind, StepFiles, StepDoes DEF Steps

LEMMA StutterIs ==
  ASSUME UNCHANGED vars
  PROVE  /\ dir' = dir /\ disk' = disk /\ tmp' = tmp /\ job' = job /\ raced' = raced
         /\ told' = told /\ reseeded' = reseeded /\ index' = index /\ trained' = trained
         /\ flags' = flags /\ calm' = calm /\ corpora' = corpora
BY DEF vars, filevars, storevars, datavars

LEMMA BaseInit == ASSUME Init PROVE Base
BY TypesInit, WritersInit, HandlesInit DEF Base

LEMMA BaseStep == ASSUME Base, [Next]_vars PROVE Base'
<1>1. TypesInv'
  BY TypesStep DEF Base
<1>2. CASE Next
  <2>1. PICK t \in Tasks : Step(t)
    BY <1>2 DEF Next
  <2>2. Steps(t)
    BY <2>1, StepSteps DEF Base
  <2> QED BY <1>1, <2>2, WritersKept, HandlesKept DEF Steps, Base
<1>3. CASE UNCHANGED vars
  <2>1. WritersInv'
    BY <1>3, StutterIs DEF Base, WritersInv, RacedInv, AloneInv, ToWrite
  <2>2. HandlesInv'
    BY <1>3, StutterIs DEF Base, HandlesInv, InPlace
  <2> QED BY <1>1, <2>1, <2>2 DEF Base
<1> QED BY <1>2, <1>3

---------------------------------------------------------------------------
\* The last step of a delete.
Deleted(t) ==
  /\ job[t].op = "delete" /\ Vanishes(t)
  /\ \A f \in Files : disk'[f] = NoFile /\ tmp'[f] = NoFile
  /\ dir' = FALSE /\ reseeded' = FALSE /\ told' = told /\ flags' = flags /\ corpora' = corpora
  /\ index' = Absent /\ calm' = {} /\ trained' = Untrained

Grows == raced \subseteq raced'

LEMMA KeepsRaced ==
  ASSUME NEW t, NEW op, NEW at, NEW file, NEW d, NEW a,
         Begun(t, op, at, file, d, a) \/ Moved(t, at, file, d, a) \/ Done(t)
  PROVE  Grows
BY DEF Grows, Begun, Moved, Done

LEMMA DoesGrows ==
  ASSUME TypesInv, NEW t \in Tasks, Does(t)
  PROVE  Deleted(t) \/ Grows
<1>1. CASE CreateDoes(t)
  BY <1>1, KeepsRaced DEF CreateDoes, ConfigOpened
<1>2. CASE UpdateDoes(t)
  BY <1>2, KeepsRaced DEF UpdateDoes, ConfigOpened
<1>3. CASE DeleteDoes(t)
  BY <1>3, KeepsRaced, AtOf DEF DeleteDoes, Deleted
<1>4. CASE FilterDoes(t)
  BY <1>4, KeepsRaced DEF FilterDoes, SwapPut
<1>5. CASE IngestDoes(t)
  BY <1>5, KeepsRaced DEF IngestDoes, SwapPut, SwapOpened
<1>6. CASE BuildDoes(t)
  BY <1>6, KeepsRaced DEF BuildDoes, SwapPut, SwapOpened
<1>7. CASE GenerateDoes(t)
  BY <1>7, KeepsRaced DEF GenerateDoes, SwapPut, SwapOpened, ConfigOpened
<1>8. CASE TrainDoes(t) \/ BreakDoes(t)
  BY <1>8, KeepsRaced DEF TrainDoes, BreakDoes
<1>9. CASE EvalDoes(t)
  BY <1>9, KeepsRaced DEF EvalDoes
<1>10. CASE ExportDoes(t)
  BY <1>10, KeepsRaced DEF ExportDoes
<1>11. CASE ImportDoes(t)
  BY <1>11, KeepsRaced DEF ImportDoes
<1> QED BY <1>1, <1>2, <1>3, <1>4, <1>5, <1>6, <1>7, <1>8, <1>9, <1>10, <1>11 DEF Does

\* While nobody wrote g beside t, nobody else does.
LEMMA SoleWriter ==
  ASSUME Base, WritersInv', NEW t \in Tasks, Kind(t), Grows, NEW g \in {"toml", "chunks"}, g \notin raced',
         g \in ToWrite(t) \/ g \in ToWrite(t)'
  PROVE  g \notin raced /\ \A u \in Tasks \ {t} : g \notin ToWrite(u) /\ g \notin ToWrite(u)'
<1>1. g \notin raced
  BY DEF Grows
<1>2. ASSUME NEW u \in Tasks \ {t} PROVE ToWrite(u)' = ToWrite(u)
  BY OthersKept DEF Base
<1>3. ASSUME NEW u \in Tasks \ {t} PROVE g \notin ToWrite(u)
  <2>1. CASE g \in ToWrite(t)
    BY <1>1, <2>1 DEF Base, WritersInv, RacedInv
  <2>2. CASE g \in ToWrite(t)'
    BY <1>2, <2>2 DEF WritersInv, RacedInv
  <2> QED BY <2>1, <2>2
<1> QED BY <1>1, <1>2, <1>3

\* Once the project is gone, only tasks that overlap a delete still write to it.
LEMMA DeletedLeaves ==
  ASSUME Base, NEW t \in Tasks, Kind(t), Deleted(t), NEW g \in {"toml", "chunks"}, g \notin raced'
  PROVE  \A u \in Tasks : g \notin ToWrite(u)'
<1>1. ToWrite(t) = {"toml", "chunks", "prepared", "pairs"} /\ ToWrite(t)' = {}
  BY DEF Deleted, Vanishes, ToWrite, Writes
<1>2. ASSUME NEW u \in Tasks \ {t} PROVE g \notin ToWrite(u)
  BY <1>1 DEF Base, WritersInv, RacedInv, Deleted, Vanishes
<1>3. ASSUME NEW u \in Tasks \ {t} PROVE ToWrite(u)' = ToWrite(u)
  BY OthersKept DEF Base
<1> QED BY <1>1, <1>2, <1>3

---------------------------------------------------------------------------
(* chunks.jsonl                                                            *)

ChunksJob(t) ==
  /\ job[t].at = "opened" => t \in tmp["chunks"].open
  /\ job[t].at = "written" => tmp["chunks"].data = job[t].data
  /\ job[t].op = "filter" => job[t].data = Flagged(flags, job[t].arg)

ChunksFile ==
  /\ ~tmp["chunks"].shared /\ disk["chunks"].open = {}
  /\ disk["chunks"].data \in {Absent, flags}

ChunksInv ==
  "chunks" \notin raced =>
    ChunksFile /\ \A t \in Tasks : "chunks" \in ToWrite(t) => ChunksJob(t)

ChunkWriters ==
  \A t \in Tasks :
    /\ "chunks" \in ToWrite(t) <=> job[t].op \in {"delete", "filter", "ingest"}
    /\ job[t].file = "chunks" => job[t].op \in {"filter", "ingest"}

LEMMA ChunkWritersAre == (TypesInv => ChunkWriters) /\ (TypesInv => ChunkWriters)'
<1>1. ASSUME TypesInv PROVE ChunkWriters
  <2>1. ASSUME NEW t \in Tasks
        PROVE  /\ "chunks" \in ToWrite(t) <=> job[t].op \in {"delete", "filter", "ingest"}
               /\ job[t].file = "chunks" => job[t].op \in {"filter", "ingest"}
    <3>1. JobFormed(job[t])
      BY <1>1, JobsFormed
    <3> QED BY <3>1 DEF JobFormed, Idling, Creating, Updating, Deleting, Filtering, Ingesting, Building,
         Generating, Training, Evaluating, Exporting, Importing, Generators, ToWrite, Writes
  <2> QED BY <2>1 DEF ChunkWriters
<1>2. TypesInv => ChunkWriters
  BY <1>1
<1> QED BY <1>2, PTL

\* A task without chunks.jsonl in its hands leaves it.
LEMMA ChunksLeft ==
  ASSUME Base, Base', NEW t \in Tasks, Steps(t), "chunks" \notin ToWrite(t), "chunks" \notin ToWrite(t)'
  PROVE  disk'["chunks"] = disk["chunks"] /\ tmp'["chunks"] = tmp["chunks"] /\ flags' = flags
<1>1. job[t].op \notin {"delete", "filter", "ingest"} /\ job[t].file # "chunks"
  BY ChunkWritersAre DEF Base, ChunkWriters
<1>2. job'[t].op \notin {"delete", "filter", "ingest"} /\ job'[t].file # "chunks"
  BY ChunkWritersAre DEF Base, ChunkWriters
<1>3. ~Concerns(t, "chunks")
  BY <1>1, <1>2 DEF Concerns
<1>4. disk'["chunks"] = disk["chunks"] /\ tmp'["chunks"] = tmp["chunks"]
  BY <1>3, FileFrame DEF Base, Files, Steps
<1>5. flags' = flags
  <2>1. ~FilterDoes(t)
    BY <1>1, <1>2 DEF FilterDoes, Begun
  <2>2. ~IngestDoes(t)
    BY <1>1, <1>2 DEF IngestDoes, Begun
  <2>3. ASSUME DataStill PROVE flags' = flags
    BY <2>3 DEF DataStill
  <2> QED BY <2>1, <2>2, <2>3 DEF Steps, Does, CreateDoes, UpdateDoes, DeleteDoes, BuildDoes, GenerateDoes,
     TrainDoes, EvalDoes, ExportDoes, ImportDoes, BreakDoes
<1> QED BY <1>4, <1>5

LEMMA FlaggedIs ==
  ASSUME TypesInv, Present("chunks"), disk["chunks"].data \in {Absent, flags}
  PROVE  Readings("chunks", Chunks) = {flags}
BY SentinelsAssumption DEF TypesInv, DataTyped, Readings, Present

\* The steps of a task that has chunks.jsonl for itself.
LEMMA ChunksWritten ==
  ASSUME Base, Base', NEW t \in Tasks, Steps(t), Grows, ChunksFile,
         "chunks" \in ToWrite(t) => ChunksJob(t),
         "chunks" \in ToWrite(t) \/ "chunks" \in ToWrite(t)',
         \A u \in Tasks \ {t} : "chunks" \notin ToWrite(u)
  PROVE  ChunksFile' /\ ("chunks" \in ToWrite(t)' => ChunksJob(t)')
<1>0. "chunks" \in Files /\ Absent # Torn
  BY FilesAssumption DEF Files
<1>1. tmp["chunks"].open \subseteq {t}
  <2>1. ASSUME NEW u \in Tasks, u # t, u \in tmp["chunks"].open PROVE FALSE
    <3>1. job[u].file = "chunks"
      BY <1>0, <2>1 DEF Base, HandlesInv
    <3> QED BY <2>1, <3>1, ChunkWritersAre DEF Base, ChunkWriters
  <2> QED BY <1>0, <2>1 DEF Base, TypesInv, FilesTyped, FileTyped
<1>2. job[t].at # "opened" => tmp["chunks"].open = {}
  BY <1>0, <1>1 DEF Base, HandlesInv
<1>3. job[t].op # "none" /\ "chunks" \in ToWrite(t)' => job'[t].op = job[t].op
  BY ChunkWritersAre DEF Base, ChunkWriters, Steps, Kind, Starts, GoesOn, Vanishes, Begun, Moved, JobIs,
     Done, ToWrite, Writes
<1>4. job[t].op \in {"delete", "filter", "ingest"} \/ (job[t].op = "none" /\ job'[t].op \in {"delete", "filter", "ingest"})
  <2>1. "chunks" \in ToWrite(t)' => job'[t].op \in {"delete", "filter", "ingest"}
    BY ChunkWritersAre DEF Base, ChunkWriters
  <2> QED BY <2>1, <1>3, ChunkWritersAre DEF Base, ChunkWriters
<1>p. ASSUME job[t].op \in {"filter", "ingest"}, SwapPut(t), flags' = flags
      PROVE  ChunksFile' /\ ChunksJob(t)'
  <2>1. job[t].file = "chunks" /\ "chunks" \in ToWrite(t)
    BY <1>p, AtOf, ChunkWritersAre DEF SwapPut, Base, ChunkWriters
  <2>2. Lines(job[t]) = job[t].data
    BY <2>1 DEF Lines
  <2>3. SwapWritten(t, "chunks", job[t].data) /\ job[t].at = "opened"
    BY <1>p, <2>1, <2>2 DEF SwapPut
  <2>4. disk' = disk /\ WrittenBy(tmp'["chunks"], tmp["chunks"], t, job[t].data)
    BY <2>1, <2>3 DEF ChunksJob, SwapWritten
  <2> QED BY <1>p, <2>1, <2>4 DEF SwapPut, Moved, JobIs, WrittenBy, ChunksFile, ChunksJob
<1>r. ASSUME job[t].op \in {"filter", "ingest"}, job[t].at = "written", RenamedTo("chunks"), Done(t),
             flags' = job[t].data
      PROVE  ChunksFile' /\ ChunksJob(t)'
  <2>1. tmp["chunks"].data = job[t].data /\ tmp["chunks"].open = {}
    BY <1>2, <1>r, ChunkWritersAre DEF Base, ChunkWriters, ChunksJob
  <2> QED BY <1>r, <2>1, NoFileIs DEF RenamedTo, Done, ChunksFile, ChunksJob
<1>5. CASE FilterDoes(t)
  <2>1. ASSUME NEW included \in Readings("chunks", Chunks), NEW arg,
               Begun(t, "filter", "opened", "chunks", Flagged(included, arg), arg), Present("chunks"),
               disk' = disk, TmpRest("chunks"), OpenedBy(tmp'["chunks"], tmp["chunks"], t), flags' = flags
        PROVE  ChunksFile' /\ ChunksJob(t)'
    <3>1. included = flags
      BY <2>1, FlaggedIs DEF Base, ChunksFile
    <3>2. job[t].at = "idle"
      BY <2>1, IdleAt DEF Base, Begun
    <3>3. ~tmp'["chunks"].shared /\ t \in tmp'["chunks"].open
      BY <1>2, <2>1, <3>2 DEF OpenedBy
    <3>4. job'[t].at = "opened" /\ job'[t].data = Flagged(flags, arg) /\ job'[t].arg = arg
      BY <2>1, <3>1 DEF Begun
    <3> QED BY <2>1, <3>3, <3>4 DEF ChunksFile, ChunksJob, Flagged
  <2>2. CASE job[t].op = "filter" /\ SwapPut(t) /\ flags' = flags
    BY <1>p, <2>2
  <2>3. CASE /\ job[t].op = "filter" /\ job[t].at = "written" /\ RenamedTo("chunks") /\ Done(t)
             /\ flags' = Flagged(flags, job[t].arg)
    BY <1>r, <2>3, ChunkWritersAre DEF Base, ChunkWriters, ChunksJob
  <2> QED BY <1>5, <2>1, <2>2, <2>3 DEF FilterDoes
<1>6. CASE IngestDoes(t)
  <2>1. ASSUME NEW kept, Begun(t, "ingest", "open", "chunks", kept, "first"), Still, DataStill
        PROVE  ChunksFile' /\ ChunksJob(t)'
    BY <2>1 DEF Begun, Still, FilesStill, DataStill, ChunksFile, ChunksJob
  <2>2. CASE job[t].op = "ingest" /\ SwapOpened(t) /\ DataStill
    <3>1. job[t].file = "chunks"
      BY <2>2, AtOf DEF SwapOpened, Base
    <3> QED BY <1>2, <2>2, <3>1 DEF SwapOpened, Moved, JobIs, OpenedBy, DataStill, ChunksFile, ChunksJob
  <2>3. CASE job[t].op = "ingest" /\ SwapPut(t) /\ DataStill
    BY <1>p, <2>3 DEF DataStill
  <2>4. ASSUME NEW kept, job[t].op = "ingest", Moved(t, "open", job[t].file, kept, "retry"), AllLeft(t), DataStill
        PROVE  ChunksFile' /\ ChunksJob(t)'
    <3>1. LeftBy(disk'["chunks"], disk["chunks"], t) /\ LeftBy(tmp'["chunks"], tmp["chunks"], t)
      BY <1>0, <2>4 DEF AllLeft
    <3> QED BY <2>4, <3>1 DEF LeftBy, Moved, JobIs, DataStill, ChunksFile, ChunksJob
  <2>5. CASE job[t].op = "ingest" /\ job[t].at = "written" /\ RenamedTo("chunks") /\ Done(t) /\ flags' = job[t].data
    BY <1>r, <2>5
  <2>6. CASE job[t].op = "ingest" /\ job[t].at = "written" /\ Dropped("chunks") /\ Done(t) /\ DataStill
    BY <2>6, NoFileIs DEF Dropped, Done, DataStill, ChunksFile, ChunksJob
  <2>7. ASSUME NEW kept, job[t].op = "ingest", job[t].at = "written", RenamedTo("chunks"),
               Moved(t, "open", job[t].file, kept, "retry"), flags' = job[t].data
        PROVE  ChunksFile' /\ ChunksJob(t)'
    <3>1. tmp["chunks"].data = job[t].data /\ tmp["chunks"].open = {}
      BY <1>2, <2>7, ChunkWritersAre DEF Base, ChunkWriters, ChunksJob
    <3> QED BY <2>7, <3>1, NoFileIs DEF RenamedTo, Moved, JobIs, ChunksFile, ChunksJob
  <2> QED BY <1>6, <2>1, <2>2, <2>3, <2>4, <2>5, <2>6, <2>7 DEF IngestDoes
<1>7. CASE DeleteDoes(t)
  <2>1. disk'["chunks"] \in {disk["chunks"], NoFile} /\ tmp'["chunks"] \in {tmp["chunks"], NoFile} /\ flags' = flags
    BY <1>0, <1>7 DEF DeleteDoes, Still, FilesStill
  <2>2. ChunksFile'
    BY <2>1, NoFileIs DEF ChunksFile
  <2>3. job'[t].op \in {"delete", "none"} /\ job'[t].at \notin {"opened", "written"}
    BY <1>7 DEF DeleteDoes, Begun, Moved, JobIs, Vanishes
  <2> QED BY <2>2, <2>3 DEF ChunksJob
<1>8. CASE BreakDoes(t)
  <2>1. LeftBy(disk'["chunks"], disk["chunks"], t) /\ LeftBy(tmp'["chunks"], tmp["chunks"], t)
    BY <1>0, <1>8 DEF BreakDoes, AllLeft
  <2> QED BY <1>8, <2>1 DEF BreakDoes, DataStill, LeftBy, Done, ChunksFile, ChunksJob
<1>9. FilterDoes(t) \/ IngestDoes(t) \/ DeleteDoes(t) \/ BreakDoes(t)
  <2> USE <1>4
  <2>1. ~CreateDoes(t) /\ ~UpdateDoes(t)
    BY DEF CreateDoes, UpdateDoes, Updates, Begun
  <2>2. ~BuildDoes(t) /\ ~TrainDoes(t) /\ ~EvalDoes(t)
    BY DEF BuildDoes, TrainDoes, EvalDoes, Begun
  <2>3. ~GenerateDoes(t)
    BY DEF GenerateDoes, Generators, Begun
  <2>4. ~ExportDoes(t)
    BY DEF ExportDoes, Begun
  <2>5. ~ImportDoes(t)
    BY AtOf DEF ImportDoes, Begun, Base
  <2> QED BY <2>1, <2>2, <2>3, <2>4, <2>5 DEF Steps, Does
<1> QED BY <1>5, <1>6, <1>7, <1>8, <1>9

LEMMA ChunksKept ==
  ASSUME Base, Base', ChunksInv, NEW t \in Tasks, Steps(t)
  PROVE  ChunksInv'
<1> SUFFICES ASSUME "chunks" \notin raced'
             PROVE  ChunksFile' /\ \A u \in Tasks : "chunks" \in ToWrite(u)' => ChunksJob(u)'
  BY DEF ChunksInv, ChunksFile, ChunksJob
<1>1. CASE Deleted(t)
  <2>1. disk'["chunks"] = NoFile /\ tmp'["chunks"] = NoFile
    BY <1>1 DEF Deleted, Files
  <2>2. ChunksFile'
    BY <2>1, NoFileIs DEF ChunksFile
  <2> QED BY <1>1, <2>2, DeletedLeaves DEF Steps
<1>2. CASE Grows
  <2>1. ChunksFile /\ \A u \in Tasks : "chunks" \in ToWrite(u) => ChunksJob(u)
    BY <1>2 DEF Grows, ChunksInv
  <2>2. CASE "chunks" \notin ToWrite(t) /\ "chunks" \notin ToWrite(t)'
    <3>1. disk'["chunks"] = disk["chunks"] /\ tmp'["chunks"] = tmp["chunks"] /\ flags' = flags
      BY <2>2, ChunksLeft
    <3>2. ASSUME NEW u \in Tasks, "chunks" \in ToWrite(u)' PROVE ChunksJob(u)'
      <4>1. u # t
        BY <2>2, <3>2
      <4>2. /\ job'[u].op = job[u].op /\ job'[u].at = job[u].at /\ job'[u].file = job[u].file
            /\ job'[u].data = job[u].data /\ job'[u].arg = job[u].arg /\ ToWrite(u)' = ToWrite(u)
        BY <4>1, OthersKept DEF Base, Steps
      <4> QED BY <2>1, <3>1, <3>2, <4>2 DEF ChunksJob
    <3> QED BY <2>1, <3>1, <3>2 DEF ChunksFile
  <2>3. CASE "chunks" \in ToWrite(t) \/ "chunks" \in ToWrite(t)'
    <3>1. \A u \in Tasks \ {t} : "chunks" \notin ToWrite(u) /\ "chunks" \notin ToWrite(u)'
      BY <1>2, <2>3, SoleWriter DEF Base, Steps
    <3>2. ChunksFile' /\ ("chunks" \in ToWrite(t)' => ChunksJob(t)')
      BY <1>2, <2>1, <2>3, <3>1, ChunksWritten
    <3> QED BY <3>1, <3>2
  <2> QED BY <2>2, <2>3
<1> QED BY <1>1, <1>2, DoesGrows DEF Base, Steps

---------------------------------------------------------------------------
(* project.toml                                                            *)

Intended(t) ==
  IF job[t].op = "create" THEN Fresh
  ELSE [told EXCEPT ![Field(job[t].op)] = job[t].arg[Field(job[t].op)]]

ConfigJob(t) ==
  /\ job[t].at = "config_opened" => t \in disk["toml"].open
  /\ job[t].at \in {"config", "config_opened"} => job[t].arg = Intended(t)

ConfigFile ==
  /\ ~disk["toml"].shared /\ disk["toml"].data \in {Absent, Torn, told}
  /\ disk["toml"].data = Torn => disk["toml"].open # {} \/ disk["toml"].cut

ConfigInv ==
  "toml" \notin raced =>
    ConfigFile /\ \A t \in Tasks : "toml" \in ToWrite(t) => ConfigJob(t)

ConfigWriters ==
  \A t \in Tasks :
    /\ "toml" \in ToWrite(t) <=> \/ job[t].op \in {"create", "delete"} \cup Updates
                                 \/ job[t].op \in Generators /\ job[t].at \in Early
    /\ job[t].at \in {"config", "config_opened"} => "toml" \in ToWrite(t) /\ job[t].arg \in Configs
    /\ job[t].file # "toml"

LEMMA ConfigWritersAre == (TypesInv => ConfigWriters) /\ (TypesInv => ConfigWriters)'
<1>1. ASSUME TypesInv PROVE ConfigWriters
  <2>1. ASSUME NEW t \in Tasks
        PROVE  /\ "toml" \in ToWrite(t) <=> \/ job[t].op \in {"create", "delete"} \cup Updates
                                            \/ job[t].op \in Generators /\ job[t].at \in Early
               /\ job[t].file # "toml"
    <3>1. JobFormed(job[t])
      BY <1>1, JobsFormed
    <3> QED BY <3>1 DEF JobFormed, Idling, Creating, Updating, Deleting, Filtering, Ingesting, Building,
         Generating, Training, Evaluating, Exporting, Importing, Generators, ToWrite, Writes, Updates, Early
  <2>2. ASSUME NEW t \in Tasks, job[t].at \in {"config", "config_opened"} PROVE job[t].arg \in Configs
    <3>1. JobFormed(job[t])
      BY <1>1, JobsFormed
    <3> QED BY <2>2, <3>1, FreshIs DEF JobFormed, Idling, Creating, Updating, Deleting, Filtering,
       Ingesting, Building,
         Generating, Training, Evaluating, Exporting, Importing, Generators
  <2>3. ASSUME NEW t \in Tasks, job[t].at \in {"config", "config_opened"} PROVE "toml" \in ToWrite(t)
    BY <1>1, <2>1, <2>3, AtOf DEF Early
  <2> QED BY <2>1, <2>2, <2>3 DEF ConfigWriters
<1>2. TypesInv => ConfigWriters
  BY <1>1
<1> QED BY <1>2, PTL

LEMMA OpKept ==
  ASSUME NEW t \in Tasks, Kind(t)
  PROVE  job[t].op = "none" \/ job'[t].op = job[t].op \/ job'[t].op = "none"
<1>1. CASE Starts(t)
  BY <1>1 DEF Starts, Begun
<1>2. CASE GoesOn(t)
  BY <1>2 DEF GoesOn, Moved, JobIs
<1>3. CASE Done(t) \/ Vanishes(t)
  BY <1>3 DEF Done, Vanishes
<1> QED BY <1>1, <1>2, <1>3 DEF Kind

\* A task that does not write project.toml leaves it.
LEMMA ConfigLeft ==
  ASSUME Base, Base', NEW t \in Tasks, Steps(t), "toml" \notin ToWrite(t), "toml" \notin ToWrite(t)'
  PROVE  disk'["toml"] = disk["toml"] /\ told' = told
<1>1. job[t].op # "delete" /\ job[t].file # "toml" /\ job'[t].file # "toml"
      /\ job[t].at \notin {"config", "config_opened"} /\ job[t].op # "create"
  BY ConfigWritersAre DEF Base, ConfigWriters
<1>2. ~Concerns(t, "toml")
  BY <1>1 DEF Concerns
<1>3. disk'["toml"] = disk["toml"]
  BY <1>2, FileFrame DEF Base, Files, Steps
<1>4. told' = told
  <2>1. ~ConfigWritten(t)
    BY <1>1 DEF ConfigWritten
  <2>2. ASSUME Still PROVE told' = told
    BY <2>2 DEF Still
  <2> QED BY <2>1, <2>2 DEF Steps, Does, CreateDoes, UpdateDoes, DeleteDoes, FilterDoes, IngestDoes, BuildDoes,
     GenerateDoes, TrainDoes, EvalDoes, ExportDoes, ImportDoes, BreakDoes, ConfigOpened
<1> QED BY <1>3, <1>4

LEMMA FieldIs ==
  ASSUME NEW op \in Updates \cup Generators
  PROVE  Field(op) \in {"seed", "synth_model", "last_run_id"} /\ (op \in Generators => Field(op) = "seed")
BY DEF Field, Updates, Generators

\* The steps of a task that has project.toml for itself.
LEMMA ConfigPut ==
  ASSUME Base, Base', NEW t \in Tasks, Steps(t), Grows, ConfigFile,
         "toml" \in ToWrite(t) => ConfigJob(t),
         "toml" \in ToWrite(t) \/ "toml" \in ToWrite(t)',
         \A u \in Tasks \ {t} : "toml" \notin ToWrite(u)
  PROVE  ConfigFile' /\ ("toml" \in ToWrite(t)' => ConfigJob(t)')
<1>0. "toml" \in Files /\ Absent # Torn /\ told \in Configs
  BY FilesAssumption DEF Files, Base, TypesInv, DataTyped
<1>1. disk["toml"].open \subseteq {t}
  <2>1. ASSUME NEW u \in Tasks, u # t, u \in disk["toml"].open PROVE FALSE
    <3>1. job[u].at = "config_opened" \/ job[u].file = "toml"
      BY <1>0, <2>1 DEF Base, HandlesInv, InPlace
    <3> QED BY <2>1, <3>1, ConfigWritersAre DEF Base, ConfigWriters
  <2> QED BY <1>0, <2>1 DEF Base, TypesInv, FilesTyped, FileTyped
<1>2. job[t].at # "config_opened" => disk["toml"].open = {}
  <2>1. job[t].file # "toml"
    BY ConfigWritersAre DEF Base, ConfigWriters
  <2> QED BY <1>0, <1>1, <2>1 DEF Base, HandlesInv, InPlace
<1>s. ASSUME disk' = disk, told' = told, job'[t].at \notin {"config", "config_opened"}
      PROVE  ConfigFile' /\ ConfigJob(t)'
  BY <1>s DEF ConfigFile, ConfigJob
<1>p. ASSUME NEW v, job[t].op \in Updates \cup Generators, disk["toml"].data \in Configs, disk' = disk, told' = told,
             Moved(t, "config", job[t].file, job[t].data, [disk["toml"].data EXCEPT ![Field(job[t].op)] = v])
      PROVE  ConfigFile' /\ ConfigJob(t)'
  <2>1. disk["toml"].data = told
    BY <1>p, StoreAssumption DEF ConfigFile
  <2>2. PICK field \in {"seed", "synth_model", "last_run_id"} : field = Field(job[t].op)
    BY <1>p, FieldIs
  <2>3. /\ job'[t].op = job[t].op /\ job'[t].at = "config" /\ job[t].op # "create"
        /\ job'[t].arg = [told EXCEPT ![field] = v]
    BY <1>p, <2>1, <2>2 DEF Moved, JobIs, Updates, Generators
  <2>4. job'[t].arg[field] = v
    BY <1>0, <2>2, <2>3 DEF Configs
  <2>5. job'[t].arg = [told EXCEPT ![field] = job'[t].arg[field]]
    BY <2>3, <2>4
  <2>6. ConfigJob(t)'
    BY <1>p, <2>2, <2>3, <2>5 DEF ConfigJob, Intended
  <2> QED BY <1>p, <2>6 DEF ConfigFile
<1>o. ASSUME ConfigOpened(t) PROVE ConfigFile' /\ ConfigJob(t)'
  <2>1. "toml" \in ToWrite(t) /\ job[t].at = "config"
    BY <1>o, ConfigWritersAre DEF ConfigOpened, Base, ConfigWriters
  <2>2. OpenedBy(disk'["toml"], disk["toml"], t) /\ disk["toml"].open = {}
    BY <1>2, <1>o, <2>1 DEF ConfigOpened
  <2>3. job[t].arg = Intended(t)
    BY <2>1 DEF ConfigJob
  <2>4. job'[t].op = job[t].op /\ job'[t].arg = job[t].arg /\ told' = told /\ job'[t].at = "config_opened"
    BY <1>o DEF ConfigOpened, Moved, JobIs
  <2>5. ConfigJob(t)'
    BY <2>2, <2>3, <2>4 DEF ConfigJob, Intended, OpenedBy
  <2> QED BY <2>2, <2>5 DEF ConfigFile, OpenedBy
<1>w. ASSUME ConfigWritten(t), told' = Intended(t), job'[t].at \notin {"config", "config_opened"}
      PROVE  ConfigFile' /\ ConfigJob(t)'
  <2>1. "toml" \in ToWrite(t) /\ job[t].at = "config_opened" /\ job[t].arg \in Configs
    BY <1>w, ConfigWritersAre DEF ConfigWritten, Base, ConfigWriters
  <2>2. t \in disk["toml"].open /\ job[t].arg = Intended(t)
    BY <2>1 DEF ConfigJob
  <2>3. WrittenBy(disk'["toml"], disk["toml"], t, job[t].arg)
    BY <1>w, <2>2 DEF ConfigWritten, PlaceWritten
  <2>4. disk'["toml"].data = told' /\ ~disk'["toml"].shared /\ disk'["toml"].data # Torn
    BY <1>w, <2>1, <2>2, <2>3, StoreAssumption DEF WrittenBy, ConfigFile
  <2> QED BY <1>w, <2>4 DEF ConfigFile, ConfigJob
<1>f. ASSUME FieldTold(t), job[t].op # "create" PROVE told' = Intended(t)
  BY <1>f DEF FieldTold, Intended
<1>b. ASSUME NEW op, NEW at, NEW file, NEW d, NEW a, Begun(t, op, at, file, d, a), Still,
             at \notin {"config", "config_opened"}
      PROVE  ConfigFile' /\ ConfigJob(t)'
  BY <1>b, <1>s DEF Still, FilesStill, Begun
<1>3. CASE CreateDoes(t)
  <2>1. CASE /\ job[t].op = "create" /\ Moved(t, "config", job[t].file, job[t].data, Fresh)
             /\ FilesStill /\ told' = told
    BY <2>1 DEF Moved, JobIs, FilesStill, ConfigFile, ConfigJob, Intended
  <2>2. CASE job[t].op = "create" /\ ConfigWritten(t) /\ told' = Fresh /\ Done(t)
    BY <1>w, <2>2 DEF Done, Intended
  <2> QED BY <1>3, <1>b, <1>o, <2>1, <2>2 DEF CreateDoes
<1>4. CASE UpdateDoes(t)
  <2>1. CASE job[t].op \in Updates /\ ConfigWritten(t) /\ FieldTold(t) /\ Done(t)
    BY <1>f, <1>w, <2>1 DEF Done, Updates
  <2>2. CASE /\ job[t].op \in Updates /\ disk["toml"].data \in Configs /\ Still
             /\ Moved(t, "config", job[t].file, job[t].data, [disk["toml"].data EXCEPT ![Field(job[t].op)] = TRUE])
    BY <1>p, <2>2 DEF Still, FilesStill
  <2> QED BY <1>4, <1>b, <1>o, <2>1, <2>2 DEF UpdateDoes
<1>5. CASE DeleteDoes(t)
  <2>1. disk'["toml"] \in {disk["toml"], NoFile} /\ told' = told
    BY <1>0, <1>5 DEF DeleteDoes, Still, FilesStill
  <2>2. ConfigFile'
    BY <1>0, <2>1, NoFileIs DEF ConfigFile
  <2>3. job'[t].at \notin {"config", "config_opened"}
    BY <1>5 DEF DeleteDoes, Begun, Moved, JobIs, Vanishes
  <2> QED BY <2>2, <2>3 DEF ConfigJob
<1>6. CASE BreakDoes(t)
  <2>1. LeftBy(disk'["toml"], disk["toml"], t) /\ told' = told /\ job'[t].at \notin {"config", "config_opened"}
    BY <1>0, <1>6 DEF BreakDoes, AllLeft, Done
  <2> QED BY <2>1 DEF LeftBy, ConfigFile, ConfigJob
<1>7. CASE GenerateDoes(t)
  <2>1. CASE job[t].op \in Generators /\ ConfigWritten(t) /\ FieldTold(t)
             /\ Moved(t, "work", job[t].file, job[t].data, job[t].arg)
    <3>1. job[t].op # "create" /\ job'[t].at = "work"
      BY <2>1 DEF Generators, Moved, JobIs
    <3> QED BY <1>f, <1>w, <2>1, <3>1
  <2>2. ASSUME NEW s \in Seeds, job[t].op \in Generators, disk["toml"].data \in Configs, FilesStill, told' = told,
               Moved(t, "config", job[t].file, job[t].data, [disk["toml"].data EXCEPT !["seed"] = s])
        PROVE  ConfigFile' /\ ConfigJob(t)'
    <3>1. Field(job[t].op) = "seed"
      BY <2>2, FieldIs
    <3>2. Moved(t, "config", job[t].file, job[t].data, [disk["toml"].data EXCEPT ![Field(job[t].op)] = s])
      BY <2>2, <3>1
    <3> QED BY <1>p, <2>2, <3>2 DEF FilesStill
  <2>3. CASE job[t].op \in Generators /\ Still /\ Moved(t, "work", job[t].file, job[t].data, disk["toml"].data)
    BY <1>s, <2>3 DEF Still, FilesStill, Moved, JobIs
  <2>4. CASE job[t].op \in Generators /\ job[t].at \notin Early
    <3>1. "toml" \notin ToWrite(t)
      BY <2>4, ConfigWritersAre DEF Base, ConfigWriters, Updates, Generators
    <3>2. "toml" \notin ToWrite(t)'
      BY <2>4, <3>1, ConfigWritersAre DEF Base, ConfigWriters, Steps, Kind, Starts, GoesOn, Begun, Moved, JobIs,
         Done, Vanishes, Generators, Updates
    <3> QED BY <3>1, <3>2
  <2>5. \/ job[t].op = "none" \/ job[t].at = "get"
        \/ job[t].op \in Generators /\ ConfigOpened(t)
        \/ /\ job[t].op \in Generators /\ ConfigWritten(t) /\ FieldTold(t)
           /\ Moved(t, "work", job[t].file, job[t].data, job[t].arg)
        \/ job[t].op \in Generators /\ job[t].at \notin Early
    BY <1>7 DEF GenerateDoes, Early, SwapOpened, SwapPut, Begun
  <2>6. CASE job[t].op = "none"
    <3>1. "none" \notin Generators
      BY DEF Generators
    <3>2. \E op \in Generators : \E d : Begun(t, op, "get", "none", d, Absent) /\ Still
      BY <1>7, <2>6, <3>1 DEF GenerateDoes
    <3> QED BY <1>b, <3>2
  <2>7. CASE job[t].at = "get" /\ job[t].op # "none"
    <3>1. \/ /\ job[t].op \in Generators /\ disk["toml"].data \in Configs /\ FilesStill /\ told' = told
             /\ \E s \in Seeds :
                  Moved(t, "config", job[t].file, job[t].data, [disk["toml"].data EXCEPT !["seed"] = s])
          \/ job[t].op \in Generators /\ Still /\ Moved(t, "work", job[t].file, job[t].data, disk["toml"].data)
      BY <1>7, <2>7 DEF GenerateDoes, ConfigOpened, ConfigWritten, SwapOpened, SwapPut, Begun
    <3> QED BY <2>2, <2>3, <3>1
  <2> QED BY <1>o, <2>1, <2>4, <2>5, <2>6, <2>7
<1>8. CreateDoes(t) \/ UpdateDoes(t) \/ DeleteDoes(t) \/ BreakDoes(t) \/ GenerateDoes(t)
  <2>1. \/ job[t].op \in {"create", "delete"} \cup Updates \cup Generators
        \/ job[t].op = "none" /\ job'[t].op \in {"create", "delete"} \cup Updates \cup Generators
    <3>1. CASE "toml" \in ToWrite(t)
      BY <3>1, ConfigWritersAre DEF Base, ConfigWriters
    <3>2. CASE "toml" \in ToWrite(t)'
      <4>1. job'[t].op \in {"create", "delete"} \cup Updates \cup Generators
        BY <3>2, ConfigWritersAre DEF Base, ConfigWriters
      <4>2. job[t].op = "none" \/ job'[t].op \in {job[t].op, "none"}
        BY OpKept DEF Base, Steps
      <4> QED BY <4>1, <4>2 DEF Updates, Generators
    <3> QED BY <3>1, <3>2
  <2> USE <2>1
  <2>2. ~FilterDoes(t) /\ ~IngestDoes(t) /\ ~BuildDoes(t)
    BY DEF FilterDoes, IngestDoes, BuildDoes, Begun, Updates, Generators
  <2>3. ~TrainDoes(t) /\ ~EvalDoes(t)
    BY DEF TrainDoes, EvalDoes, Begun, Updates, Generators
  <2>4. ~ExportDoes(t)
    BY DEF ExportDoes, Begun, Updates, Generators
  <2>5. ~ImportDoes(t)
    BY AtOf DEF ImportDoes, Begun, Base, Updates, Generators
  <2> QED BY <2>2, <2>3, <2>4, <2>5 DEF Steps, Does
<1> QED BY <1>3, <1>4, <1>5, <1>6, <1>7, <1>8

LEMMA ConfigKept ==
  ASSUME Base, Base', ConfigInv, NEW t \in Tasks, Steps(t)
  PROVE  ConfigInv'
<1> SUFFICES ASSUME "toml" \notin raced'
             PROVE  ConfigFile' /\ \A u \in Tasks : "toml" \in ToWrite(u)' => ConfigJob(u)'
  BY DEF ConfigInv, ConfigFile, ConfigJob, Intended
<1>1. CASE Deleted(t)
  <2>1. disk'["toml"] = NoFile
    BY <1>1 DEF Deleted, Files
  <2>2. ConfigFile'
    BY <2>1, NoFileIs, FilesAssumption DEF ConfigFile
  <2> QED BY <1>1, <2>2, DeletedLeaves DEF Steps
<1>2. CASE Grows
  <2>1. ConfigFile /\ \A u \in Tasks : "toml" \in ToWrite(u) => ConfigJob(u)
    BY <1>2 DEF Grows, ConfigInv
  <2>2. CASE "toml" \notin ToWrite(t) /\ "toml" \notin ToWrite(t)'
    <3>1. disk'["toml"] = disk["toml"] /\ told' = told
      BY <2>2, ConfigLeft
    <3>2. ASSUME NEW u \in Tasks, "toml" \in ToWrite(u)' PROVE ConfigJob(u)'
      <4>1. u # t
        BY <2>2, <3>2
      <4>2. /\ job'[u].op = job[u].op /\ job'[u].at = job[u].at /\ job'[u].file = job[u].file
            /\ job'[u].data = job[u].data /\ job'[u].arg = job[u].arg /\ ToWrite(u)' = ToWrite(u)
        BY <4>1, OthersKept DEF Base, Steps
      <4> QED BY <2>1, <3>1, <3>2, <4>2 DEF ConfigJob, Intended
    <3> QED BY <2>1, <3>1, <3>2 DEF ConfigFile
  <2>3. CASE "toml" \in ToWrite(t) \/ "toml" \in ToWrite(t)'
    <3>1. \A u \in Tasks \ {t} : "toml" \notin ToWrite(u) /\ "toml" \notin ToWrite(u)'
      BY <1>2, <2>3, SoleWriter DEF Base, Steps
    <3>2. ConfigFile' /\ ("toml" \in ToWrite(t)' => ConfigJob(t)')
      BY <1>2, <2>1, <2>3, <3>1, ConfigPut
    <3> QED BY <3>1, <3>2
  <2> QED BY <2>2, <2>3
<1> QED BY <1>1, <1>2, DoesGrows DEF Base, Steps

---------------------------------------------------------------------------
EditsInv == Base /\ ChunksInv /\ ConfigInv

LEMMA EditsInit == ASSUME Init PROVE EditsInv
<1>1. \A t \in Tasks : ToWrite(t) = {}
  <2>1. \A t \in Tasks : job[t].op = "none"
    BY DEF Init, Idle, Job
  <2> QED BY <2>1, TypesInit, NoneToWrite
<1>2. PICK stage \in Stages : Beginning(stage)
  BY InitIs
<1>3. tmp["chunks"] = NoFile
  BY DEF Init, Files
<1>4. ChunksFile
  BY <1>2, <1>3, FileIs, NoFileIs DEF Beginning, ChunksFile
<1>5. ConfigFile
  <2>1. disk["toml"] \in {File(told), NoFile} /\ told \in Configs
    BY <1>2 DEF Beginning
  <2>2. told # Torn
    BY <2>1, StoreAssumption
  <2> QED BY <2>1, <2>2, FileIs, NoFileIs, FilesAssumption DEF ConfigFile
<1> QED BY <1>1, <1>4, <1>5, BaseInit DEF EditsInv, ChunksInv, ConfigInv

LEMMA EditsStep == ASSUME EditsInv, [Next]_vars PROVE EditsInv'
<1>1. Base'
  BY BaseStep DEF EditsInv
<1>2. CASE Next
  <2>1. PICK t \in Tasks : Step(t)
    BY <1>2 DEF Next
  <2>2. Steps(t)
    BY <2>1, StepSteps DEF EditsInv, Base
  <2> QED BY <1>1, <2>2, ChunksKept, ConfigKept DEF EditsInv
<1>3. CASE UNCHANGED vars
  <2>1. ChunksInv'
    BY <1>3, StutterIs DEF EditsInv, ChunksInv, ChunksFile, ChunksJob, ToWrite
  <2>2. ConfigInv'
    BY <1>3, StutterIs DEF EditsInv, ConfigInv, ConfigFile, ConfigJob, Intended, ToWrite
  <2> QED BY <1>1, <2>1, <2>2 DEF EditsInv
<1> QED BY <1>2, <1>3

\* What filter_chunks, ingest_source and the writers of project.toml completed
\* is there in every state, and project.toml is torn only while it is written or
\* by a writer that broke off, for any tasks, chunks and configurations.
THEOREM EditsSurviveAlways == Spec => []EditsSurvive
<1>1. Init => EditsInv
  BY EditsInit
<1>2. EditsInv /\ [Next]_vars => EditsInv'
  BY EditsStep
<1>3. EditsInv => EditsSurvive
  BY DEF EditsInv, ChunksInv, ChunksFile, ConfigInv, ConfigFile, EditsSurvive, Present
<1> QED BY <1>1, <1>2, <1>3, PTL DEF Spec

---------------------------------------------------------------------------
(* What each operation leaves as it is                                     *)

\* The operation a step of t belongs to.
Acts(t) == IF job[t].op = "none" THEN job'[t].op ELSE job[t].op

OpActs(t) ==
  /\ CreateDoes(t) => Acts(t) = "create"
  /\ UpdateDoes(t) => Acts(t) \in Updates
  /\ DeleteDoes(t) => Acts(t) = "delete"
  /\ FilterDoes(t) => Acts(t) = "filter"
  /\ IngestDoes(t) => Acts(t) = "ingest"
  /\ BuildDoes(t) => Acts(t) = "build"
  /\ GenerateDoes(t) => Acts(t) \in Generators
  /\ TrainDoes(t) => Acts(t) = "train"
  /\ EvalDoes(t) => Acts(t) = "eval"
  /\ ExportDoes(t) => Acts(t) = "export"
  /\ ImportDoes(t) => Acts(t) = "import"
  /\ BreakDoes(t) => Acts(t) = job[t].op

LEMMA ActsAre == ASSUME TypesInv, NEW t \in Tasks PROVE OpActs(t)
<1>1. CreateDoes(t) => Acts(t) = "create"
  BY DEF CreateDoes, Begun, Acts
<1>2. UpdateDoes(t) => Acts(t) \in Updates
  BY DEF UpdateDoes, Begun, Acts, Updates
<1>3. DeleteDoes(t) => Acts(t) = "delete"
  BY AtOf DEF DeleteDoes, Begun, Acts
<1>4. FilterDoes(t) => Acts(t) = "filter"
  BY DEF FilterDoes, Begun, Acts
<1>5. IngestDoes(t) => Acts(t) = "ingest"
  BY DEF IngestDoes, Begun, Acts
<1>6. BuildDoes(t) => Acts(t) = "build"
  BY DEF BuildDoes, Begun, Acts
<1>7. GenerateDoes(t) => Acts(t) \in Generators
  BY DEF GenerateDoes, Begun, Acts, Generators
<1>8. (TrainDoes(t) => Acts(t) = "train") /\ (EvalDoes(t) => Acts(t) = "eval")
  BY DEF TrainDoes, EvalDoes, Begun, Acts
<1>9. ExportDoes(t) => Acts(t) = "export"
  BY DEF ExportDoes, Begun, Acts
<1>10. ImportDoes(t) => Acts(t) = "import"
  BY AtOf DEF ImportDoes, Begun, Acts
<1>11. BreakDoes(t) => Acts(t) = job[t].op
  BY DEF BreakDoes, Acts
<1> QED BY <1>1, <1>2, <1>3, <1>4, <1>5, <1>6, <1>7, <1>8, <1>9, <1>10, <1>11 DEF OpActs

\* What belongs to whom.
Writers ==
  \A t \in Tasks :
    /\ "prepared" \in ToWrite(t) <=> job[t].op \in {"delete", "build", "import"}
    /\ "pairs" \in ToWrite(t) <=> job[t].op \in {"delete", "import"} \cup Generators
    /\ "corpus" \in ToWrite(t) <=> job[t].op = "export"
    /\ job[t].file = "rag" => job[t].op \in {"build", "export", "import"}
    /\ job[t].file \in {"sft", "eval"} => job[t].op \in {"export", "import"} \cup Generators
    /\ job[t].op \in {"none", "export"} => job[t].at \notin {"open", "opened", "written", "copying"} \cup Early

LEMMA WritersAre == (TypesInv => Writers) /\ (TypesInv => Writers)'
<1>1. ASSUME TypesInv PROVE Writers
  <2>1. ASSUME NEW t \in Tasks
        PROVE  /\ "prepared" \in ToWrite(t) <=> job[t].op \in {"delete", "build", "import"}
               /\ "pairs" \in ToWrite(t) <=> job[t].op \in {"delete", "import"} \cup Generators
               /\ "corpus" \in ToWrite(t) <=> job[t].op = "export"
    <3>1. JobFormed(job[t])
      BY <1>1, JobsFormed
    <3> QED BY <3>1 DEF JobFormed, Idling, Creating, Updating, Deleting, Filtering, Ingesting, Building,
         Generating, Training, Evaluating, Exporting, Importing, Generators, ToWrite, Writes, Updates
  <2>2. ASSUME NEW t \in Tasks
        PROVE  /\ job[t].file = "rag" => job[t].op \in {"build", "export", "import"}
               /\ job[t].file \in {"sft", "eval"} => job[t].op \in {"export", "import"} \cup Generators
               /\ job[t].op \in {"none", "export"} =>
                    job[t].at \notin {"open", "opened", "written", "copying"} \cup Early
    <3>1. JobFormed(job[t])
      BY <1>1, JobsFormed
    <3> QED BY <3>1 DEF JobFormed, Idling, Creating, Updating, Deleting, Filtering, Ingesting, Building,
         Generating, Training, Evaluating, Exporting, Importing, Generators, Early
  <2> QED BY <2>1, <2>2 DEF Writers
<1>2. TypesInv => Writers
  BY <1>1
<1> QED BY <1>2, PTL

Kept(f) == disk'[f] = disk[f] /\ tmp'[f] = tmp[f]

\* A file that t has not open is as it was once t has gone.
LEMMA LeftKept ==
  ASSUME TypesInv, TypesInv', NEW t \in Tasks, NEW f \in Files,
         LeftBy(disk'[f], disk[f], t), LeftBy(tmp'[f], tmp[f], t), t \notin disk[f].open, t \notin tmp[f].open
  PROVE  Kept(f)
<1>1. /\ IsFile(disk'[f]) /\ IsFile(disk[f]) /\ disk'[f].cut \in BOOLEAN /\ disk[f].cut \in BOOLEAN
      /\ IsFile(tmp'[f]) /\ IsFile(tmp[f]) /\ tmp'[f].cut \in BOOLEAN /\ tmp[f].cut \in BOOLEAN
  BY DEF TypesInv, FilesTyped, FilesShaped
<1>2. disk'[f].cut = disk[f].cut /\ tmp'[f].cut = tmp[f].cut
  BY <1>1 DEF LeftBy
<1>3. disk'[f] = disk[f]
  BY <1>1, <1>2 DEF LeftBy, IsFile
<1>4. tmp'[f] = tmp[f]
  BY <1>1, <1>2 DEF LeftBy, IsFile
<1> QED BY <1>3, <1>4 DEF Kept

\* An export reads the files only.
LEMMA ExportKeeps ==
  ASSUME Base, Base', NEW t \in Tasks, Steps(t), Acts(t) = "export", NEW f \in Files
  PROVE  Kept(f)
<1>1. job[t].op \in {"none", "export"} /\ job'[t].op \in {"none", "export"}
  BY OpKept DEF Acts, Steps
<1>2. job[t].at \notin {"open", "opened", "written", "copying", "config_opened"}
      /\ job'[t].at \notin {"open", "opened", "written", "copying", "config_opened"}
  BY <1>1, WritersAre DEF Base, Writers, Early
<1>3. t \notin disk[f].open /\ t \notin tmp[f].open
  BY <1>2 DEF Base, HandlesInv, InPlace
<1>4. CASE LeftAll(t)
  BY <1>3, <1>4, LeftKept DEF LeftAll, Base
<1>5. CASE ~LeftAll(t)
  BY <1>1, <1>2, <1>5 DEF Steps, FilesStep, Untouched, Removed, SwapStarted, SwapFilled, PlaceStarted,
     PlaceFilled,
    SwapEnded, InPlace, Kept
<1> QED BY <1>4, <1>5

LEMMA PreparedKept ==
  ASSUME Base, Base', NEW t \in Tasks, Steps(t), "prepared" \notin ToWrite(t), "prepared" \notin ToWrite(t)'
  PROVE  Kept("rag") /\ index' = index
<1>1. job[t].op \notin {"delete", "build", "import"} /\ job'[t].op \notin {"delete", "build", "import"}
  BY WritersAre DEF Base, Writers
<1>2. Kept("rag")
  <2>1. CASE Acts(t) = "export"
    BY <2>1, ExportKeeps DEF Files
  <2>2. CASE Acts(t) # "export"
    <3>1. job[t].op # "export" /\ job'[t].op # "export"
      BY <2>2, OpKept DEF Acts, Steps
    <3>2. ~Concerns(t, "rag")
      BY <1>1, <3>1, WritersAre DEF Base, Writers, Concerns
    <3> QED BY <3>2, FileFrame DEF Base, Files, Steps, Kept
  <2> QED BY <2>1, <2>2
<1>3. Acts(t) \notin {"delete", "build", "import"}
  BY <1>1 DEF Acts
<1>4. index' = index
  <2>1. ~DeleteDoes(t) /\ ~BuildDoes(t) /\ ~ImportDoes(t)
    BY <1>3, ActsAre DEF OpActs, Base
  <2>2. ASSUME DataStill PROVE index' = index
    BY <2>2 DEF DataStill
  <2> QED BY <2>1, <2>2 DEF Steps, Does, CreateDoes, UpdateDoes, FilterDoes, IngestDoes, GenerateDoes,
     TrainDoes,
     EvalDoes, ExportDoes, BreakDoes
<1> QED BY <1>2, <1>4

LEMMA PairsKept ==
  ASSUME Base, Base', NEW t \in Tasks, Steps(t), "pairs" \notin ToWrite(t), "pairs" \notin ToWrite(t)'
  PROVE  Kept("sft") /\ Kept("eval")
<1>1. job[t].op \notin {"delete", "import"} \cup Generators /\ job'[t].op \notin {"delete", "import"} \cup Generators
  BY WritersAre DEF Base, Writers
<1> SUFFICES ASSUME NEW f \in {"sft", "eval"} PROVE Kept(f)
  OBVIOUS
<1>2. CASE Acts(t) = "export"
  BY <1>2, ExportKeeps DEF Files
<1>3. CASE Acts(t) # "export"
  <2>1. job[t].op # "export" /\ job'[t].op # "export"
    BY <1>3, OpKept DEF Acts, Steps
  <2>2. ~Concerns(t, f)
    BY <1>1, <2>1, WritersAre DEF Base, Writers, Concerns
  <2> QED BY <2>2, FileFrame DEF Base, Files, Steps, Kept
<1> QED BY <1>2, <1>3

LEMMA CorporaKept ==
  ASSUME TypesInv, NEW t \in Tasks, Steps(t), Acts(t) # "export"
  PROVE  corpora' = corpora
<1>1. ~ExportDoes(t)
  BY ActsAre DEF OpActs
<1> QED BY <1>1 DEF Steps, Does, CreateDoes, UpdateDoes, DeleteDoes, FilterDoes, IngestDoes, BuildDoes,
   GenerateDoes,
  TrainDoes, EvalDoes, ImportDoes, BreakDoes

\* What an operation that met no rival reads or writes, no other writes.
LEMMA AloneKept ==
  ASSUME Base, Base', NEW t \in Tasks, Steps(t), NEW u \in Tasks \ {t}, job'[u].alone,
         NEW g, g \in ToWrite(u) \/ g \in Reads[job[u].op]
  PROVE  g \notin ToWrite(t) /\ g \notin ToWrite(t)'
<1>1. job[u].alone /\ ToWrite(u)' = ToWrite(u) /\ job'[u].op = job[u].op
  BY OthersKept DEF Base, Steps
<1>2. g \notin ToWrite(t)
  BY <1>1 DEF Base, WritersInv, AloneInv
<1>3. g \notin ToWrite(t)'
  BY <1>1 DEF Base, WritersInv, AloneInv
<1> QED BY <1>2, <1>3

\* Nor has another the files open.
HandlesFor(f, g) == \A t \in Tasks : job[t].file = f /\ job[t].at \in {"opened", "copying"} => g \in ToWrite(t)

LEMMA HandlesAre ==
  ASSUME TypesInv
  PROVE  HandlesFor("chunks", "chunks") /\ HandlesFor("rag", "prepared") /\ HandlesFor("sft", "pairs")
         /\ HandlesFor("eval", "pairs")
<1>1. ASSUME NEW t \in Tasks, job[t].at \in {"opened", "copying"} PROVE job[t].op # "export"
  BY <1>1, WritersAre DEF Writers
<1> QED BY <1>1, WritersAre, ChunkWritersAre DEF Writers, ChunkWriters, HandlesFor

LEMMA AloneHandles ==
  ASSUME Base, NEW t \in Tasks, job[t].alone, NEW f \in Files \ {"toml"}, NEW g, HandlesFor(f, g),
         g \in ToWrite(t) \/ g \in Reads[job[t].op]
  PROVE  disk[f].open \subseteq {t} /\ tmp[f].open \subseteq {t}
<1>1. ASSUME NEW u \in Tasks \ {t}, u \in disk[f].open \/ u \in tmp[f].open PROVE FALSE
  <2>1. job[u].file = f /\ job[u].at \in {"opened", "copying"}
    BY <1>1 DEF Base, HandlesInv, InPlace
  <2>2. g \in ToWrite(u)
    BY <2>1 DEF HandlesFor
  <2> QED BY <2>2 DEF Base, WritersInv, AloneInv
<1>2. disk[f].open \subseteq Tasks /\ tmp[f].open \subseteq Tasks
  BY DEF Base, TypesInv, FilesTyped, FileTyped
<1> QED BY <1>1, <1>2

---------------------------------------------------------------------------
(* What is prepared: the swaps of rag.jsonl, sft.jsonl and eval.jsonl      *)

\* The steps an operation takes, or the one that breaks it off.
ActsChoice(t) ==
  /\ Acts(t) = "delete" => DeleteDoes(t) \/ BreakDoes(t)
  /\ Acts(t) \in {"filter", "ingest"} => FilterDoes(t) \/ IngestDoes(t) \/ BreakDoes(t)
  /\ Acts(t) = "build" => BuildDoes(t) \/ BreakDoes(t)
  /\ Acts(t) \in Generators => GenerateDoes(t) \/ BreakDoes(t)
  /\ Acts(t) = "eval" => EvalDoes(t) \/ BreakDoes(t)
  /\ Acts(t) = "export" => ExportDoes(t) \/ BreakDoes(t)
  /\ Acts(t) = "import" => ImportDoes(t) \/ BreakDoes(t)

LEMMA ActsChosen == ASSUME TypesInv, NEW t \in Tasks, Does(t) PROVE ActsChoice(t)
<1>1. OpActs(t)
  BY ActsAre
<1> QED BY <1>1 DEF OpActs, Does, ActsChoice, Generators, Updates

\* The operation a job goes on with.
LEMMA ActsOn ==
  ASSUME NEW t \in Tasks, Kind(t), job'[t].op # "none"
  PROVE  Acts(t) = job'[t].op /\ (job[t].op # "none" => job'[t].op = job[t].op)
BY OpKept DEF Acts

LEMMA BreakEnds == ASSUME NEW t \in Tasks, BreakDoes(t) PROVE job'[t].op = "none"
BY DEF BreakDoes, Done

\* Only a build, an import or a generator makes anything calm.
LEMMA CalmKept ==
  ASSUME TypesInv, NEW t \in Tasks, Steps(t)
  PROVE  /\ Acts(t) \notin {"build", "import"} => \A x \in {"current", "index"} : x \in calm' => x \in calm
         /\ Acts(t) \notin {"import"} \cup Generators /\ "pairs" \in calm' => "pairs" \in calm
<1>1. OpActs(t)
  BY ActsAre
<1>2. ASSUME DataStill \/ calm' = {} \/ calm' = calm PROVE calm' \subseteq calm
  BY <1>2 DEF DataStill
<1>3. CASE CreateDoes(t) \/ UpdateDoes(t) \/ TrainDoes(t) \/ EvalDoes(t) \/ ExportDoes(t) \/ BreakDoes(t)
  BY <1>2, <1>3 DEF CreateDoes, UpdateDoes, TrainDoes, EvalDoes, ExportDoes, BreakDoes
<1>4. CASE DeleteDoes(t)
  BY <1>2, <1>4 DEF DeleteDoes
<1>5. CASE FilterDoes(t)
  BY <1>5 DEF FilterDoes
<1>6. CASE IngestDoes(t)
  BY <1>6 DEF IngestDoes, DataStill
<1>7. CASE BuildDoes(t)
  <2>1. Acts(t) = "build"
    BY <1>1, <1>7 DEF OpActs
  <2> QED BY <1>7, <2>1 DEF BuildDoes, DataStill
<1>8. CASE GenerateDoes(t)
  <2>1. Acts(t) \in Generators
    BY <1>1, <1>8 DEF OpActs
  <2> QED BY <1>8, <2>1 DEF GenerateDoes
<1>9. CASE ImportDoes(t)
  BY <1>1, <1>9 DEF OpActs
<1> QED BY <1>3, <1>4, <1>5, <1>6, <1>7, <1>8, <1>9 DEF Steps, Does

---------------------------------------------------------------------------
Swappers == {"build"} \cup Generators

\* A swap that meets no rival has its temporary to itself.
SwapJob(t) ==
  /\ job[t].at = "opened" => t \in tmp[job[t].file].open /\ ~tmp[job[t].file].shared
  /\ job[t].at = "written" => /\ tmp[job[t].file].data = Lines(job[t]) /\ tmp[job[t].file].open = {}

SwapInv == \A t \in Tasks : job[t].op \in Swappers /\ job[t].alone => SwapJob(t)

\* The file a swapper is at, and what it is part of.
Swapping(t) ==
  /\ job[t].at \in {"open", "opened", "written"} =>
       \/ job[t].op = "build" /\ job[t].file = "rag"
       \/ job[t].op \in Generators /\ job[t].file \in {"sft", "eval"}
  /\ job[t].op = "build" => "prepared" \in ToWrite(t)
  /\ job[t].op \in Generators => "pairs" \in ToWrite(t)

LEMMA SwappingIs ==
  ASSUME Base, NEW t \in Tasks, job[t].op \in Swappers
  PROVE  Swapping(t)
<1>1. "build" \notin Generators
  BY DEF Generators
<1> QED BY <1>1, AtOf, WritersAre DEF Base, Writers, Swapping, Swappers

LEMMA TmpAlone ==
  ASSUME Base, NEW t \in Tasks, job[t].op \in Swappers, job[t].alone, job[t].at \in {"open", "opened", "written"}
  PROVE  tmp[job[t].file].open \subseteq {t} /\ disk[job[t].file].open \subseteq {t}
<1>1. Swapping(t)
  BY SwappingIs
<1>2. CASE job[t].op = "build"
  <2>1. job[t].file = "rag" /\ "prepared" \in ToWrite(t)
    BY <1>1, <1>2 DEF Swapping, Generators
  <2> QED BY <2>1, AloneHandles, HandlesAre DEF Base, Files
<1>3. CASE job[t].op \in Generators
  <2>1. job[t].file \in {"sft", "eval"} /\ "pairs" \in ToWrite(t)
    BY <1>1, <1>3 DEF Swapping, Generators
  <2> QED BY <2>1, AloneHandles, HandlesAre DEF Base, Files
<1> QED BY <1>2, <1>3 DEF Swappers

\* The steps of a swap: opened, written.
LEMMA SwapOpenedOwn ==
  ASSUME Base, NEW t \in Tasks, job[t].op \in Swappers, job[t].alone, SwapOpened(t)
  PROVE  SwapJob(t)'
<1>1. tmp[job[t].file].open = {}
  <2>1. tmp[job[t].file].open \subseteq {t} /\ job[t].file \in Files
    BY TmpAlone, AtOf DEF SwapOpened, Base, Files
  <2>2. t \notin tmp[job[t].file].open
    BY <2>1 DEF Base, HandlesInv, SwapOpened
  <2> QED BY <2>1, <2>2
<1> QED BY <1>1 DEF SwapOpened, Moved, JobIs, OpenedBy, SwapJob

LEMMA SwapPutOwn ==
  ASSUME Base, NEW t \in Tasks, job[t].op \in Swappers, job[t].alone, SwapJob(t), SwapPut(t)
  PROVE  SwapJob(t)' /\ disk' = disk
<1>1. t \in tmp[job[t].file].open /\ ~tmp[job[t].file].shared /\ tmp[job[t].file].open \subseteq {t}
  BY TmpAlone DEF SwapPut, SwapJob
<1>2. disk' = disk /\ WrittenBy(tmp'[job[t].file], tmp[job[t].file], t, Lines(job[t]))
  BY <1>1 DEF SwapPut, SwapWritten
<1>3. /\ job'[t].at = "written" /\ job'[t].file = job[t].file /\ job'[t].data = job[t].data
  BY DEF SwapPut, Moved, JobIs
<1>4. Lines(job'[t]) = Lines(job[t])
  BY <1>3 DEF Lines
<1> QED BY <1>1, <1>2, <1>3, <1>4 DEF WrittenBy, SwapJob

LEMMA SwapKept ==
  ASSUME Base, Base', SwapInv, NEW t \in Tasks, Steps(t)
  PROVE  SwapInv'
<1> SUFFICES ASSUME NEW u \in Tasks, job'[u].op \in Swappers, job'[u].alone PROVE SwapJob(u)'
  BY DEF SwapInv
<1>1. CASE u # t
  <2>1. /\ job'[u].op = job[u].op /\ job'[u].at = job[u].at /\ job'[u].file = job[u].file
        /\ job'[u].data = job[u].data /\ job[u].alone
    BY <1>1, OthersKept DEF Base, Steps
  <2>2. SwapJob(u) /\ Swapping(u)
    BY <2>1, SwappingIs DEF SwapInv
  <2>3. CASE job[u].at \in {"opened", "written"}
    <3>1. tmp'[job[u].file] = tmp[job[u].file]
      <4>1. CASE job[u].op = "build" /\ job[u].file = "rag"
        <5>1. "prepared" \in ToWrite(u)
          BY <2>2, <4>1 DEF Swapping
        <5> QED BY <1>1, <4>1, <5>1, AloneKept, PreparedKept DEF Kept
      <4>2. CASE job[u].op \in Generators /\ job[u].file \in {"sft", "eval"}
        <5>1. "pairs" \in ToWrite(u)
          BY <2>2, <4>2 DEF Swapping
        <5> QED BY <1>1, <4>2, <5>1, AloneKept, PairsKept DEF Kept
      <4> QED BY <2>2, <2>3, <4>1, <4>2 DEF Swapping
    <3>2. Lines(job'[u]) = Lines(job[u])
      BY <2>1 DEF Lines
    <3> QED BY <2>1, <2>2, <3>1, <3>2 DEF SwapJob
  <2>4. CASE job[u].at \notin {"opened", "written"}
    BY <2>1, <2>4 DEF SwapJob
  <2> QED BY <2>3, <2>4
<1>2. CASE u = t
  <2> SUFFICES SwapJob(t)'
    BY <1>2
  <2>1. job'[t].op # "none"
    BY <1>2 DEF Swappers, Generators
  <2>2. Acts(t) = job'[t].op /\ ~BreakDoes(t) /\ (job[t].op # "none" => job'[t].op = job[t].op)
    BY <2>1, ActsOn, BreakEnds DEF Steps
  <2>3. SwapJob(t) \/ job[t].op = "none" \/ ~job[t].alone
    BY <1>2, <2>2 DEF SwapInv
  <2>n. ASSUME job'[t].at \notin {"opened", "written"} PROVE SwapJob(t)'
    BY <2>n DEF SwapJob
  <2>o. ASSUME SwapOpened(t), job[t].op \in Swappers PROVE SwapJob(t)'
    <3>1. job[t].alone
      BY <1>2, <2>o DEF SwapOpened, Moved, JobIs
    <3> QED BY <2>o, <3>1, SwapOpenedOwn
  <2>p. ASSUME SwapPut(t), job[t].op \in Swappers PROVE SwapJob(t)'
    <3>1. job[t].alone /\ job[t].op # "none"
      BY <1>2, <2>p DEF SwapPut, Moved, JobIs, Swappers, Generators
    <3> QED BY <2>3, <2>p, <3>1, SwapPutOwn
  <2>4. CASE BuildDoes(t)
    <3>1. CASE \E included : Moved(t, "opened", "rag", included, job[t].arg) /\ Still
               /\ job[t].op = "build" /\ job[t].at = "opened"
      <4>1. job[t].file = "rag" /\ job'[t].file = "rag" /\ job'[t].at = "opened" /\ tmp' = tmp /\ job[t].alone
        BY <1>2, <3>1, AtOf DEF Base, Moved, JobIs, Still, FilesStill
      <4> QED BY <2>3, <3>1, <4>1 DEF SwapJob
    <3>2. CASE job'[t].at \in {"open", "embed", "delete", "add", "idle"}
      BY <2>n, <3>2
    <3> QED BY <2>4, <2>o, <2>p, <3>1, <3>2 DEF BuildDoes, Begun, Moved, JobIs, Done, Swappers
  <2>5. CASE GenerateDoes(t)
    <3>2. CASE job'[t].at \in {"get", "config", "config_opened", "work", "open", "idle"}
      BY <2>n, <3>2
    <3> QED BY <2>5, <2>o, <2>p, <3>2 DEF GenerateDoes, Begun, Moved, JobIs, Done, Swappers, ConfigOpened
  <2> QED BY <1>2, <2>2, <2>4, <2>5, ActsChosen DEF ActsChoice, Swappers, Steps, Base
<1> QED BY <1>1, <1>2

---------------------------------------------------------------------------
(* What is in the prepared files, and in the corpora                       *)

\* sft.jsonl and eval.jsonl are one split.
PairsFile ==
  /\ disk["sft"].data \in PairFiles /\ disk["eval"].data \in PairFiles
  /\ disk["sft"].data.pairs \cap disk["eval"].data.pairs = {}
  /\ disk["sft"].open = {} /\ disk["eval"].open = {}

\* A generator between the two files has put the first of its own.
PairsJob(t) ==
  job[t].op \in Generators /\ job[t].alone /\ job[t].file = "eval" =>
    disk["sft"].data = job[t].data["sft"] /\ disk["sft"].open = {}

PairsInv ==
  /\ "pairs" \in calm => PairsFile /\ \A t \in Tasks : job[t].op \in Generators => job[t].file # "eval"
  /\ \A t \in Tasks : PairsJob(t)

\* The index has the rows of rag.jsonl, and rag.jsonl is of the chunks.
IndexFile ==
  /\ disk["rag"].data \in SUBSET Chunks /\ index # Absent /\ disk["rag"].data \subseteq index
  /\ disk["rag"].open = {}

CurrentFile == disk["chunks"].data = disk["rag"].data /\ disk["chunks"].open = {}

\* What a build reads in chunks.jsonl, if that is whole.
Included == IF disk["chunks"].data = Absent THEN {} ELSE disk["chunks"].data

BuildJob(t) ==
  job[t].op = "build" /\ job[t].alone /\ disk["chunks"].data # Torn =>
    /\ job[t].data # Absent => job[t].data = Included
    /\ job[t].at \in {"embed", "delete", "add"} /\ job[t].data # {} =>
         disk["rag"].data = job[t].data /\ disk["rag"].open = {}
    /\ job[t].at = "add" => job[t].data # {}

BuildInv ==
  /\ "index" \in calm => IndexFile
  /\ "current" \in calm => "index" \in calm /\ CurrentFile
  /\ \A t \in Tasks : BuildJob(t)

\* A listed corpus is as calm as its export found the project.
CorpusOK(c) ==
  /\ ~c.dir => c = NoCorpus
  /\ c.manifest = "whole" =>
       /\ "index" \in c.calm => c.rag \in SUBSET Chunks /\ c.store \in SUBSET Chunks /\ c.rag \subseteq c.store
       /\ "pairs" \in c.calm => /\ c.sft \in PairFiles /\ c.eval \in PairFiles
                                /\ c.sft.pairs \cap c.eval.pairs = {}

CorporaInv == \A k \in Names : CorpusOK(corpora[k])

Before(f, g) ==
  <<f, g>> \in {<<"rag", "sft">>, <<"rag", "eval">>, <<"rag", "store">>, <<"sft", "eval">>, <<"sft", "store">>,
                <<"eval", "store">>}

DatasetFiles == {"rag", "sft", "eval"}

\* What an export has copied so far.
ExportJob(t) ==
  job[t].op = "export" =>
    /\ corpora[job[t].arg].calm = {}
    /\ job[t].at # "mkdir" => corpora[job[t].arg].dir
    /\ job[t].alone =>
         /\ job[t].at = "mkdir" => corpora[job[t].arg] = NoCorpus
         /\ \A f \in DatasetFiles :
              corpora[job[t].arg][f] = IF Before(f, job[t].file) /\ Present(f) THEN Copied(f) ELSE Absent
         /\ job[t].at \in {"manifest", "manifest_opened"} => corpora[job[t].arg].store = index

ExportInv == \A t \in Tasks : ExportJob(t)

\* What an import has copied so far.
ImportJob(t) ==
  job[t].op = "import" /\ job[t].alone =>
    /\ corpora[job[t].arg.name].manifest = "whole"
    /\ job[t].at = "copying" => disk[job[t].file].open = {t} /\ ~disk[job[t].file].shared
    /\ \A f \in DatasetFiles :
         corpora[job[t].arg.name][f] # Absent /\ Before(f, job[t].file) /\ (f = "rag" \/ job[t].arg.include_sft) =>
           disk[f].data = corpora[job[t].arg.name][f] /\ disk[f].open = {}

ImportInv == \A t \in Tasks : ImportJob(t)

Prepared == Base /\ SwapInv /\ PairsInv /\ BuildInv /\ CorporaInv /\ ExportInv /\ ImportInv

---------------------------------------------------------------------------
(* sft.jsonl and eval.jsonl                                                *)

LEMMA PairsOnly ==
  ASSUME Base, NEW t \in Tasks, NEW u \in Tasks \ {t}, job[t].alone, "pairs" \in ToWrite(t)
  PROVE  job[u].op \notin Generators
BY WritersAre DEF Base, WritersInv, AloneInv, Writers

SplitInto(d, ps, held, from) ==
  /\ d["sft"] \in PairFiles /\ d["eval"] \in PairFiles /\ d["sft"].pairs \cap d["eval"].pairs = {}
  /\ d["sft"].from = from /\ d["eval"].from = from
  /\ d["sft"].pairs = ps \ held /\ d["eval"].pairs = held

LEMMA SplitIs ==
  ASSUME NEW ps \in SUBSET Pairs, NEW held \in SUBSET ps, NEW from \in Origins
  PROVE  SplitInto(Split(ps, held, from), ps, held, from)
<1>3. PICK d : d = [sft |-> [pairs |-> ps \ held, from |-> from], eval |-> [pairs |-> held, from |-> from]]
  OBVIOUS
<1>4. d = Split(ps, held, from)
  BY <1>3 DEF Split, PairFile
<1>5. d["sft"] = [pairs |-> ps \ held, from |-> from] /\ d["eval"] = [pairs |-> held, from |-> from]
  BY <1>3
<1>6. d["sft"] \in PairFiles /\ d["eval"] \in PairFiles
  BY <1>5 DEF PairFiles
<1>7. /\ d["sft"].pairs = ps \ held /\ d["sft"].from = from
      /\ d["eval"].pairs = held /\ d["eval"].from = from
  BY <1>5
<1>8. d["sft"].pairs \cap d["eval"].pairs = {}
  BY <1>7
<1>9. SplitInto(d, ps, held, from)
  BY <1>6, <1>7, <1>8 DEF SplitInto
<1> QED BY <1>4, <1>9

\* What a request leaves in the training part with a seed.
Taught(q, seed) == Drawn[q][seed] \ HeldOut[q][seed]

\* What a generator has to write.
LEMMA SplitOf ==
  ASSUME TypesInv, NEW t \in Tasks, job[t].op \in Generators, job[t].at \in {"open", "opened", "written"}
  PROVE  /\ job[t].data["sft"] \in PairFiles /\ job[t].data["eval"] \in PairFiles
         /\ job[t].data["sft"].pairs \cap job[t].data["eval"].pairs = {}
         /\ job[t].arg.seed \in Seeds
         /\ job[t].data["sft"].from \in Requests =>
              job[t].data["sft"].pairs = Taught(job[t].data["sft"].from, job[t].arg.seed)
         /\ job[t].data["eval"].from \in Requests =>
              job[t].data["eval"].pairs = HeldOut[job[t].data["eval"].from][job[t].arg.seed]
<1>2. Generating(job[t])
  BY FormOf DEF FormOfOp
<1>3. SplitBy(job[t].op, job[t].data, job[t].arg.seed) /\ job[t].arg.seed \in Seeds
  BY <1>2 DEF Generating, SeededConfigs
<1>4. PICK ps \in SUBSET Pairs, held \in SUBSET Pairs, from \in Origins :
        /\ held \subseteq ps /\ job[t].data = Split(ps, held, from)
        /\ job[t].op = "generate" => from = "synth"
        /\ job[t].op = "import_hf" =>
             from \in Requests /\ ps = Drawn[from][job[t].arg.seed] /\ held = HeldOut[from][job[t].arg.seed]
  BY <1>3 DEF SplitBy
<1>5. SplitInto(job[t].data, ps, held, from)
  BY <1>4, SplitIs
<1>6. from \in Requests => ps = Drawn[from][job[t].arg.seed] /\ held = HeldOut[from][job[t].arg.seed]
  BY <1>4, DatasetsAssumption DEF Generators
<1> QED BY <1>3, <1>5, <1>6 DEF SplitInto, Taught

\* Neither file changes.
PairsStill == \A f \in {"sft", "eval"} : disk'[f].data = disk[f].data /\ disk'[f].open = disk[f].open

LEMMA PairsFileStill ==
  ASSUME PairsFile, PairsStill
  PROVE  PairsFile'
BY DEF PairsFile, PairsStill

\* What t leaves to the others while it leaves the pairs, or they have them for themselves.
LEMMA OthersPairs ==
  ASSUME Base, Base', PairsInv, NEW t \in Tasks, Steps(t), NEW u \in Tasks \ {t}
  PROVE  PairsJob(u)'
<1> SUFFICES ASSUME job'[u].op \in Generators, job'[u].alone, job'[u].file = "eval"
             PROVE  disk'["sft"].data = job'[u].data["sft"] /\ disk'["sft"].open = {}
  BY DEF PairsJob
<1>1. /\ job'[u].op = job[u].op /\ job'[u].file = job[u].file /\ job'[u].data = job[u].data /\ job[u].alone
  BY OthersKept DEF Base, Steps
<1>2. "pairs" \in ToWrite(u)
  BY <1>1, WritersAre DEF Base, Writers
<1>3. disk'["sft"] = disk["sft"]
  BY <1>2, AloneKept, PairsKept DEF Kept
<1> QED BY <1>1, <1>3 DEF PairsInv, PairsJob

\* A step that leaves the files as they are, or closes them.
LEMMA PairsIdle ==
  ASSUME Base, Base', PairsInv, NEW t \in Tasks, Steps(t),
         "pairs" \in calm' => "pairs" \in calm,
         "pairs" \in calm => PairsStill,
         job'[t].op \in Generators /\ job'[t].file = "eval" =>
           job[t].op \in Generators /\ job[t].file = "eval",
         PairsJob(t)'
  PROVE  PairsInv'
<1>1. \A u \in Tasks : PairsJob(u)'
  BY OthersPairs
<1>2. ASSUME "pairs" \in calm' PROVE PairsFile'
  BY <1>2, PairsFileStill DEF PairsInv
<1>3. ASSUME "pairs" \in calm', NEW u \in Tasks, job'[u].op \in Generators PROVE job'[u].file # "eval"
  <2>1. CASE u = t
    BY <1>3, <2>1 DEF PairsInv
  <2>2. CASE u # t
    <3>1. job'[u].op = job[u].op /\ job'[u].file = job[u].file
      BY <2>2, OthersKept DEF Base, Steps
    <3> QED BY <1>3, <3>1 DEF PairsInv
  <2> QED BY <2>1, <2>2
<1> QED BY <1>1, <1>2, <1>3 DEF PairsInv

\* What a write of t does to a file nobody has open.
LEMMA ClosedStill ==
  ASSUME NEW t, NEW f, NEW d, disk[f].open = {}, SwapWritten(t, f, d) \/ PlaceWritten(t, f, d)
  PROVE  disk' = disk \/ (TmpRest(f) /\ disk' = disk)
BY DEF SwapWritten, PlaceWritten

LEMMA LeftStill ==
  ASSUME NEW t, NEW f \in Files, AllLeft(t), disk[f].open = {}
  PROVE  disk'[f].data = disk[f].data /\ disk'[f].open = disk[f].open
BY DEF AllLeft, LeftBy

---------------------------------------------------------------------------
(* The generators and the pairs                                            *)

\* t goes on where it was, and so are the files.
LEMMA PairsMoved ==
  ASSUME Base, Base', PairsInv, NEW t \in Tasks, Steps(t), calm' = calm,
         disk'["sft"] = disk["sft"], disk'["eval"] = disk["eval"],
         NEW at, NEW a, Moved(t, at, job[t].file, job[t].data, a)
  PROVE  PairsInv'
<1>1. /\ job'[t].op = job[t].op /\ job'[t].file = job[t].file /\ job'[t].data = job[t].data
      /\ job'[t].alone = job[t].alone
  BY DEF Moved, JobIs
<1>2. PairsJob(t)'
  <2>1. PairsJob(t)
    BY DEF PairsInv
  <2>2. ASSUME job'[t].op \in Generators, job'[t].alone, job'[t].file = "eval"
        PROVE  disk'["sft"].data = job'[t].data["sft"] /\ disk'["sft"].open = {}
    <3>1. disk["sft"].data = job[t].data["sft"] /\ disk["sft"].open = {}
      BY <1>1, <2>1, <2>2 DEF PairsJob
    <3> QED BY <1>1, <3>1
  <2> QED BY <2>2 DEF PairsJob
<1>3. PairsStill
  BY DEF PairsStill
<1> QED BY <1>1, <1>2, <1>3, PairsIdle

LEMMA PairsEnded ==
  ASSUME Base, Base', PairsInv, NEW t \in Tasks, Steps(t), "pairs" \in calm' => "pairs" \in calm,
         "pairs" \in calm => PairsStill, job'[t].op \notin Generators \/ job'[t].file # "eval"
  PROVE  PairsInv'
<1>1. PairsJob(t)'
  BY DEF PairsJob
<1> QED BY <1>1, PairsIdle

LEMMA PairsGenerate ==
  ASSUME Base, Base', SwapInv, PairsInv, NEW t \in Tasks, Steps(t), GenerateDoes(t)
  PROVE  PairsInv'
<1>0. {"sft", "eval", "toml"} \subseteq Files
  BY DEF Files
<1>1. ASSUME NEW op, NEW d, Begun(t, op, "get", "none", d, Absent), Still, calm' = calm PROVE PairsInv'
  BY <1>1, PairsEnded DEF Begun, Still, FilesStill, PairsStill
<1>2. ASSUME NEW at, NEW a, Moved(t, at, job[t].file, job[t].data, a), FilesStill, calm' = calm PROVE PairsInv'
  BY <1>2, PairsMoved DEF FilesStill
<1>3. CASE ConfigOpened(t) /\ calm' = calm
  BY <1>0, <1>3, PairsMoved DEF ConfigOpened, DiskRest
<1>4. CASE ConfigWritten(t) /\ calm' = calm /\ Moved(t, "work", job[t].file, job[t].data, job[t].arg)
  <2>1. disk'["sft"] = disk["sft"] /\ disk'["eval"] = disk["eval"]
    BY <1>0, <1>4 DEF ConfigWritten, PlaceWritten, DiskRest
  <2> QED BY <1>4, <2>1, PairsMoved
<1>5. ASSUME NEW d, Moved(t, "open", "sft", d, job[t].arg), Still, calm' = calm
      PROVE  PairsInv'
  <2>1. job'[t].file = "sft"
    BY <1>5 DEF Moved, JobIs
  <2> QED BY <1>5, <2>1, PairsEnded DEF Still, FilesStill, PairsStill
<1>6. CASE SwapOpened(t) /\ calm' = calm
  BY <1>6, PairsMoved DEF SwapOpened
<1>7. CASE SwapPut(t) /\ calm' = calm /\ job[t].op \in Generators
  <2>1. job[t].file \in {"sft", "eval"}
    BY <1>7, AtOf DEF SwapPut, Base
  <2>2. CASE job[t].alone
    <3>1. disk' = disk
      BY <1>7, <2>2, SwapPutOwn DEF SwapInv, Swappers
    <3> QED BY <1>7, <3>1, PairsMoved DEF SwapPut
  <2>3. CASE ~job[t].alone
    <3>1. PairsJob(t)'
      BY <1>7, <2>3 DEF PairsJob, SwapPut, Moved, JobIs
    <3>2. "pairs" \in calm => disk' = disk
      BY <1>7, <2>1, ClosedStill DEF PairsInv, PairsFile, SwapPut
    <3>3. job'[t].file = job[t].file
      BY <1>7 DEF SwapPut, Moved, JobIs
    <3> QED BY <1>7, <3>1, <3>2, <3>3, PairsIdle DEF PairsStill
  <2> QED BY <2>2, <2>3
<1>8. CASE /\ job[t].op \in Generators /\ job[t].at = "written" /\ job[t].file = "sft"
           /\ RenamedTo("sft") /\ Moved(t, "open", "eval", job[t].data, job[t].arg) /\ calm' = calm \ {"pairs"}
  <2>1. ASSUME job'[t].alone PROVE disk'["sft"].data = job'[t].data["sft"] /\ disk'["sft"].open = {}
    <3>1. job[t].alone /\ job'[t].data = job[t].data
      BY <1>8, <2>1 DEF Moved, JobIs
    <3>2. SwapJob(t)
      BY <1>8, <3>1 DEF SwapInv, Swappers
    <3>3. tmp["sft"].data = job[t].data["sft"] /\ tmp["sft"].open = {}
      BY <1>8, <3>2 DEF SwapJob, Lines
    <3> QED BY <1>8, <3>1, <3>3 DEF RenamedTo
  <2>2. PairsJob(t)'
    BY <2>1 DEF PairsJob
  <2> QED BY <1>8, <2>2, OthersPairs DEF PairsInv
<1>9. CASE /\ job[t].op \in Generators /\ job[t].at = "written" /\ job[t].file = "eval"
           /\ RenamedTo("eval") /\ Done(t)
           /\ \/ job[t].alone /\ calm' = calm \cup {"pairs"}
              \/ ~job[t].alone /\ calm' = calm
  <2>1. PairsJob(t)' /\ job'[t].op \notin Generators
    BY <1>9 DEF Done, PairsJob, Generators
  <2>2. \A u \in Tasks : PairsJob(u)'
    BY <2>1, OthersPairs
  <2>3. CASE ~job[t].alone
    BY <1>9, <2>2, <2>3 DEF PairsInv
  <2>4. CASE job[t].alone
    <3>1. SwapJob(t)
      BY <1>9, <2>4 DEF SwapInv, Swappers
    <3>2. tmp["eval"].data = job[t].data["eval"] /\ tmp["eval"].open = {}
      BY <1>9, <3>1 DEF SwapJob, Lines
    <3>3. disk["sft"].data = job[t].data["sft"] /\ disk["sft"].open = {}
      BY <1>9, <2>4 DEF PairsInv, PairsJob
    <3>4. disk'["sft"] = disk["sft"] /\ disk'["eval"] = tmp["eval"]
      BY <1>0, <1>9 DEF RenamedTo, DiskRest
    <3>5. PairsFile'
      BY <1>9, <3>2, <3>3, <3>4, SplitOf DEF PairsFile, Base
    <3>6. ASSUME NEW u \in Tasks PROVE job'[u].op \notin Generators
      <4>1. CASE u = t
        BY <2>1, <4>1
      <4>2. CASE u # t
        <5>1. "pairs" \in ToWrite(t)
          BY <1>9, WritersAre DEF Base, Writers
        <5>2. job[u].op \notin Generators
          BY <2>4, <4>2, <5>1, PairsOnly
        <5> QED BY <4>2, <5>2, OthersKept DEF Base, Steps
      <4> QED BY <4>1, <4>2
    <3> QED BY <2>2, <3>5, <3>6 DEF PairsInv
  <2> QED BY <2>3, <2>4
<1>10. CASE job[t].op \in Generators /\ job[t].at \in {"written", "opened", "open"}
  BY <1>6, <1>7, <1>8, <1>9, <1>10 DEF GenerateDoes, ConfigOpened, ConfigWritten, Begun, Generators
<1>11. CASE job[t].op \in Generators /\ job[t].at \notin {"written", "opened", "open"}
  <2>1. \/ ConfigOpened(t) /\ calm' = calm
        \/ ConfigWritten(t) /\ calm' = calm /\ Moved(t, "work", job[t].file, job[t].data, job[t].arg)
        \/ /\ Still /\ calm' = calm
           /\ \E d : Moved(t, "open", "sft", d, job[t].arg)
        \/ \E at, a : Moved(t, at, job[t].file, job[t].data, a) /\ FilesStill /\ calm' = calm
    BY <1>11 DEF GenerateDoes, SwapOpened, SwapPut, Begun, Generators, Still
  <2> QED BY <1>2, <1>3, <1>4, <1>5, <2>1
<1>12. CASE job[t].op \notin Generators
  BY <1>1, <1>12 DEF GenerateDoes
<1> QED BY <1>10, <1>11, <1>12

---------------------------------------------------------------------------
(* The imports and the pairs                                               *)

LEMMA ImportAt ==
  ASSUME Base, NEW t \in Tasks, job[t].op = "import"
  PROVE  /\ job[t].file \in DatasetFiles \cup {"store"} /\ job[t].arg.name \in Names
         /\ job[t].arg.include_sft \in BOOLEAN
         /\ job[t].at \in {"copy", "copying"} /\ (job[t].at = "copying" => job[t].file # "store")
         /\ job[t].file \in {"sft", "eval"} => job[t].arg.include_sft
         /\ "pairs" \in ToWrite(t) /\ "prepared" \in ToWrite(t)
<1>1. Importing(job[t])
  BY FormOf DEF FormOfOp, Base
<1> QED BY <1>1, WritersAre DEF Importing, DatasetFiles, Base, Writers

LEMMA PairsImport ==
  ASSUME Base, Base', PairsInv, CorporaInv, ImportInv, NEW t \in Tasks, Steps(t), ImportDoes(t)
  PROVE  PairsInv'
<1>0. {"sft", "eval", "rag"} \subseteq Files
  BY DEF Files
<1>g. job'[t].op \notin Generators
  <2>1. Acts(t) = "import"
    BY ActsAre DEF OpActs, Base
  <2> QED BY <2>1, ActsOn DEF Steps, Generators
<1>1. CASE Still /\ DataStill
  BY <1>1, <1>g, PairsEnded DEF Still, FilesStill, PairsStill, DataStill
<1>2. CASE /\ job[t].op = "import" /\ job[t].file # "store" /\ DiskRest(job[t].file)
           /\ calm' = calm \ IF job[t].file = "rag" THEN {"current", "index"} ELSE {"pairs"}
  <2>1. job[t].file \in DatasetFiles
    BY <1>2, ImportAt
  <2>2. CASE job[t].file = "rag"
    <3>1. disk'["sft"] = disk["sft"] /\ disk'["eval"] = disk["eval"]
      BY <1>0, <1>2, <2>2 DEF DiskRest
    <3> QED BY <1>2, <1>g, <2>2, <3>1, PairsEnded DEF PairsStill
  <2>3. CASE job[t].file # "rag"
    <3>1. "pairs" \notin calm'
      BY <1>2, <2>3
    <3>2. \A u \in Tasks : PairsJob(u)'
      BY <1>g, OthersPairs DEF PairsJob
    <3> QED BY <3>1, <3>2 DEF PairsInv
  <2> QED BY <2>2, <2>3
<1>3. ASSUME NEW d, job[t].op = "import", job[t].at = "copying", PlaceWritten(t, job[t].file, d), DataStill
      PROVE  PairsInv'
  <2>1. job[t].file \in DatasetFiles
    BY <1>3, ImportAt
  <2>2. ASSUME "pairs" \in calm PROVE PairsStill
    <3>1. CASE job[t].file = "rag"
      BY <1>0, <1>3, <3>1 DEF PlaceWritten, DiskRest, PairsStill
    <3>2. CASE job[t].file \in {"sft", "eval"}
      BY <1>3, <2>2, <3>2, ClosedStill DEF PairsInv, PairsFile, PairsStill
    <3> QED BY <2>1, <3>1, <3>2 DEF DatasetFiles
  <2> QED BY <1>3, <1>g, <2>2, PairsEnded DEF DataStill
<1>4. CASE job[t].op = "import" /\ FilesStill /\ calm' = calm
  BY <1>4, <1>g, PairsEnded DEF FilesStill, PairsStill
<1>5. CASE /\ job[t].op = "import" /\ job[t].at = "copy" /\ job[t].file = "store" /\ FilesStill /\ job[t].alone
           /\ calm' = calm \cup (corpora[job[t].arg.name].calm \cap
                                   IF job[t].arg.include_sft THEN {"index", "pairs"} ELSE {"index"})
  <2>1. CASE "pairs" \in calm \/ "pairs" \notin calm'
    BY <1>5, <1>g, <2>1, PairsEnded DEF FilesStill, PairsStill
  <2>2. CASE "pairs" \notin calm /\ "pairs" \in calm'
    <3>1. PICK c : c = corpora[job[t].arg.name]
      OBVIOUS
    <3>2. job[t].arg.include_sft /\ "pairs" \in c.calm
      BY <1>5, <2>2, <3>1
    <3>3. c.manifest = "whole" /\ \A f \in DatasetFiles : c[f] # Absent /\ Before(f, "store") =>
                                     disk[f].data = c[f] /\ disk[f].open = {}
      BY <1>5, <3>1, <3>2 DEF ImportInv, ImportJob
    <3>4. c["sft"] \in PairFiles /\ c["eval"] \in PairFiles /\ c["sft"].pairs \cap c["eval"].pairs = {}
      BY <1>5, <3>1, <3>2, <3>3, ImportAt DEF CorporaInv, CorpusOK
    <3>5. c["sft"] # Absent /\ c["eval"] # Absent
      BY <3>4, SentinelsAssumption
    <3>6. \A f \in {"sft", "eval"} : disk[f].data = c[f] /\ disk[f].open = {}
      BY <3>3, <3>5 DEF Before, DatasetFiles
    <3>7. PairsFile'
      BY <1>5, <3>4, <3>6 DEF PairsFile, FilesStill
    <3>8. ASSUME NEW u \in Tasks PROVE job'[u].op \notin Generators
      <4>1. CASE u # t
        <5>1. job[u].op \notin Generators
          BY <1>5, <4>1, PairsOnly, ImportAt
        <5> QED BY <4>1, <5>1, OthersKept DEF Base, Steps
      <4> QED BY <1>g, <4>1
    <3> QED BY <3>7, <3>8 DEF PairsInv, PairsJob
  <2> QED BY <2>1, <2>2
<1> QED BY <1>1, <1>2, <1>3, <1>4, <1>5 DEF ImportDoes

LEMMA PairsDelete ==
  ASSUME Base, Base', PairsInv, NEW t \in Tasks, Steps(t), DeleteDoes(t)
  PROVE  PairsInv'
<1>1. job'[t].op \notin Generators
  <2>1. Acts(t) = "delete"
    BY ActsAre DEF OpActs, Base
  <2> QED BY <2>1, ActsOn DEF Steps, Generators
<1>2. CASE Still /\ DataStill
  BY <1>1, <1>2, PairsEnded DEF Still, FilesStill, PairsStill, DataStill
<1>3. CASE calm' = {}
  <2>1. \A u \in Tasks : PairsJob(u)'
    BY <1>1, OthersPairs DEF PairsJob
  <2> QED BY <1>3, <2>1 DEF PairsInv
<1> QED BY <1>2, <1>3 DEF DeleteDoes

LEMMA PairsBreak ==
  ASSUME Base, Base', PairsInv, NEW t \in Tasks, Steps(t), BreakDoes(t)
  PROVE  PairsInv'
<1>1. "pairs" \in calm => PairsStill
  BY LeftStill DEF BreakDoes, PairsInv, PairsFile, PairsStill, Files
<1> QED BY <1>1, PairsEnded, BreakEnds DEF BreakDoes, DataStill, Generators

LEMMA PairsInvKept ==
  ASSUME Base, Base', SwapInv, PairsInv, CorporaInv, ImportInv, NEW t \in Tasks, Steps(t)
  PROVE  PairsInv'
<1>1. CASE Acts(t) \in {"delete", "import"} \cup Generators
  BY <1>1, ActsChosen, PairsDelete, PairsGenerate, PairsImport, PairsBreak DEF ActsChoice, Base, Steps
<1>2. CASE Acts(t) \notin {"delete", "import"} \cup Generators
  <2>1. job[t].op \notin {"delete", "import"} \cup Generators /\ job'[t].op \notin {"delete", "import"} \cup Generators
    BY <1>2, OpKept DEF Acts, Steps, Generators
  <2>2. "pairs" \notin ToWrite(t) /\ "pairs" \notin ToWrite(t)'
    BY <2>1, WritersAre DEF Base, Writers
  <2>3. "pairs" \in calm' => "pairs" \in calm
    BY <1>2, CalmKept DEF Base
  <2>4. PairsStill
    BY <2>2, PairsKept DEF Kept, PairsStill
  <2> QED BY <2>1, <2>3, <2>4, PairsEnded
<1> QED BY <1>1, <1>2

---------------------------------------------------------------------------
(* The corpora                                                             *)

LEMMA ExportAt ==
  ASSUME Base, NEW t \in Tasks, job[t].op = "export"
  PROVE  /\ job[t].arg \in Names /\ "corpus" \in ToWrite(t)
         /\ \/ job[t].at = "mkdir" /\ job[t].file = "rag"
            \/ job[t].at = "copy" /\ job[t].file \in DatasetFiles \cup {"store"}
            \/ job[t].at \in {"manifest", "manifest_opened"} /\ job[t].file = "store"
<1>1. Exporting(job[t])
  BY FormOf DEF FormOfOp, Base
<1> QED BY <1>1, WritersAre DEF Exporting, DatasetFiles, Base, Writers

\* The steps of an export that has begun.
Exports(t) ==
  /\ job[t].op = "export" /\ ExportDoes(t) /\ CorporaRest(job[t].arg)

LEMMA ExportsOrKeeps ==
  ASSUME TypesInv, NEW t \in Tasks, Steps(t)
  PROVE  corpora' = corpora \/ (Exports(t) /\ job[t].at \in {"mkdir", "copy", "manifest", "manifest_opened"})
<1>1. CASE Acts(t) # "export"
  BY <1>1, CorporaKept
<1>2. CASE Acts(t) = "export"
  <2>1. ExportDoes(t) \/ BreakDoes(t)
    BY <1>2, ActsChosen DEF ActsChoice, Steps
  <2> QED BY <2>1 DEF ExportDoes, BreakDoes, Exports
<1> QED BY <1>1, <1>2

\* What each of them leaves of the corpus.
LEMMA ExportsCorpus ==
  ASSUME Base, NEW t \in Tasks, Exports(t), ExportJob(t)
  PROVE  /\ corpora'[job[t].arg].dir
         /\ \/ corpora'[job[t].arg].calm = {}
            \/ job[t].at = "manifest_opened" /\ job[t].alone /\ corpora'[job[t].arg].calm = calm
               /\ Same(job[t].arg, {"rag", "sft", "eval", "store"})
<1>1. corpora[job[t].arg].calm = {} /\ (job[t].at # "mkdir" => corpora[job[t].arg].dir)
  BY DEF ExportJob, Exports
<1>2. job[t].op # "none"
  BY DEF Exports
<1>3. CASE job[t].at = "mkdir"
  BY <1>1, <1>2, <1>3 DEF Exports, ExportDoes, Begun, Same
<1>4. CASE job[t].at = "copy"
  BY <1>1, <1>2, <1>4, ExportAt DEF Exports, ExportDoes, Begun, Same, DatasetFiles
<1>5. CASE job[t].at = "manifest"
  BY <1>1, <1>2, <1>5 DEF Exports, ExportDoes, Begun, Same
<1>6. CASE job[t].at = "manifest_opened"
  BY <1>1, <1>2, <1>6 DEF Exports, ExportDoes, Begun, Same
<1> QED BY <1>3, <1>4, <1>5, <1>6 DEF Exports, ExportDoes, Begun

\* An export of the calm project, at its end.
LEMMA ExportedCalm ==
  ASSUME Base, PairsInv, BuildInv, NEW t \in Tasks, ExportJob(t),
         job[t].op = "export", job[t].at = "manifest_opened", job[t].alone, NEW c, c = corpora[job[t].arg]
  PROVE  /\ "index" \in calm => c["rag"] \in SUBSET Chunks /\ c["store"] \in SUBSET Chunks /\ c["rag"] \subseteq c["store"]
         /\ "pairs" \in calm => /\ c["sft"] \in PairFiles /\ c["eval"] \in PairFiles
                                /\ c["sft"].pairs \cap c["eval"].pairs = {}
<1>1. \A f \in DatasetFiles : c[f] = IF Present(f) THEN Copied(f) ELSE Absent
  <2>1. job[t].file = "store"
    BY ExportAt
  <2> QED BY <2>1 DEF ExportJob, Before, DatasetFiles
<1>2. c["store"] = index
  BY DEF ExportJob
<1>3. ASSUME "index" \in calm
      PROVE c["rag"] \in SUBSET Chunks /\ c["store"] \in SUBSET Chunks /\ c["rag"] \subseteq c["store"]
  <2>1. IndexFile
    BY <1>3 DEF BuildInv
  <2>2. c["rag"] = disk["rag"].data
    BY <1>1, <2>1, SentinelsAssumption DEF IndexFile, Present, Copied, DatasetFiles
  <2>3. index \in SUBSET Chunks
    BY <2>1 DEF IndexFile, Base, TypesInv, DataTyped
  <2> QED BY <1>2, <2>1, <2>2, <2>3 DEF IndexFile
<1>4. ASSUME "pairs" \in calm
      PROVE c["sft"] \in PairFiles /\ c["eval"] \in PairFiles /\ c["sft"].pairs \cap c["eval"].pairs = {}
  <2>1. PairsFile
    BY <1>4 DEF PairsInv
  <2>2. ASSUME NEW f \in {"sft", "eval"} PROVE c[f] = PairFile(disk[f].data.pairs, "corpus") /\ disk[f].data \in PairFiles
    BY <1>1, <2>1, SentinelsAssumption DEF PairsFile, Present, Copied, DatasetFiles
  <2>3. ASSUME NEW f \in {"sft", "eval"} PROVE c[f] \in PairFiles /\ c[f].pairs = disk[f].data.pairs
    BY <2>2 DEF PairFile, PairFiles, Origins
  <2> QED BY <2>1, <2>3 DEF PairsFile
<1> QED BY <1>3, <1>4

LEMMA CorporaInvKept ==
  ASSUME Base, Base', PairsInv, BuildInv, CorporaInv, ExportInv, NEW t \in Tasks, Steps(t)
  PROVE  CorporaInv'
<1>1. CASE corpora' = corpora
  BY <1>1 DEF CorporaInv, CorpusOK
<1>2. CASE Exports(t)
  <2> SUFFICES ASSUME NEW k \in Names PROVE CorpusOK(corpora'[k])
    BY DEF CorporaInv
  <2>1. CASE k # job[t].arg
    BY <1>2, <2>1 DEF CorporaInv, Exports, CorporaRest
  <2>2. CASE k = job[t].arg
    <3>1. PICK c : c = corpora[k]
      OBVIOUS
    <3>2. PICK d : d = corpora'[k]
      OBVIOUS
    <3>3. /\ d.dir
          /\ \/ d.calm = {}
             \/ /\ job[t].at = "manifest_opened" /\ job[t].alone /\ d.calm = calm
                /\ d["rag"] = c["rag"] /\ d["sft"] = c["sft"] /\ d["eval"] = c["eval"] /\ d["store"] = c["store"]
      BY <1>2, <2>2, <3>1, <3>2, ExportsCorpus DEF ExportInv, Same
    <3>4. CASE d.calm = {}
      BY <3>2, <3>3, <3>4 DEF CorpusOK
    <3>5. CASE d.calm # {}
      <4>1. /\ "index" \in calm => /\ c["rag"] \in SUBSET Chunks /\ c["store"] \in SUBSET Chunks
                                   /\ c["rag"] \subseteq c["store"]
            /\ "pairs" \in calm => /\ c["sft"] \in PairFiles /\ c["eval"] \in PairFiles
                                   /\ c["sft"].pairs \cap c["eval"].pairs = {}
        BY <1>2, <2>2, <3>1, <3>3, <3>5, ExportedCalm DEF ExportInv, Exports
      <4> QED BY <3>2, <3>3, <3>5, <4>1 DEF CorpusOK
    <3> QED BY <3>4, <3>5
  <2> QED BY <2>1, <2>2
<1> QED BY <1>1, <1>2, ExportsOrKeeps DEF Base

---------------------------------------------------------------------------
(* The exports                                                             *)

NoCorpusFields(c) ==
  c.calm = {} /\ ~c.dir /\ c.manifest = "absent" /\ c["rag"] = Absent /\ c["sft"] = Absent /\ c["eval"] = Absent
  /\ c["store"] = Absent

LEMMA NoCorpusIs == NoCorpusFields(NoCorpus)
BY DEF NoCorpus, NoCorpusFields

\* A rival of an export is no export, and leaves what that one reads.
LEMMA ExportBeside ==
  ASSUME Base, Base', NEW t \in Tasks, Steps(t), NEW u \in Tasks \ {t}, job'[u].op = "export", job'[u].alone
  PROVE  /\ corpora' = corpora /\ index' = index
         /\ \A f \in DatasetFiles : Present(f)' = Present(f) /\ Copied(f)' = Copied(f)
<1>1. job[u].op = "export" /\ job[u].alone
  BY OthersKept DEF Base, Steps
<1>2. "corpus" \in ToWrite(u) /\ Reads[job[u].op] = {"prepared", "pairs"}
  BY <1>1, WritersAre DEF Base, Writers, Reads, Writes
<1>3. \A g \in {"corpus", "prepared", "pairs"} : g \notin ToWrite(t) /\ g \notin ToWrite(t)'
  BY <1>2, AloneKept
<1>4. corpora' = corpora
  <2>1. job[t].op # "export" /\ job'[t].op # "export"
    BY <1>3, WritersAre DEF Base, Writers
  <2> QED BY <2>1, CorporaKept DEF Acts, Base
<1>5. Kept("rag") /\ index' = index /\ Kept("sft") /\ Kept("eval")
  BY <1>3, PreparedKept, PairsKept
<1> QED BY <1>4, <1>5 DEF Kept, Present, Copied, DatasetFiles

LEMMA ExportOthers ==
  ASSUME Base, Base', ExportInv, NEW t \in Tasks, Steps(t), NEW u \in Tasks \ {t}
  PROVE  ExportJob(u)'
<1> SUFFICES ASSUME job'[u].op = "export" PROVE ExportJob(u)'
  BY DEF ExportJob
<1>1. /\ job'[u].op = job[u].op /\ job'[u].at = job[u].at /\ job'[u].file = job[u].file
      /\ job'[u].arg = job[u].arg /\ (job'[u].alone => job[u].alone)
  BY OthersKept DEF Base, Steps
<1>2. ExportJob(u)
  BY DEF ExportInv
<1>3. corpora'[job[u].arg].calm = {} /\ (job[u].at # "mkdir" => corpora'[job[u].arg].dir)
  <2>1. CASE corpora' = corpora
    BY <1>1, <1>2, <2>1 DEF ExportJob
  <2>2. CASE Exports(t) /\ job[u].arg # job[t].arg
    BY <1>1, <1>2, <2>2, ExportAt DEF Exports, CorporaRest, ExportJob
  <2>3. CASE Exports(t) /\ job[u].arg = job[t].arg
    <3>1. ~job[t].alone
      BY <1>1, <2>3, ExportAt DEF Exports, Base, WritersInv, AloneInv
    <3> QED BY <2>3, <3>1, ExportsCorpus DEF ExportInv
  <2> QED BY <2>1, <2>2, <2>3, ExportsOrKeeps DEF Base
<1>4. CASE ~job'[u].alone
  BY <1>1, <1>3, <1>4 DEF ExportJob
<1>5. CASE job'[u].alone
  <2>1. /\ corpora' = corpora /\ index' = index
        /\ \A f \in DatasetFiles : Present(f)' = Present(f) /\ Copied(f)' = Copied(f)
    BY <1>5, ExportBeside
  <2> QED BY <1>1, <1>2, <1>3, <1>5, <2>1 DEF ExportJob
<1> QED BY <1>4, <1>5

LEMMA ExportOwn ==
  ASSUME Base, Base', CorporaInv, ExportInv, NEW t \in Tasks, Steps(t), job'[t].op = "export"
  PROVE  ExportJob(t)'
<1>1. ExportDoes(t)
  <2>1. Acts(t) = "export" /\ ~BreakDoes(t)
    BY ActsOn, BreakEnds DEF Steps
  <2> QED BY <2>1, ActsChosen DEF ActsChoice, Steps, Base
<1>2. disk' = disk /\ index' = index /\ \A f \in DatasetFiles : Present(f)' = Present(f) /\ Copied(f)' = Copied(f)
  BY <1>1 DEF ExportDoes, Still, FilesStill, DataStill, Present, Copied
<1>3. ASSUME NEW k \in Names, ~corpora[k].dir, Begun(t, "export", "mkdir", "rag", Absent, k), corpora' = corpora
      PROVE  ExportJob(t)'
  <2>1. job'[t].arg = k /\ job'[t].at = "mkdir" /\ job'[t].file = "rag"
    BY <1>3 DEF Begun
  <2>2. corpora[k] = NoCorpus
    BY <1>3 DEF CorporaInv, CorpusOK
  <2>3. \A f \in DatasetFiles : ~Before(f, "rag") /\ corpora[k][f] = Absent
    BY <2>2, NoCorpusIs DEF NoCorpusFields, Before, DatasetFiles
  <2> QED BY <1>3, <2>1, <2>2, <2>3, NoCorpusIs DEF ExportJob, NoCorpusFields
<1>4. CASE job[t].op = "export"
  <2>0. ExportJob(t) /\ Exports(t)
    BY <1>1, <1>4 DEF ExportInv, Exports, ExportDoes, Begun
  <2>1. PICK k \in Names : k = job[t].arg
    BY <1>4, ExportAt
  <2>2. job'[t].arg = k /\ job'[t].alone = job[t].alone
    BY <1>1, <1>4, <2>1 DEF ExportDoes, Begun, Moved, JobIs, Done
  <2>3. corpora'[k].dir /\ (job[t].at # "manifest_opened" => corpora'[k].calm = {})
    BY <2>0, <2>1, ExportsCorpus
  <2>a. ASSUME job[t].alone
        PROVE \A f \in DatasetFiles : corpora[k][f] = IF Before(f, job[t].file) /\ Present(f) THEN Copied(f) ELSE Absent
    BY <1>4, <2>0, <2>1, <2>a DEF ExportJob
  <2>4. CASE job[t].at \in {"mkdir", "manifest"}
    <3>1. /\ job'[t].at \notin {"mkdir", "manifest"} /\ job'[t].file = job[t].file
          /\ Same(k, {"rag", "sft", "eval", "store"}) /\ (job[t].at = "mkdir" => job'[t].at = "copy")
      BY <1>1, <1>4, <2>1, <2>4 DEF ExportDoes, Begun, Moved, JobIs, Done, Same
    <3>2. job[t].alone /\ job[t].at = "manifest" => corpora[k].store = index
      BY <1>4, <2>0, <2>1 DEF ExportJob
    <3>3. ASSUME job[t].alone
          PROVE \A f \in DatasetFiles :
                  corpora'[k][f] = IF Before(f, job'[t].file) /\ Present(f)' THEN Copied(f)' ELSE Absent
      BY <1>2, <2>a, <3>1, <3>3 DEF Same, DatasetFiles
    <3> QED BY <1>2, <2>2, <2>3, <2>4, <3>1, <3>2, <3>3 DEF ExportJob, Same
  <2>5. CASE job[t].at = "copy" /\ job[t].file # "store"
    <3>1. PICK g \in DatasetFiles : g = job[t].file
      BY <1>4, <2>5, ExportAt
    <3>2. /\ job'[t].at = "copy" /\ job'[t].file = NextFile(g)
          /\ corpora'[k][g] = IF Present(g) THEN Copied(g) ELSE corpora[k][g]
          /\ \A f \in DatasetFiles \ {g} : corpora'[k][f] = corpora[k][f]
      BY <1>1, <1>4, <2>1, <2>5, <3>1 DEF ExportDoes, Begun, Moved, JobIs, Done, Same, DatasetFiles
    <3>3. \A f \in DatasetFiles : Before(f, NextFile(g)) <=> Before(f, g) \/ f = g
      BY DEF Before, NextFile, DatasetFiles
    <3>4. ~Before(g, g)
      BY DEF Before, DatasetFiles
    <3>5. ASSUME job[t].alone
          PROVE \A f \in DatasetFiles :
                  corpora'[k][f] = IF Before(f, job'[t].file) /\ Present(f)' THEN Copied(f)' ELSE Absent
      BY <1>2, <2>a, <3>1, <3>2, <3>3, <3>4, <3>5
    <3> QED BY <1>2, <2>2, <2>3, <2>5, <3>2, <3>5 DEF ExportJob
  <2>6. CASE job[t].at = "copy" /\ job[t].file = "store"
    <3>1. /\ job'[t].at = "manifest" /\ job'[t].file = "store" /\ corpora'[k].store = index
          /\ Same(k, {"rag", "sft", "eval"})
      BY <1>1, <1>4, <2>1, <2>6 DEF ExportDoes, Begun, Moved, JobIs, Done, Same
    <3>3. ASSUME job[t].alone
          PROVE \A f \in DatasetFiles :
                  corpora'[k][f] = IF Before(f, job'[t].file) /\ Present(f)' THEN Copied(f)' ELSE Absent
      BY <1>2, <2>6, <2>a, <3>1, <3>3 DEF Same, DatasetFiles
    <3> QED BY <1>2, <2>2, <2>3, <2>6, <3>1, <3>3 DEF ExportJob
  <2>7. CASE job[t].at = "manifest_opened"
    BY <1>1, <1>4, <2>7 DEF ExportDoes, Begun, Moved, JobIs, Done
  <2> QED BY <1>4, <2>4, <2>5, <2>6, <2>7, ExportAt
<1> QED BY <1>1, <1>3, <1>4 DEF ExportDoes

LEMMA ExportInvKept ==
  ASSUME Base, Base', CorporaInv, ExportInv, NEW t \in Tasks, Steps(t)
  PROVE  ExportInv'
<1>1. ExportJob(t)'
  <2>1. CASE job'[t].op = "export"
    BY <2>1, ExportOwn
  <2>2. CASE job'[t].op # "export"
    BY <2>2 DEF ExportJob
  <2> QED BY <2>1, <2>2
<1> QED BY <1>1, ExportOthers DEF ExportInv

---------------------------------------------------------------------------
(* The imports                                                             *)

LEMMA ImportOthers ==
  ASSUME Base, Base', ImportInv, NEW t \in Tasks, Steps(t), NEW u \in Tasks \ {t}
  PROVE  ImportJob(u)'
<1> SUFFICES ASSUME job'[u].op = "import", job'[u].alone PROVE ImportJob(u)'
  BY DEF ImportJob
<1>1. /\ job'[u].op = job[u].op /\ job'[u].at = job[u].at /\ job'[u].file = job[u].file
      /\ job'[u].arg = job[u].arg /\ job[u].alone
  BY OthersKept DEF Base, Steps
<1>2. "prepared" \in ToWrite(u) /\ "pairs" \in ToWrite(u) /\ "corpus" \in Reads[job[u].op]
  BY <1>1, ImportAt DEF Reads, Writes
<1>3. \A g \in {"corpus", "prepared", "pairs"} : g \notin ToWrite(t) /\ g \notin ToWrite(t)'
  BY <1>2, AloneKept
<1>4. corpora' = corpora
  <2>1. job[t].op # "export" /\ job'[t].op # "export"
    BY <1>3, WritersAre DEF Base, Writers
  <2> QED BY <2>1, CorporaKept DEF Acts, Base
<1>5. \A f \in DatasetFiles : disk'[f] = disk[f]
  BY <1>3, PreparedKept, PairsKept DEF Kept, DatasetFiles
<1>6. ImportJob(u)
  BY DEF ImportInv
<1>7. job[u].at = "copying" => job[u].file \in DatasetFiles
  BY <1>1, ImportAt
<1> QED BY <1>1, <1>4, <1>5, <1>6, <1>7 DEF ImportJob

LEMMA ImportOwn ==
  ASSUME Base, Base', ImportInv, NEW t \in Tasks, Steps(t), job'[t].op = "import", job'[t].alone
  PROVE  ImportJob(t)'
<1>0. DatasetFiles \subseteq Files
  BY DEF DatasetFiles, Files
<1>1. ImportDoes(t)
  <2>1. Acts(t) = "import" /\ ~BreakDoes(t)
    BY ActsOn, BreakEnds DEF Steps
  <2> QED BY <2>1, ActsChosen DEF ActsChoice, Steps, Base
<1>2. corpora' = corpora
  BY <1>1 DEF ImportDoes
<1>3. ASSUME NEW a, NEW k, Begun(t, "import", "copy", "rag", Absent, a), a.name = k, corpora[k].manifest = "whole"
      PROVE  ImportJob(t)'
  <2>1. job'[t].arg = a /\ job'[t].at = "copy" /\ job'[t].file = "rag"
    BY <1>3 DEF Begun
  <2>2. \A f \in DatasetFiles : ~Before(f, "rag")
    BY DEF Before, DatasetFiles
  <2> QED BY <1>2, <1>3, <2>1, <2>2 DEF ImportJob
<1>4. CASE job[t].op = "import"
  <2>1. PICK c : c = corpora[job[t].arg.name]
    OBVIOUS
  <2>2. job'[t].arg = job[t].arg /\ job[t].alone
    BY <1>1, <1>4 DEF ImportDoes, Begun, Moved, JobIs, Done
  <2>3. /\ c.manifest = "whole"
        /\ job[t].at = "copying" => disk[job[t].file].open = {t} /\ ~disk[job[t].file].shared
    BY <1>4, <2>1, <2>2 DEF ImportInv, ImportJob
  <2>4. \A f \in DatasetFiles : c[f] # Absent /\ Before(f, job[t].file) /\ (f = "rag" \/ job[t].arg.include_sft) =>
           disk[f].data = c[f] /\ disk[f].open = {}
    BY <1>4, <2>1, <2>2 DEF ImportInv, ImportJob
  <2>5. CASE job[t].at = "copy" /\ job[t].file = "store"
    BY <1>1, <1>4, <2>5 DEF ImportDoes, Begun, Done
  <2> SUFFICES ASSUME job[t].file # "store" PROVE ImportJob(t)'
    BY <1>4, <2>5, ImportAt
  <2>6. PICK g \in DatasetFiles : g = job[t].file
    BY <1>4, ImportAt
  <2>7. ~Before(g, g)
    BY DEF Before, DatasetFiles
  <2>f. FollowingFile(t) # "none" =>
          \A f \in DatasetFiles : Before(f, FollowingFile(t)) /\ (f = "rag" \/ job[t].arg.include_sft) =>
             Before(f, g) \/ f = g
    BY <1>4, <2>6, ImportAt DEF FollowingFile, NextFile, Before, DatasetFiles
  <2>g. FollowingFile(t) # "none"
    BY <2>6 DEF FollowingFile, NextFile, DatasetFiles
  <2>8. CASE job[t].at = "copy" /\ c[g] # Absent
    <3>1. /\ job'[t].at = "copying" /\ job'[t].file = g /\ DiskRest(g) /\ OpenedBy(disk'[g], disk[g], t)
      BY <1>1, <1>4, <2>1, <2>6, <2>8 DEF ImportDoes, Begun, Moved, JobIs
    <3>2. disk[g].open = {}
      <4>1. disk[g].open \subseteq {t}
        <5>1. g # "toml" /\ g \in Files
          BY <1>0 DEF DatasetFiles
        <5>2. CASE g = "rag"
          BY <1>4, <2>2, <5>1, <5>2, ImportAt, AloneHandles, HandlesAre DEF Base
        <5>3. CASE g \in {"sft", "eval"}
          BY <1>4, <2>2, <5>1, <5>3, ImportAt, AloneHandles, HandlesAre DEF Base
        <5> QED BY <5>2, <5>3 DEF DatasetFiles
      <4>2. t \notin disk[g].open
        BY <1>0, <2>8 DEF Base, HandlesInv, InPlace
      <4> QED BY <4>1, <4>2
    <3>3. disk'[g].open = {t} /\ ~disk'[g].shared
      BY <3>1, <3>2 DEF OpenedBy
    <3>4. \A f \in DatasetFiles : Before(f, g) => disk'[f] = disk[f]
      BY <1>0, <2>7, <3>1 DEF DiskRest
    <3> QED BY <1>2, <2>1, <2>2, <2>3, <2>4, <2>6, <3>1, <3>3, <3>4 DEF ImportJob
  <2>9. CASE job[t].at = "copy" /\ c[g] = Absent
    <3>1. job'[t].at = "copy" /\ job'[t].file = FollowingFile(t) /\ disk' = disk
      BY <1>1, <1>4, <2>1, <2>6, <2>9 DEF ImportDoes, Begun, Moved, JobIs, Still, FilesStill
    <3> QED BY <1>2, <2>1, <2>2, <2>3, <2>4, <2>6, <2>9, <2>f, <2>g, <3>1 DEF ImportJob
  <2>10. CASE job[t].at = "copying"
    <3>1. job'[t].at = "copy" /\ job'[t].file = FollowingFile(t) /\ PlaceWritten(t, g, c[g])
      BY <1>1, <1>4, <2>1, <2>6, <2>10 DEF ImportDoes, Begun, Moved, JobIs
    <3>2. DiskRest(g) /\ WrittenBy(disk'[g], disk[g], t, c[g])
      BY <2>3, <2>6, <2>10, <3>1 DEF PlaceWritten
    <3>3. disk'[g].data = c[g] /\ disk'[g].open = {}
      BY <2>3, <2>6, <2>10, <3>2 DEF WrittenBy
    <3>4. \A f \in DatasetFiles \ {g} : disk'[f] = disk[f]
      BY <1>0, <3>2 DEF DiskRest
    <3>5. ASSUME NEW f \in DatasetFiles, c[f] # Absent, Before(f, FollowingFile(t)),
                 f = "rag" \/ job[t].arg.include_sft
          PROVE  disk'[f].data = c[f] /\ disk'[f].open = {}
      <4>1. CASE f = g BY <3>3, <4>1
      <4>2. CASE f # g
        <5>1. Before(f, job[t].file) BY <2>6, <2>f, <2>g, <3>5, <4>2
        <5> QED BY <2>4, <3>4, <3>5, <4>2, <5>1
      <4> QED BY <4>1, <4>2
    <3> QED BY <1>2, <2>1, <2>2, <2>3, <3>1, <3>5 DEF ImportJob
  <2> QED BY <1>4, <2>8, <2>9, <2>10, ImportAt
<1> QED BY <1>1, <1>3, <1>4 DEF ImportDoes

LEMMA ImportInvKept ==
  ASSUME Base, Base', ImportInv, NEW t \in Tasks, Steps(t)
  PROVE  ImportInv'
<1>1. ImportJob(t)'
  <2>1. CASE job'[t].op = "import" /\ job'[t].alone
    BY <2>1, ImportOwn
  <2>2. CASE job'[t].op # "import" \/ ~job'[t].alone
    BY <2>2 DEF ImportJob
  <2> QED BY <2>1, <2>2
<1> QED BY <1>1, ImportOthers DEF ImportInv

---------------------------------------------------------------------------
(* rag.jsonl and the index                                                 *)

IndexCalm == "index" \in calm => IndexFile
CurrentCalm == "current" \in calm => "index" \in calm /\ CurrentFile

IndexStays == /\ disk'["rag"].data = disk["rag"].data /\ disk'["rag"].open = disk["rag"].open
              /\ index' = index \/ (index' # Absent /\ index \subseteq index')

ChunksStay == disk'["chunks"].data = disk["chunks"].data /\ disk'["chunks"].open = disk["chunks"].open

\* What was calm stays so while the files do.
LEMMA CalmStays ==
  ASSUME IndexCalm, CurrentCalm,
         "index" \in calm' => "index" \in calm,
         "current" \in calm' => "current" \in calm /\ "index" \in calm',
         "index" \in calm /\ "index" \in calm' => IndexStays,
         "current" \in calm /\ "current" \in calm' => ChunksStay
  PROVE  IndexCalm' /\ CurrentCalm'
<1>1. ASSUME "index" \in calm' PROVE IndexFile'
  BY <1>1 DEF IndexCalm, IndexFile, IndexStays
<1>2. ASSUME "current" \in calm' PROVE "index" \in calm' /\ CurrentFile'
  BY <1>2 DEF CurrentCalm, CurrentFile, ChunksStay, IndexStays
<1> QED BY <1>1, <1>2 DEF IndexCalm, CurrentCalm

LEMMA CalmStill ==
  ASSUME IndexCalm, CurrentCalm, disk' = disk, index' = index, calm' = calm
  PROVE  IndexCalm' /\ CurrentCalm'
BY CalmStays DEF CurrentCalm, IndexStays, ChunksStay

LEMMA CalmNone ==
  ASSUME "index" \notin calm', "current" \notin calm'
  PROVE  IndexCalm' /\ CurrentCalm'
BY DEF IndexCalm, CurrentCalm

LEMMA BuildAt ==
  ASSUME Base, NEW t \in Tasks, job[t].op = "build"
  PROVE  /\ job[t].at \in {"open", "opened", "written", "embed"} => job[t].file = "rag"
         /\ job[t].at \in {"open", "opened", "written", "embed", "delete", "add"} /\ job[t].file # "chunks"
         /\ job[t].at \in {"written", "embed", "delete", "add"} => job[t].data \in SUBSET Chunks /\ job[t].data # Absent
         /\ "prepared" \in ToWrite(t) /\ "chunks" \in Reads[job[t].op]
<1>1. Building(job[t])
  BY FormOf DEF FormOfOp, Base
<1>2. Reads["build"] = {"chunks"}
  BY DEF Reads, Writes
<1> QED BY <1>1, <1>2, WritersAre, SentinelsAssumption DEF Building, Base, Writers

LEMMA CalmBuild ==
  ASSUME Base, Base', IndexCalm, CurrentCalm, NEW t \in Tasks, BuildJob(t), Steps(t), BuildDoes(t)
  PROVE  IndexCalm' /\ CurrentCalm'
<1>1. CASE FilesStill /\ DataStill
  BY <1>1, CalmStill DEF FilesStill, DataStill
<1>2. CASE SwapOpened(t) /\ DataStill
  BY <1>2, CalmStill DEF SwapOpened, DataStill
<1>3. CASE job[t].op = "build" /\ SwapPut(t) /\ DataStill
  <2>1. CASE "index" \in calm
    <3>1. disk["rag"].open = {}
      BY <2>1 DEF IndexCalm, IndexFile
    <3>2. disk' = disk
      BY <1>3, <3>1, BuildAt, ClosedStill DEF SwapPut
    <3> QED BY <1>3, <3>2, CalmStill DEF DataStill
  <2>2. CASE "index" \notin calm
    BY <1>3, <2>2, CalmNone DEF CurrentCalm, DataStill
  <2> QED BY <2>1, <2>2
<1>4. CASE Dropped("rag") /\ calm' = calm /\ index' = index
  BY <1>4, CalmStill DEF Dropped
<1>5. CASE calm' = calm \ {"current", "index"}
  BY <1>5, CalmNone
<1>6. CASE job[t].op = "build" /\ job[t].at = "add" /\ FilesStill /\ index' = Rows \cup job[t].data /\ calm' = calm
  <2>1. "index" \in calm => IndexStays
    <3>1. Rows \cup job[t].data \in SUBSET Chunks
      BY <1>6, BuildAt DEF Rows, Base, TypesInv, DataTyped
    <3>2. index' # Absent
      BY <1>6, <3>1, SentinelsAssumption
    <3> QED BY <1>6, <3>2 DEF IndexStays, FilesStill, Rows, IndexCalm, IndexFile
  <2>2. ChunksStay
    BY <1>6 DEF ChunksStay, FilesStill
  <2> QED BY <1>6, <2>1, <2>2, CalmStays DEF CurrentCalm
<1>7. CASE /\ job[t].op = "build" /\ job[t].at = "add" /\ FilesStill
           /\ index' = Rows \cup job[t].data /\ job[t].alone /\ disk["chunks"].data # Torn
  <2>1. PICK d \in SUBSET Chunks : d = job[t].data /\ d # Absent
    BY <1>7, BuildAt
  <2>2. d = Included /\ d # {} /\ disk["rag"].data = d /\ disk["rag"].open = {}
    BY <1>7, <2>1 DEF BuildJob
  <2>3. disk["chunks"].data = d
    BY <2>2 DEF Included
  <2>4. disk["chunks"].open = {}
    <3>1. disk["chunks"].open \subseteq {t}
      BY <1>7, AloneHandles, HandlesAre, BuildAt DEF Base, Files
    <3>2. t \notin disk["chunks"].open
      BY <1>7, BuildAt DEF Base, HandlesInv, InPlace, Files
    <3> QED BY <3>1, <3>2
  <2>5. index' # Absent /\ d \subseteq index'
    <3>1. Rows \in SUBSET Chunks
      BY DEF Rows, Base, TypesInv, DataTyped
    <3> QED BY <1>7, <2>1, <3>1, SentinelsAssumption
  <2>6. IndexFile' /\ CurrentFile'
    BY <1>7, <2>2, <2>3, <2>4, <2>5 DEF IndexFile, CurrentFile, FilesStill
  <2>7. "index" \in calm'
    BY <1>7, BuildAt DEF BuildDoes, Begun, SwapOpened, SwapPut
  <2> QED BY <2>6, <2>7 DEF IndexCalm, CurrentCalm
<1> QED BY <1>1, <1>2, <1>3, <1>4, <1>5, <1>6, <1>7 DEF BuildDoes, Still

LEMMA CalmImport ==
  ASSUME Base, Base', IndexCalm, CurrentCalm, CorporaInv, NEW t \in Tasks, ImportJob(t), Steps(t), ImportDoes(t)
  PROVE  IndexCalm' /\ CurrentCalm'
<1>0. DatasetFiles \cup {"chunks"} \subseteq Files /\ "chunks" \notin DatasetFiles
  BY DEF DatasetFiles, Files
<1>1. CASE Still /\ DataStill
  BY <1>1, CalmStill DEF Still, FilesStill, DataStill
<1>2. CASE /\ job[t].op = "import" /\ job[t].file # "store" /\ DiskRest(job[t].file) /\ index' = index
           /\ calm' = calm \ IF job[t].file = "rag" THEN {"current", "index"} ELSE {"pairs"}
  <2>1. job[t].file \in DatasetFiles
    BY <1>2, ImportAt
  <2>2. CASE job[t].file = "rag"
    BY <1>2, <2>2, CalmNone
  <2>3. CASE job[t].file # "rag"
    <3>1. disk'["rag"] = disk["rag"] /\ disk'["chunks"] = disk["chunks"]
      BY <1>0, <1>2, <2>1, <2>3 DEF DiskRest, DatasetFiles
    <3>2. IndexStays /\ ChunksStay
      BY <1>2, <3>1 DEF IndexStays, ChunksStay
    <3>3. calm' = calm \ {"pairs"}
      BY <1>2, <2>3
    <3> QED BY <3>2, <3>3, CalmStays DEF CurrentCalm
  <2> QED BY <2>2, <2>3
<1>3. ASSUME NEW d, job[t].op = "import", job[t].at = "copying", PlaceWritten(t, job[t].file, d), DataStill
      PROVE  IndexCalm' /\ CurrentCalm'
  <2>1. job[t].file \in DatasetFiles
    BY <1>3, ImportAt
  <2>2. "index" \in calm => disk'["rag"] = disk["rag"]
    <3>1. CASE job[t].file = "rag"
      BY <1>3, <3>1, ClosedStill DEF IndexCalm, IndexFile
    <3>2. CASE job[t].file # "rag"
      BY <1>0, <1>3, <3>2 DEF PlaceWritten, DiskRest, DatasetFiles
    <3> QED BY <3>1, <3>2
  <2>3. disk'["chunks"] = disk["chunks"]
    BY <1>0, <1>3, <2>1 DEF PlaceWritten, DiskRest
  <2>4. ChunksStay /\ ("index" \in calm => IndexStays)
    BY <1>3, <2>2, <2>3 DEF IndexStays, ChunksStay, DataStill
  <2>5. calm' = calm
    BY <1>3 DEF DataStill
  <2> QED BY <2>4, <2>5, CalmStays DEF CurrentCalm
<1>4. CASE job[t].op = "import" /\ FilesStill /\ index' = CopiedOver(corpora[job[t].arg.name].store, index)
           /\ job[t].at = "copy" /\ job[t].file = "store"
           /\ \/ /\ job[t].alone
                 /\ calm' = calm \cup (corpora[job[t].arg.name].calm \cap
                                        IF job[t].arg.include_sft THEN {"index", "pairs"} ELSE {"index"})
              \/ ~job[t].alone /\ calm' = calm
  <2>1. PICK c : c = corpora[job[t].arg.name]
    OBVIOUS
  <2>2. c.store \in (SUBSET Chunks) \cup {Absent} /\ index \in (SUBSET Chunks) \cup {Absent}
    BY <1>4, <2>1, ImportAt DEF Base, TypesInv, DataTyped, CorporaTyped, CorpusTypes
  <2>3. index # Absent => index' # Absent /\ index \subseteq index'
    BY <1>4, <2>1, <2>2, SentinelsAssumption DEF CopiedOver
  <2>4. ChunksStay /\ ("index" \in calm => IndexStays)
    BY <1>4, <2>3 DEF ChunksStay, IndexStays, FilesStill, IndexCalm, IndexFile
  <2>5. "current" \in calm' => "current" \in calm
    BY <1>4
  <2>6. calm \subseteq calm'
    BY <1>4
  <2>7. CASE "index" \in calm \/ "index" \notin calm'
    BY <2>4, <2>5, <2>6, <2>7, CalmStays DEF CurrentCalm
  <2>8. CASE "index" \notin calm /\ "index" \in calm'
    <3>1. job[t].alone /\ "index" \in c.calm
      BY <1>4, <2>1, <2>8
    <3>2. c.manifest = "whole" /\ \A f \in DatasetFiles : c[f] # Absent /\ Before(f, "store") /\ f = "rag" =>
                                     disk[f].data = c[f] /\ disk[f].open = {}
      BY <1>4, <2>1, <3>1 DEF ImportJob
    <3>3. c["rag"] \in SUBSET Chunks /\ c["store"] \in SUBSET Chunks /\ c["rag"] \subseteq c["store"]
      BY <1>4, <2>1, <3>1, <3>2, ImportAt DEF CorporaInv, CorpusOK
    <3>4. disk["rag"].data = c["rag"] /\ disk["rag"].open = {}
      BY <3>2, <3>3, SentinelsAssumption DEF Before, DatasetFiles
    <3>5. index' # Absent /\ c["rag"] \subseteq index'
      BY <1>4, <2>1, <2>2, <3>3, SentinelsAssumption DEF CopiedOver
    <3>6. IndexFile'
      BY <1>4, <3>3, <3>4, <3>5 DEF IndexFile, FilesStill
    <3> QED BY <2>5, <2>8, <3>6 DEF IndexCalm, CurrentCalm
  <2> QED BY <2>7, <2>8
<1> QED BY <1>1, <1>2, <1>3, <1>4 DEF ImportDoes

---------------------------------------------------------------------------
(* The build and its rivals                                                *)

LEMMA CalmDelete ==
  ASSUME IndexCalm, CurrentCalm, NEW t \in Tasks, DeleteDoes(t)
  PROVE  IndexCalm' /\ CurrentCalm'
<1>1. CASE Still /\ DataStill
  BY <1>1, CalmStill DEF Still, FilesStill, DataStill
<1>2. CASE calm' = {}
  BY <1>2, CalmNone
<1> QED BY <1>1, <1>2 DEF DeleteDoes

LEMMA CalmBreak ==
  ASSUME IndexCalm, CurrentCalm, NEW t \in Tasks, BreakDoes(t)
  PROVE  IndexCalm' /\ CurrentCalm'
<1>1. "index" \in calm => IndexStays
  BY LeftStill DEF BreakDoes, DataStill, IndexCalm, IndexFile, IndexStays, Files
<1>2. "current" \in calm => ChunksStay
  BY LeftStill DEF BreakDoes, CurrentCalm, CurrentFile, ChunksStay, Files
<1> QED BY <1>1, <1>2, CalmStays DEF BreakDoes, DataStill, CurrentCalm

LEMMA CalmChunks ==
  ASSUME Base, Base', IndexCalm, CurrentCalm, NEW t \in Tasks, Steps(t), FilterDoes(t) \/ IngestDoes(t)
  PROVE  IndexCalm' /\ CurrentCalm'
<1>1. Acts(t) \in {"filter", "ingest"}
  BY ActsAre DEF OpActs, Base
<1>2. IndexStays
  <2>1. job[t].op \notin {"delete", "build", "import"} /\ job'[t].op \notin {"delete", "build", "import"}
    BY <1>1, OpKept DEF Acts, Steps
  <2>2. "prepared" \notin ToWrite(t) /\ "prepared" \notin ToWrite(t)'
    BY <2>1, WritersAre DEF Base, Writers
  <2> QED BY <2>2, PreparedKept DEF Kept, IndexStays
<1>3. \A x \in {"current", "index"} : x \in calm' => x \in calm
  BY <1>1, CalmKept DEF Base
<1>4. CASE calm' = calm /\ (disk["chunks"].open = {} => ChunksStay)
  <2>1. "current" \in calm => ChunksStay
    BY <1>4 DEF CurrentCalm, CurrentFile
  <2> QED BY <1>2, <1>4, <2>1, CalmStays DEF CurrentCalm
<1>5. CASE calm' = calm \ {"current"}
  BY <1>2, <1>5, CalmStays
<1>6. calm' = calm \ {"current"} \/ (calm' = calm /\ (disk["chunks"].open = {} => ChunksStay))
  <2>1. ASSUME SwapPut(t), job[t].op \in {"filter", "ingest"}, disk["chunks"].open = {} PROVE disk' = disk
    <3>1. job[t].file = "chunks"
      BY <2>1, AtOf DEF SwapPut, Base
    <3> QED BY <2>1, <3>1, ClosedStill DEF SwapPut
  <2>2. ASSUME AllLeft(t), disk["chunks"].open = {} PROVE ChunksStay
    BY <2>2, LeftStill DEF ChunksStay, Files
  <2>3. ASSUME disk' = disk PROVE ChunksStay
    BY <2>3 DEF ChunksStay
  <2>4. CASE FilterDoes(t)
    BY <2>1, <2>3, <2>4 DEF FilterDoes
  <2>5. CASE IngestDoes(t)
    BY <2>1, <2>2, <2>3, <2>5 DEF IngestDoes, DataStill, Still, FilesStill, SwapOpened, Dropped
  <2> QED BY <2>4, <2>5
<1> QED BY <1>4, <1>5, <1>6

LEMMA CalmElse ==
  ASSUME Base, Base', IndexCalm, CurrentCalm, NEW t \in Tasks, Steps(t),
         Acts(t) \notin {"delete", "filter", "ingest", "build", "import"}
  PROVE  IndexCalm' /\ CurrentCalm'
<1>1. /\ job[t].op \notin {"delete", "filter", "ingest", "build", "import"}
      /\ job'[t].op \notin {"delete", "filter", "ingest", "build", "import"}
  BY OpKept DEF Acts, Steps
<1>2. "prepared" \notin ToWrite(t) /\ "prepared" \notin ToWrite(t)'
  BY <1>1, WritersAre DEF Base, Writers
<1>3. "chunks" \notin ToWrite(t) /\ "chunks" \notin ToWrite(t)'
  BY <1>1, ChunkWritersAre DEF Base, ChunkWriters
<1>4. IndexStays /\ ChunksStay
  BY <1>2, <1>3, PreparedKept, ChunksLeft DEF Kept, IndexStays, ChunksStay
<1>5. calm' \cap {"current", "index"} = calm \cap {"current", "index"}
  <2>1. ~DeleteDoes(t) /\ ~FilterDoes(t) /\ ~IngestDoes(t) /\ ~BuildDoes(t) /\ ~ImportDoes(t)
    BY ActsAre DEF OpActs, Base
  <2>2. CASE GenerateDoes(t)
    <3>1. calm' = calm \/ calm' = calm \cup {"pairs"} \/ calm' = calm \ {"pairs"}
      BY <2>2 DEF GenerateDoes
    <3> QED BY <3>1
  <2>3. CASE CreateDoes(t) \/ UpdateDoes(t) \/ TrainDoes(t) \/ EvalDoes(t) \/ ExportDoes(t) \/ BreakDoes(t)
    BY <2>3 DEF CreateDoes, UpdateDoes, TrainDoes, EvalDoes, ExportDoes, BreakDoes, DataStill
  <2> QED BY <2>1, <2>2, <2>3 DEF Steps, Does
<1> QED BY <1>4, <1>5, CalmStays DEF CurrentCalm

LEMMA BuildOthers ==
  ASSUME Base, Base', BuildInv, NEW t \in Tasks, Steps(t), NEW u \in Tasks \ {t}
  PROVE  BuildJob(u)'
<1> SUFFICES ASSUME job'[u].op = "build", job'[u].alone PROVE BuildJob(u)'
  BY DEF BuildJob
<1>1. /\ job'[u].op = job[u].op /\ job'[u].at = job[u].at /\ job'[u].data = job[u].data /\ job[u].alone
  BY OthersKept DEF Base, Steps
<1>2. "prepared" \in ToWrite(u) /\ "chunks" \in Reads[job[u].op]
  BY <1>1, BuildAt
<1>3. \A g \in {"chunks", "prepared"} : g \notin ToWrite(t) /\ g \notin ToWrite(t)'
  BY <1>2, AloneKept
<1>4. disk'["rag"] = disk["rag"] /\ disk'["chunks"] = disk["chunks"]
  BY <1>3, PreparedKept, ChunksLeft DEF Kept
<1>5. Included' = Included
  BY <1>4 DEF Included
<1>6. BuildJob(u)
  BY DEF BuildInv
<1> QED BY <1>1, <1>4, <1>5, <1>6 DEF BuildJob

LEMMA ReadsIncluded ==
  ASSUME disk["chunks"].data # Torn, NEW d \in Readings("chunks", Chunks)
  PROVE  d = Included
BY DEF Readings, Included

LEMMA BuildOwn ==
  ASSUME Base, Base', SwapInv, BuildInv, NEW t \in Tasks, Steps(t), job'[t].op = "build", job'[t].alone
  PROVE  BuildJob(t)'
<1>1. BuildDoes(t) /\ (job[t].op # "none" => job[t].op = "build")
  <2>1. Acts(t) = "build" /\ ~BreakDoes(t) /\ (job[t].op # "none" => job[t].op = "build")
    BY ActsOn, BreakEnds DEF Steps
  <2> QED BY <2>1, ActsChosen DEF ActsChoice, Steps, Base
<1>2. disk'["chunks"] = disk["chunks"] /\ Included' = Included
  <2>1. "chunks" \notin ToWrite(t) /\ "chunks" \notin ToWrite(t)'
    BY <1>1, NoneToWrite, ChunkWritersAre DEF Base, ChunkWriters
  <2> QED BY <2>1, ChunksLeft DEF Included
<1> SUFFICES ASSUME disk["chunks"].data # Torn PROVE BuildJob(t)'
  BY <1>2 DEF BuildJob
<1>3. CASE Begun(t, "build", "open", "rag", Absent, Absent)
  BY <1>3 DEF Begun, BuildJob
<1>4. CASE job[t].op = "build"
  <2>1. job[t].alone
    BY <1>1, <1>4 DEF BuildDoes, Begun, SwapOpened, SwapPut, Moved, JobIs, Done
  <2>2. /\ job[t].data # Absent => job[t].data = Included
        /\ job[t].at \in {"embed", "delete", "add"} /\ job[t].data # {} =>
             disk["rag"].data = job[t].data /\ disk["rag"].open = {}
        /\ SwapJob(t)
    BY <1>4, <2>1 DEF BuildInv, BuildJob, SwapInv, Swappers
  <2>3. CASE SwapOpened(t) \/ SwapPut(t)
    <3>1. job'[t].at \notin {"embed", "delete", "add"} /\ job'[t].data = job[t].data
      BY <2>3 DEF SwapOpened, SwapPut, Moved, JobIs
    <3> QED BY <1>2, <2>2, <3>1 DEF BuildJob
  <2>4. ASSUME NEW d \in Readings("chunks", Chunks), Moved(t, "opened", "rag", d, job[t].arg)
        PROVE  BuildJob(t)'
    <3>1. job'[t].at = "opened" /\ job'[t].data = d /\ d = Included
      BY <2>4, ReadsIncluded DEF Moved, JobIs
    <3> QED BY <1>2, <3>1 DEF BuildJob
  <2>5. CASE job[t].at = "written" /\ Moved(t, "embed", "rag", job[t].data, job[t].arg)
    <3>1. job'[t].at = "embed" /\ job'[t].data = job[t].data
      BY <2>5 DEF Moved, JobIs
    <3>2. CASE job[t].data = {}
      BY <1>2, <2>2, <3>1, <3>2 DEF BuildJob
    <3>3. CASE RenamedTo("rag")
      <4>1. job[t].file = "rag"
        BY <1>4, <2>5, BuildAt
      <4>2. tmp["rag"].data = job[t].data /\ tmp["rag"].open = {}
        BY <2>2, <2>5, <4>1 DEF SwapJob, Lines
      <4>3. disk'["rag"] = tmp["rag"]
        BY <3>3 DEF RenamedTo
      <4> QED BY <1>2, <2>2, <3>1, <4>2, <4>3 DEF BuildJob
    <3> QED BY <1>1, <1>4, <2>5, <3>2, <3>3 DEF BuildDoes, Begun, SwapOpened, SwapPut, Done
  <2>6. ASSUME NEW d \in Readings("chunks", Chunks), Moved(t, "delete", "none", d, job[t].arg),
               job[t].at = "embed", Still
        PROVE  BuildJob(t)'
    <3>1. job'[t].at = "delete" /\ job'[t].data = d /\ d = Included
      BY <2>6, ReadsIncluded DEF Moved, JobIs
    <3>2. job[t].data = d
      BY <1>4, <2>2, <2>6, <3>1, BuildAt
    <3>3. disk' = disk
      BY <2>6 DEF Still, FilesStill
    <3> QED BY <1>2, <2>2, <2>6, <3>1, <3>2, <3>3 DEF BuildJob
  <2>7. CASE job[t].at = "delete" /\ job[t].data # {} /\ FilesStill /\ Moved(t, "add", job[t].file, job[t].data, job[t].arg)
    <3>1. job'[t].at = "add" /\ job'[t].data = job[t].data /\ disk' = disk
      BY <2>7 DEF Moved, JobIs, FilesStill
    <3> QED BY <1>2, <2>2, <2>7, <3>1 DEF BuildJob
  <2>8. CASE Done(t)
    BY <2>8 DEF Done
  <2> QED BY <1>1, <1>3, <2>3, <2>4, <2>5, <2>6, <2>7, <2>8 DEF BuildDoes
<1> QED BY <1>1, <1>3, <1>4 DEF BuildDoes

LEMMA BuildInvKept ==
  ASSUME Base, Base', SwapInv, BuildInv, CorporaInv, ImportInv, NEW t \in Tasks, Steps(t)
  PROVE  BuildInv'
<1>1. BuildJob(t)'
  <2>1. CASE job'[t].op = "build" /\ job'[t].alone
    BY <2>1, BuildOwn
  <2>2. CASE job'[t].op # "build" \/ ~job'[t].alone
    BY <2>2 DEF BuildJob
  <2> QED BY <2>1, <2>2
<1>2. IndexCalm /\ CurrentCalm
  BY DEF BuildInv, IndexCalm, CurrentCalm
<1>3. IndexCalm' /\ CurrentCalm'
  <2>1. CASE Acts(t) = "delete"
    BY <1>2, <2>1, ActsChosen, CalmDelete, CalmBreak DEF ActsChoice, Steps, Base
  <2>2. CASE Acts(t) \in {"filter", "ingest"}
    BY <1>2, <2>2, ActsChosen, CalmChunks, CalmBreak DEF ActsChoice, Steps, Base
  <2>3. CASE Acts(t) = "build"
    <3>1. BuildJob(t)
      BY DEF BuildInv
    <3> QED BY <1>2, <2>3, <3>1, ActsChosen, CalmBuild, CalmBreak DEF ActsChoice, Steps, Base
  <2>4. CASE Acts(t) = "import"
    <3>1. ImportJob(t)
      BY DEF ImportInv
    <3> QED BY <1>2, <2>4, <3>1, ActsChosen, CalmImport, CalmBreak DEF ActsChoice, Steps, Base
  <2>5. CASE Acts(t) \notin {"delete", "filter", "ingest", "build", "import"}
    BY <1>2, <2>5, CalmElse
  <2> QED BY <2>1, <2>2, <2>3, <2>4, <2>5
<1> QED BY <1>1, <1>3, BuildOthers DEF BuildInv, IndexCalm, CurrentCalm

---------------------------------------------------------------------------
(* A prepared project, from its beginning to its end                       *)

LEMMA ExportedOK == CorpusOK(Exported(FirstRequest, FirstSeed)) /\ CorpusOK(ExportedBare) /\ CorpusOK(NoCorpus)
<1>1. CorpusOK(NoCorpus)
  BY NoCorpusIs DEF NoCorpusFields, CorpusOK
<1>2. CorpusOK(Exported(FirstRequest, FirstSeed))
  <2>1. PICK split : split = Split(FirstDrawn, FirstHeld, "corpus")
    OBVIOUS
  <2>2. SplitInto(split, FirstDrawn, FirstHeld, "corpus")
    BY <2>1, FirstRequestIs, SplitIs DEF Origins
  <2>3. PICK y : y = TRUE
    OBVIOUS
  <2>4. PICK c : c = [dir |-> y, manifest |-> "whole", rag |-> Chunks, store |-> Chunks,
                      calm |-> {"index", "pairs"}, sft |-> split["sft"], eval |-> split["eval"]]
    OBVIOUS
  <2>5. c = Exported(FirstRequest, FirstSeed)
    BY <2>1, <2>3, <2>4 DEF Exported, FirstDrawn, FirstHeld
  <2>6. c.dir = y /\ c.rag = Chunks /\ c.store = Chunks /\ c.sft = split["sft"] /\ c.eval = split["eval"]
    BY <2>4
  <2>7. CorpusOK(c)
    BY <2>2, <2>3, <2>6 DEF SplitInto, CorpusOK
  <2> QED BY <2>5, <2>7
<1>3. CorpusOK(ExportedBare)
  <2>1. PICK y : y = TRUE
    OBVIOUS
  <2>2. PICK c : c = [NoCorpus EXCEPT !.dir = y, !.manifest = "whole", !.rag = Chunks, !.store = Chunks,
                                      !.calm = {"index"}]
    OBVIOUS
  <2>3. c.dir = y /\ c.rag = Chunks /\ c.store = Chunks /\ c.calm = {"index"}
    BY <2>2 DEF NoCorpus
  <2>4. c = ExportedBare
    BY <2>1, <2>2 DEF ExportedBare
  <2>5. CorpusOK(c)
    BY <2>1, <2>3 DEF CorpusOK
  <2> QED BY <2>4, <2>5
<1> QED BY <1>1, <1>2, <1>3

LEMMA PreparedInit == ASSUME Init PROVE Prepared
<1>1. \A t \in Tasks : job[t].op = "none"
  BY DEF Init, Idle, Job
<1>2. PICK stage \in Stages : Beginning(stage)
  BY InitIs
<1>3. "pairs" \in calm => PairsFile
  <2> SUFFICES ASSUME "pairs" \in calm PROVE PairsFile
    OBVIOUS
  <2>1. PICK from \in Origins : from = FirstOrigin(stage)
    BY FirstRequestIs DEF FirstOrigin, Origins
  <2>2. PICK split : split = Split(FirstDrawn, FirstHeld, from)
    OBVIOUS
  <2>3. disk["sft"] = File(split.sft) /\ disk["eval"] = File(split.eval)
    BY <1>2, <2>1, <2>2 DEF Beginning
  <2>4. SplitInto(split, FirstDrawn, FirstHeld, from)
    BY <2>2, FirstRequestIs, SplitIs
  <2> QED BY <2>3, <2>4, FileIs DEF SplitInto, PairsFile
<1>4. "index" \in calm => IndexFile
  <2> SUFFICES ASSUME "index" \in calm PROVE IndexFile
    OBVIOUS
  <2>1. index = Chunks /\ disk["rag"] = File(Chunks)
    BY <1>2 DEF Beginning
  <2> QED BY <2>1, FileIs, SentinelsAssumption DEF IndexFile
<1>5. "current" \in calm => "index" \in calm /\ CurrentFile
  <2> SUFFICES ASSUME "current" \in calm PROVE "index" \in calm /\ CurrentFile
    OBVIOUS
  <2>1. "index" \in calm /\ disk["chunks"] = File(Chunks) /\ disk["rag"] = File(Chunks)
    BY <1>2 DEF Beginning
  <2> QED BY <2>1, FileIs DEF CurrentFile
<1>6. CorporaInv
  <2>1. \/ corpora \in [Names -> {Exported(FirstRequest, FirstSeed), ExportedBare}]
        \/ corpora \in [Names -> {NoCorpus}]
    BY DEF Init, FirstSeed, FirstRequest
  <2> QED BY <2>1, ExportedOK DEF CorporaInv
<1>7. SwapInv /\ ExportInv /\ ImportInv
  BY <1>1 DEF SwapInv, Swappers, Generators, ExportInv, ExportJob, ImportInv, ImportJob
<1>8. PairsInv /\ BuildInv
  BY <1>1, <1>3, <1>4, <1>5 DEF PairsInv, PairsJob, BuildInv, BuildJob, Generators
<1> QED BY <1>6, <1>7, <1>8, BaseInit DEF Prepared

LEMMA PreparedStep == ASSUME Prepared, [Next]_vars PROVE Prepared'
<1>1. Base'
  BY BaseStep DEF Prepared
<1>2. CASE Next
  <2>1. PICK t \in Tasks : Step(t)
    BY <1>2 DEF Next
  <2>2. Steps(t)
    BY <2>1, StepSteps DEF Prepared, Base
  <2> QED BY <1>1, <2>2, SwapKept, PairsInvKept, BuildInvKept, CorporaInvKept, ExportInvKept,
     ImportInvKept DEF Prepared
<1>3. CASE UNCHANGED vars
  <2>1. SwapInv' /\ PairsInv'
    BY <1>3, StutterIs DEF Prepared, SwapInv, SwapJob, Lines, PairsInv, PairsFile, PairsJob
  <2>2. BuildInv'
    BY <1>3, StutterIs DEF Prepared, BuildInv, IndexFile, CurrentFile, BuildJob, Included
  <2>3. CorporaInv' /\ ImportInv'
    BY <1>3, StutterIs DEF Prepared, CorporaInv, CorpusOK, ImportInv, ImportJob
  <2>4. ExportInv'
    BY <1>3, StutterIs DEF Prepared, ExportInv, ExportJob, Present, Copied
  <2> QED BY <1>1, <2>1, <2>2, <2>3, <2>4 DEF Prepared
<1> QED BY <1>2, <1>3

\* What each generator, build, export and import has done so far is in the
\* files in every state, as long as no rival came between.
THEOREM PreparedAlways == Spec => []Prepared
<1>1. Init => Prepared
  BY PreparedInit
<1>2. Prepared /\ [Next]_vars => Prepared'
  BY PreparedStep
<1> QED BY <1>1, <1>2, PTL DEF Spec

\* sft.jsonl and eval.jsonl share no pair (synth_import.rs, generate_synthetic_set),
\* in the project and in each corpus export_corpus listed, for any pairs, seeds
\* and names, while no two of their writers overlapped and none broke off.
THEOREM PairsAreHeldOutAlways == Spec => []PairsAreHeldOut
<1>1. Prepared => PairsAreHeldOut
  <2> SUFFICES ASSUME Prepared PROVE PairsAreHeldOut
    OBVIOUS
  <2>1. "pairs" \in calm => PairsFile
    BY DEF Prepared, PairsInv
  <2>2. \A k \in Names : CorpusOK(corpora[k])
    BY DEF Prepared, CorporaInv
  <2> QED BY <2>1, <2>2, SentinelsAssumption DEF PairsFile, CorpusOK, PairsAreHeldOut
<1> QED BY <1>1, PreparedAlways, PTL

\* After a build_dataset that embedded chunks, ended and met no rival, rag.jsonl is
\* the included chunks until the next edit, and the index has a row for each of
\* its chunks.  Of a build that found every chunk excluded it says nothing: the
\* old rag.jsonl stays (build_dataset.rs, the temporary dropped).
THEOREM BuildIsCurrentAlways == Spec => []BuildIsCurrent
<1>1. Prepared => BuildIsCurrent
  BY SentinelsAssumption DEF Prepared, BuildInv, IndexFile, CurrentFile, BuildIsCurrent, Rows
<1> QED BY <1>1, PreparedAlways, PTL

\* A corpus whose manifest export_corpus wrote undisturbed has whole chunks and
\* an index with a row for each: the manifest goes last.
THEOREM CorpusIsWholeAlways == Spec => []CorpusIsWhole
<1>1. Prepared => CorpusIsWhole
  BY SentinelsAssumption DEF Prepared, CorporaInv, CorpusOK, CorpusIsWhole
<1> QED BY <1>1, PreparedAlways, PTL

---------------------------------------------------------------------------
(* What an evaluation counts                                               *)

\* A pair it missed, and not because its retrieval failed, has no row.
EvalJob(t) ==
  job[t].op = "eval" /\ job[t].alone =>
    \A p \in Pairs : p \in job[t].arg.missed /\ p \notin job[t].arg.failed => ~Retrievable(p)

EvalInv == \A t \in Tasks : EvalJob(t)

LEMMA EvalOwn ==
  ASSUME Base, EvalInv, NEW t \in Tasks, Steps(t), job'[t].op = "eval", job'[t].alone
  PROVE  EvalJob(t)'
<1>1. EvalDoes(t)
  <2>1. Acts(t) = "eval" /\ ~BreakDoes(t)
    BY ActsOn, BreakEnds DEF Steps
  <2> QED BY <2>1, ActsChosen DEF ActsChoice, Steps, Base
<1>2. \A p \in Pairs : Retrievable(p)' <=> Retrievable(p)
  BY <1>1 DEF EvalDoes, DataStill, Retrievable, Rows
<1>3. ASSUME NEW d, Begun(t, "eval", "score", "none", d, [missed |-> {}, failed |-> {}]) PROVE EvalJob(t)'
  <2>1. job'[t].arg.missed = {}
    BY <1>3 DEF Begun
  <2> QED BY <2>1 DEF EvalJob
<1>4. CASE job[t].op = "eval"
  <2>1. job[t].alone
    BY <1>1, <1>4 DEF EvalDoes, Begun, Moved, JobIs, Done
  <2>2. \A p \in Pairs : p \in job[t].arg.missed /\ p \notin job[t].arg.failed => ~Retrievable(p)
    BY <1>4, <2>1 DEF EvalInv, EvalJob
  <2>3. ASSUME NEW q \in Pairs, NEW fails \in BOOLEAN,
               Moved(t, "score", job[t].file, job[t].data \ {q},
                     [missed |-> job[t].arg.missed \cup (IF Retrievable(q) /\ ~fails THEN {} ELSE {q}),
                      failed |-> job[t].arg.failed \cup (IF fails THEN {q} ELSE {})])
        PROVE  EvalJob(t)'
    <3>1. /\ job'[t].arg.missed = job[t].arg.missed \cup (IF Retrievable(q) /\ ~fails THEN {} ELSE {q})
          /\ job'[t].arg.failed = job[t].arg.failed \cup (IF fails THEN {q} ELSE {})
      BY <2>3 DEF Moved, JobIs
    <3> QED BY <1>2, <2>2, <3>1 DEF EvalJob
  <2>4. CASE job'[t].arg = job[t].arg
    BY <1>2, <2>2, <2>4 DEF EvalJob
  <2> QED BY <1>1, <1>3, <2>3, <2>4 DEF EvalDoes, Moved, JobIs, Done
<1> QED BY <1>1, <1>3, <1>4 DEF EvalDoes

LEMMA EvalInvKept ==
  ASSUME Base, Base', EvalInv, NEW t \in Tasks, Steps(t)
  PROVE  EvalInv'
<1> SUFFICES ASSUME NEW u \in Tasks, job'[u].op = "eval", job'[u].alone PROVE EvalJob(u)'
  BY DEF EvalInv, EvalJob
<1>1. CASE u = t
  <2> SUFFICES EvalJob(t)'
    BY <1>1
  <2> QED BY <1>1, EvalOwn
<1>2. CASE u # t
  <2>1. job'[u].op = job[u].op /\ job'[u].arg = job[u].arg /\ job[u].alone
    BY <1>2, OthersKept DEF Base, Steps
  <2>2. "prepared" \in Reads[job[u].op]
    BY <2>1 DEF Reads, Writes
  <2>3. index' = index
    BY <1>2, <2>2, AloneKept, PreparedKept
  <2>4. EvalJob(u)
    BY DEF EvalInv
  <2> QED BY <2>1, <2>3, <2>4 DEF EvalJob, Retrievable, Rows
<1> QED BY <1>1, <1>2

\* run_eval counts a miss only for a pair whose retrieval failed or whose chunk
\* the index has no row for, and after a calm build no chunk that rag.jsonl
\* lists is without a row.
THEOREM MissIsAMissAlways == Spec => []MissIsAMiss
<1>1. Init => EvalInv
  BY DEF Init, Idle, Job, EvalInv, EvalJob
<1>2. Prepared /\ Prepared' /\ EvalInv /\ [Next]_vars => EvalInv'
  <2> SUFFICES ASSUME Prepared, Prepared', EvalInv, [Next]_vars PROVE EvalInv'
    OBVIOUS
  <2>1. CASE Next
    <3>1. PICK t \in Tasks : Step(t)
      BY <2>1 DEF Next
    <3>2. Steps(t)
      BY <3>1, StepSteps DEF Prepared, Base
    <3> QED BY <3>2, EvalInvKept DEF Prepared
  <2>2. CASE UNCHANGED vars
    BY <2>2, StutterIs DEF EvalInv, EvalJob, Retrievable, Rows
  <2> QED BY <2>1, <2>2
<1>3. Prepared /\ EvalInv => MissIsAMiss
  <2> SUFFICES ASSUME Prepared, EvalInv, NEW t \in Tasks, job[t].at = "report", job[t].alone, "index" \in calm,
                      NEW p \in Misses(t), p \notin job[t].arg.failed
               PROVE  FALSE
    BY DEF MissIsAMiss
  <2>1. job[t].op = "eval"
    BY AtOf DEF Prepared, Base
  <2>2. job[t].arg.missed \subseteq Pairs
    BY <2>1, FormOf DEF FormOfOp, Evaluating, Prepared, Base
  <2>3. p \in Pairs /\ p \in job[t].arg.missed /\ ChunkOf[p] \in disk["rag"].data
    BY <2>2 DEF Misses
  <2>4. ~Retrievable(p)
    BY <2>1, <2>3 DEF EvalInv, EvalJob
  <2>5. disk["rag"].data \subseteq Rows
    BY DEF Prepared, BuildInv, IndexFile, Rows
  <2> QED BY <2>3, <2>4, <2>5 DEF Retrievable
<1> QED BY <1>1, <1>2, <1>3, PreparedAlways, PTL DEF Spec

---------------------------------------------------------------------------
(* What a seed holds out                                                   *)

LEMMA DirKept ==
  ASSUME TypesInv, NEW t \in Tasks, Steps(t)
  PROVE  Deleted(t) \/ (~dir' => ~dir)
<1>1. CASE CreateDoes(t)
  BY <1>1 DEF CreateDoes, Still, ConfigOpened, ConfigWritten
<1>2. CASE UpdateDoes(t)
  BY <1>2 DEF UpdateDoes, Still, ConfigOpened, ConfigWritten
<1>3. CASE DeleteDoes(t)
  BY <1>3, AtOf DEF DeleteDoes, Deleted, Still
<1>4. CASE FilterDoes(t)
  BY <1>4 DEF FilterDoes
<1>5. CASE IngestDoes(t)
  BY <1>5 DEF IngestDoes, Still
<1>6. CASE BuildDoes(t)
  BY <1>6 DEF BuildDoes, Still
<1>7. CASE GenerateDoes(t)
  BY <1>7 DEF GenerateDoes, Still, ConfigOpened, ConfigWritten
<1>8. CASE TrainDoes(t) \/ BreakDoes(t)
  BY <1>8 DEF TrainDoes, BreakDoes, Still
<1>9. CASE EvalDoes(t)
  BY <1>9 DEF EvalDoes
<1>10. CASE ExportDoes(t)
  BY <1>10 DEF ExportDoes, Still
<1>11. CASE ImportDoes(t)
  BY <1>11 DEF ImportDoes, Still
<1> QED BY <1>1, <1>2, <1>3, <1>4, <1>5, <1>6, <1>7, <1>8, <1>9, <1>10, <1>11 DEF Steps, Does

LEMMA ReseededKept ==
  ASSUME TypesInv, NEW t \in Tasks, Steps(t)
  PROVE  Deleted(t) \/ (~reseeded' => ~reseeded)
<1>1. CASE CreateDoes(t)
  BY <1>1 DEF CreateDoes, Still, ConfigOpened, ConfigWritten
<1>2. CASE UpdateDoes(t)
  BY <1>2 DEF UpdateDoes, Still, ConfigOpened, ConfigWritten
<1>3. CASE DeleteDoes(t)
  BY <1>3, AtOf DEF DeleteDoes, Deleted, Still
<1>4. CASE FilterDoes(t) \/ IngestDoes(t) \/ BuildDoes(t)
  BY <1>4 DEF FilterDoes, IngestDoes, BuildDoes
<1>5. CASE GenerateDoes(t)
  BY <1>5 DEF GenerateDoes, Still, ConfigOpened, ConfigWritten
<1>6. CASE TrainDoes(t) \/ BreakDoes(t) \/ EvalDoes(t) \/ ExportDoes(t) \/ ImportDoes(t)
  BY <1>6 DEF TrainDoes, BreakDoes, EvalDoes, ExportDoes, ImportDoes, Still
<1> QED BY <1>1, <1>2, <1>3, <1>4, <1>5, <1>6 DEF Steps, Does

\* The seed is told by a create, or by a generator that has written it.
LEMMA SeedTold ==
  ASSUME TypesInv, NEW t \in Tasks, Steps(t)
  PROVE  \/ told'.seed = told.seed
         \/ job[t].op = "create" /\ Done(t) /\ CreateDoes(t)
         \/ /\ job[t].op \in Generators /\ job[t].at = "config_opened" /\ told'.seed = job[t].arg.seed
            /\ Moved(t, "work", job[t].file, job[t].data, job[t].arg)
<1>0. told \in Configs
  BY DEF TypesInv, DataTyped
<1>1. CASE CreateDoes(t)
  BY <1>1 DEF CreateDoes, Still, ConfigOpened
<1>2. CASE UpdateDoes(t)
  <2>1. CASE job[t].op \in Updates /\ FieldTold(t)
    <3>1. Field(job[t].op) \in {"synth_model", "last_run_id"}
      BY <2>1 DEF Field, Updates
    <3>2. PICK x : x = job[t].arg[Field(job[t].op)]
      OBVIOUS
    <3>3. told' = [told EXCEPT ![Field(job[t].op)] = x]
      BY <2>1, <3>2 DEF FieldTold
    <3> QED BY <1>0, <3>1, <3>3 DEF Configs
  <2> QED BY <1>2, <2>1 DEF UpdateDoes, Still, ConfigOpened
<1>3. CASE GenerateDoes(t)
  <2>1. CASE /\ job[t].op \in Generators /\ ConfigWritten(t) /\ FieldTold(t)
             /\ Moved(t, "work", job[t].file, job[t].data, job[t].arg)
    <3>1. Field(job[t].op) = "seed"
      BY <2>1, FieldIs
    <3>2. told' = [told EXCEPT !["seed"] = job[t].arg["seed"]]
      BY <2>1, <3>1 DEF FieldTold
    <3>3. told'.seed = job[t].arg.seed
      BY <1>0, <3>2 DEF Configs
    <3> QED BY <2>1, <3>3 DEF ConfigWritten
  <2>2. CASE told' = told
    BY <2>2
  <2> QED BY <1>3, <2>1, <2>2 DEF GenerateDoes, Still, ConfigOpened
<1>4. CASE DeleteDoes(t) \/ FilterDoes(t) \/ IngestDoes(t) \/ BuildDoes(t)
  BY <1>4 DEF DeleteDoes, FilterDoes, IngestDoes, BuildDoes
<1>5. CASE TrainDoes(t) \/ BreakDoes(t) \/ EvalDoes(t) \/ ExportDoes(t) \/ ImportDoes(t)
  BY <1>5 DEF TrainDoes, BreakDoes, EvalDoes, ExportDoes, ImportDoes, Still
<1> QED BY <1>1, <1>2, <1>3, <1>4, <1>5 DEF Steps, Does

\* What a training run has loaded.
TrainedOn(t) ==
  /\ disk' = disk /\ calm' = calm /\ (trained'.calm <=> "pairs" \in calm)
  /\ \/ trained'.from = "nothing"
     \/ trained'.from = disk["sft"].data.from /\ trained'.pairs = disk["sft"].data.pairs

LEMMA TrainedKept ==
  ASSUME TypesInv, NEW t \in Tasks, Steps(t)
  PROVE  trained' = trained \/ Deleted(t) \/ TrainedOn(t)
<1>1. CASE CreateDoes(t) \/ UpdateDoes(t)
  BY <1>1 DEF CreateDoes, UpdateDoes, DataStill
<1>2. CASE DeleteDoes(t)
  BY <1>2, AtOf DEF DeleteDoes, Deleted, DataStill
<1>3. CASE FilterDoes(t) \/ IngestDoes(t) \/ BuildDoes(t)
  BY <1>3 DEF FilterDoes, IngestDoes, BuildDoes, DataStill
<1>4. CASE GenerateDoes(t) \/ ImportDoes(t)
  BY <1>4 DEF GenerateDoes, ImportDoes
<1>5. CASE TrainDoes(t)
  BY <1>5 DEF TrainDoes, TrainedOn, Still, FilesStill
<1>6. CASE BreakDoes(t) \/ EvalDoes(t) \/ ExportDoes(t)
  BY <1>6 DEF BreakDoes, EvalDoes, ExportDoes, DataStill
<1> QED BY <1>1, <1>2, <1>3, <1>4, <1>5, <1>6 DEF Steps, Does

---------------------------------------------------------------------------
\* The pairs of a corpus are of a corpus.
CorpusFrom == \A k \in Names, f \in {"sft", "eval"} : corpora[k][f] \in PairFiles => corpora[k][f].from = "corpus"

LEMMA CorpusFromInit == ASSUME Init PROVE CorpusFrom
<1>1. PICK split : split = Split(FirstDrawn, FirstHeld, "corpus")
  OBVIOUS
<1>2. split["sft"].from = "corpus" /\ split["eval"].from = "corpus"
  <2>1. SplitInto(split, FirstDrawn, FirstHeld, "corpus")
    BY <1>1, FirstRequestIs, SplitIs DEF Origins
  <2> QED BY <2>1 DEF SplitInto
<1>3. /\ Exported(FirstRequest, FirstSeed)["sft"] = split["sft"]
      /\ Exported(FirstRequest, FirstSeed)["eval"] = split["eval"]
  <2>1. PICK y : y = TRUE
    OBVIOUS
  <2>2. Exported(FirstRequest, FirstSeed) =
          [dir |-> y, manifest |-> "whole", rag |-> Chunks, store |-> Chunks,
           calm |-> {"index", "pairs"}, sft |-> split["sft"], eval |-> split["eval"]]
    BY <1>1, <2>1 DEF Exported, FirstDrawn, FirstHeld
  <2> QED BY <2>2
<1>4. NoCorpus["sft"] = Absent /\ NoCorpus["eval"] = Absent
  BY NoCorpusIs DEF NoCorpusFields
<1>5. ExportedBare["sft"] = Absent /\ ExportedBare["eval"] = Absent
  BY DEF ExportedBare, NoCorpus
<1>6. \/ corpora \in [Names -> {Exported(FirstRequest, FirstSeed), ExportedBare}]
      \/ corpora \in [Names -> {NoCorpus}]
  BY DEF Init, FirstSeed, FirstRequest
<1> QED BY <1>2, <1>3, <1>4, <1>5, <1>6, SentinelsAssumption DEF CorpusFrom

LEMMA CorpusFromKept ==
  ASSUME Base, CorpusFrom, NEW t \in Tasks, Steps(t)
  PROVE  CorpusFrom'
<1>1. CASE corpora' = corpora
  BY <1>1 DEF CorpusFrom
<1>2. CASE Exports(t) /\ job[t].at \in {"mkdir", "copy", "manifest", "manifest_opened"}
  <2>1. PICK k \in Names : k = job[t].arg
    BY <1>2, ExportAt DEF Exports
  <2>2. \A n \in Names \ {k} : corpora'[n] = corpora[n]
    BY <1>2, <2>1 DEF Exports, CorporaRest
  <2>3. ASSUME NEW f \in {"sft", "eval"}
        PROVE \/ corpora'[k][f] = corpora[k][f]
              \/ corpora'[k][f] = Copied(f)
    BY <1>2, <2>1 DEF Exports, ExportDoes, Begun, Same
  <2>4. ASSUME NEW f \in {"sft", "eval"}, Copied(f) \in PairFiles PROVE Copied(f).from = "corpus"
    BY <2>4, SentinelsAssumption DEF Copied, PairFile
  <2> QED BY <2>2, <2>3, <2>4 DEF CorpusFrom
<1> QED BY <1>1, <1>2, ExportsOrKeeps DEF Base

---------------------------------------------------------------------------
(* The seed while the pairs are calm                                       *)

\* How sft.jsonl and eval.jsonl are calm after a step of t: they are as they were, of a corpus, or its own.
StillCalm == "pairs" \in calm /\ PairsStill
FromCorpus == disk'["sft"].data.from = "corpus" /\ disk'["eval"].data.from = "corpus"
FromSeed(t) ==
  /\ job[t].op \in Generators /\ job[t].alone /\ job[t].at = "written" /\ Done(t)
  /\ disk'["sft"].data = job[t].data["sft"] /\ disk'["eval"].data = job[t].data["eval"]

Calmed(t) == StillCalm \/ FromCorpus \/ FromSeed(t)

LEMMA CalmedGenerate ==
  ASSUME Base, SwapInv, PairsInv, NEW t \in Tasks, "pairs" \in calm', GenerateDoes(t)
  PROVE  Calmed(t)
<1>0. {"sft", "eval", "toml"} \subseteq Files
  BY DEF Files
<1>1. CASE calm' = calm /\ disk' = disk
  BY <1>1 DEF Calmed, StillCalm, PairsStill
<1>2. CASE calm' = calm /\ DiskRest("toml")
  BY <1>0, <1>2 DEF Calmed, StillCalm, PairsStill, DiskRest
<1>3. CASE calm' = calm /\ SwapPut(t) /\ job[t].op \in Generators
  <2>1. job[t].file \in {"sft", "eval"}
    BY <1>3, AtOf DEF SwapPut, Base
  <2>2. disk' = disk
    BY <1>3, <2>1, ClosedStill DEF PairsInv, PairsFile, SwapPut
  <2> QED BY <1>1, <1>3, <2>2
<1>4. CASE /\ job[t].op \in Generators /\ job[t].at = "written" /\ job[t].file = "eval"
           /\ RenamedTo("eval") /\ Done(t)
           /\ \/ job[t].alone /\ calm' = calm \cup {"pairs"}
              \/ ~job[t].alone /\ calm' = calm
  <2>1. job[t].alone
    BY <1>4 DEF PairsInv
  <2>2. SwapJob(t)
    BY <1>4, <2>1 DEF SwapInv, Swappers
  <2>3. tmp["eval"].data = job[t].data["eval"]
    BY <1>4, <2>2 DEF SwapJob, Lines
  <2>4. disk["sft"].data = job[t].data["sft"]
    BY <1>4, <2>1 DEF PairsInv, PairsJob
  <2>5. disk'["sft"] = disk["sft"] /\ disk'["eval"] = tmp["eval"]
    BY <1>0, <1>4 DEF RenamedTo, DiskRest
  <2> QED BY <1>4, <2>1, <2>3, <2>4, <2>5 DEF Calmed, FromSeed
<1>5. CASE calm' = calm \ {"pairs"}
  BY <1>5
<1> QED BY <1>1, <1>2, <1>3, <1>4, <1>5 DEF GenerateDoes, Still, FilesStill, ConfigOpened, ConfigWritten,
   PlaceWritten,
     SwapOpened

LEMMA CalmedImport ==
  ASSUME Base, PairsInv, CorporaInv, CorpusFrom, ImportInv, NEW t \in Tasks, "pairs" \in calm', ImportDoes(t)
  PROVE  Calmed(t)
<1>0. {"sft", "eval", "rag"} \subseteq Files
  BY DEF Files
<1>1. CASE calm' = calm /\ disk' = disk
  BY <1>1 DEF Calmed, StillCalm, PairsStill
<1>2. CASE /\ job[t].op = "import" /\ job[t].file # "store" /\ DiskRest(job[t].file)
           /\ calm' = calm \ IF job[t].file = "rag" THEN {"current", "index"} ELSE {"pairs"}
  <2>1. job[t].file = "rag"
    BY <1>2
  <2> QED BY <1>0, <1>2, <2>1 DEF Calmed, StillCalm, PairsStill, DiskRest
<1>3. ASSUME NEW d, job[t].op = "import", job[t].at = "copying", PlaceWritten(t, job[t].file, d), calm' = calm
      PROVE  Calmed(t)
  <2>1. job[t].file \in DatasetFiles
    BY <1>3, ImportAt
  <2>2. PairsStill
    <3>1. CASE job[t].file = "rag"
      BY <1>0, <1>3, <3>1 DEF PlaceWritten, DiskRest, PairsStill
    <3>2. CASE job[t].file \in {"sft", "eval"}
      BY <1>3, <3>2, ClosedStill DEF PairsInv, PairsFile, PairsStill
    <3> QED BY <2>1, <3>1, <3>2 DEF DatasetFiles
  <2> QED BY <1>3, <2>2 DEF Calmed, StillCalm
<1>5. CASE /\ job[t].op = "import" /\ job[t].at = "copy" /\ job[t].file = "store" /\ FilesStill /\ job[t].alone
           /\ calm' = calm \cup (corpora[job[t].arg.name].calm \cap
                                   IF job[t].arg.include_sft THEN {"index", "pairs"} ELSE {"index"})
  <2>1. CASE "pairs" \in calm
    BY <1>5, <2>1 DEF FilesStill, Calmed, StillCalm, PairsStill
  <2>2. CASE "pairs" \notin calm
    <3>1. PICK c : c = corpora[job[t].arg.name]
      OBVIOUS
    <3>2. job[t].arg.include_sft /\ "pairs" \in c.calm
      BY <1>5, <2>2, <3>1
    <3>3. c.manifest = "whole" /\ \A f \in DatasetFiles : c[f] # Absent /\ Before(f, "store") => disk[f].data = c[f]
      BY <1>5, <3>1, <3>2 DEF ImportInv, ImportJob
    <3>4. c["sft"] \in PairFiles /\ c["eval"] \in PairFiles
      BY <1>5, <3>1, <3>2, <3>3, ImportAt DEF CorporaInv, CorpusOK
    <3>5. c["sft"] # Absent /\ c["eval"] # Absent
      BY <3>4, SentinelsAssumption
    <3>6. c["sft"].from = "corpus" /\ c["eval"].from = "corpus"
      BY <1>5, <3>1, <3>4, ImportAt DEF CorpusFrom
    <3>7. \A f \in {"sft", "eval"} : disk[f].data = c[f]
      BY <3>3, <3>5 DEF Before, DatasetFiles
    <3> QED BY <1>5, <3>6, <3>7 DEF Calmed, FromCorpus, FilesStill
  <2> QED BY <2>1, <2>2
<1> QED BY <1>1, <1>2, <1>3, <1>5 DEF ImportDoes, Still, FilesStill, DataStill

LEMMA PairsCalmed ==
  ASSUME Base, Base', SwapInv, PairsInv, CorporaInv, CorpusFrom, ImportInv, NEW t \in Tasks, Steps(t), "pairs" \in calm'
  PROVE  Calmed(t)
<1>1. ActsChoice(t)
  BY ActsChosen DEF Base, Steps
<1>2. CASE BreakDoes(t)
  BY <1>2, LeftStill DEF BreakDoes, DataStill, PairsInv, PairsFile, Calmed, StillCalm, PairsStill, Files
<1>3. CASE Acts(t) = "delete"
  <2>1. CASE DeleteDoes(t)
    BY <2>1 DEF DeleteDoes, DataStill, Still, FilesStill, Calmed, StillCalm, PairsStill
  <2> QED BY <1>1, <1>2, <1>3, <2>1 DEF ActsChoice
<1>4. CASE Acts(t) = "import"
  BY <1>1, <1>2, <1>4, CalmedImport DEF ActsChoice
<1>5. CASE Acts(t) \in Generators
  BY <1>1, <1>2, <1>5, CalmedGenerate DEF ActsChoice
<1>6. CASE Acts(t) \notin {"delete", "import"} \cup Generators
  <2>1. job[t].op \notin {"delete", "import"} \cup Generators /\ job'[t].op \notin {"delete", "import"} \cup Generators
    BY <1>6, OpKept DEF Acts, Steps, Generators
  <2>2. "pairs" \notin ToWrite(t) /\ "pairs" \notin ToWrite(t)'
    BY <2>1, WritersAre DEF Base, Writers
  <2>3. "pairs" \in calm
    BY <1>6, CalmKept DEF Base
  <2> QED BY <2>2, <2>3, PairsKept DEF Kept, Calmed, StillCalm, PairsStill
<1> QED BY <1>3, <1>4, <1>5, <1>6

---------------------------------------------------------------------------
(* The seed that split first                                               *)

\* Nothing calm is downloaded.
Unmixed ==
  /\ "pairs" \in calm => disk["sft"].data.from \notin Requests /\ disk["eval"].data.from \notin Requests
  /\ trained.calm => trained.from \notin Requests

\* What is calm and downloaded is split by the seed that is told.
OneSeed ==
  /\ "pairs" \in calm =>
       /\ disk["sft"].data.from \in Requests =>
            told.seed \in Seeds /\ disk["sft"].data.pairs = Taught(disk["sft"].data.from, told.seed)
       /\ disk["eval"].data.from \in Requests =>
            told.seed \in Seeds /\ disk["eval"].data.pairs = HeldOut[disk["eval"].data.from][told.seed]
  /\ trained.calm /\ trained.from \in Requests =>
       told.seed \in Seeds /\ trained.pairs = Taught(trained.from, told.seed)

\* And so is what a generator that met no rival downloads.
SeedJob(t) ==
  job[t].op \in Generators =>
    /\ job[t].alone /\ job[t].at \notin Early => told.seed = job[t].arg.seed
    /\ job[t].at \in {"config", "config_opened"} /\ ~reseeded => told.seed \in {NoSeed, job[t].arg.seed}

SeedInv ==
  /\ ~dir => Unmixed /\ \A t \in Tasks : job[t].op \in Generators => ~job[t].alone
  /\ "toml" \notin raced =>
       /\ (\E t \in Tasks : job[t].op = "create") =>
            Unmixed /\ \A t \in Tasks : job[t].op \in Generators /\ job[t].alone => job[t].at \in Early
       /\ \A t \in Tasks : SeedJob(t)
       /\ ~reseeded => OneSeed

\* What holds of the files besides.
Rested ==
  /\ Base /\ SwapInv /\ PairsInv /\ CorporaInv /\ CorpusFrom /\ ImportInv /\ ConfigInv

LEMMA UnmixedIsOne == (Unmixed => OneSeed) /\ (Unmixed => OneSeed)'
<1>1. Unmixed => OneSeed
  BY DEF Unmixed, OneSeed
<1> QED BY <1>1, PTL

LEMMA UnmixedKept ==
  ASSUME Rested, Base', NEW t \in Tasks, Steps(t), Unmixed, ~FromSeed(t)
  PROVE  Unmixed'
<1>1. "pairs" \in calm' => disk'["sft"].data.from \notin Requests /\ disk'["eval"].data.from \notin Requests
  <2> SUFFICES ASSUME "pairs" \in calm'
               PROVE  disk'["sft"].data.from \notin Requests /\ disk'["eval"].data.from \notin Requests
    OBVIOUS
  <2>1. StillCalm \/ FromCorpus
    BY PairsCalmed DEF Rested, Calmed
  <2> QED BY <2>1, DatasetsAssumption DEF StillCalm, PairsStill, FromCorpus, Unmixed
<1>2. trained'.calm => trained'.from \notin Requests
  <2>1. CASE Deleted(t)
    BY <2>1 DEF Deleted, Untrained
  <2>2. CASE trained' = trained
    BY <2>2 DEF Unmixed
  <2>3. CASE TrainedOn(t)
    BY <2>3, DatasetsAssumption DEF TrainedOn, Unmixed
  <2> QED BY <2>1, <2>2, <2>3, TrainedKept DEF Rested, Base
<1> QED BY <1>1, <1>2 DEF Unmixed

LEMMA UnmixedGone == ASSUME NEW t \in Tasks, Deleted(t) PROVE Unmixed'
BY DEF Deleted, Untrained, Unmixed

LEMMA OneSeedKept ==
  ASSUME Rested, Base', NEW t \in Tasks, Steps(t), OneSeed, told'.seed = told.seed, ~Deleted(t),
         FromSeed(t) => told.seed = job[t].arg.seed
  PROVE  OneSeed'
<1>1. ASSUME "pairs" \in calm'
      PROVE /\ disk'["sft"].data.from \in Requests =>
                 told'.seed \in Seeds /\ disk'["sft"].data.pairs = Taught(disk'["sft"].data.from, told'.seed)
            /\ disk'["eval"].data.from \in Requests =>
                 told'.seed \in Seeds /\ disk'["eval"].data.pairs = HeldOut[disk'["eval"].data.from][told'.seed]
  <2>1. CASE StillCalm
    BY <2>1 DEF StillCalm, PairsStill, OneSeed
  <2>2. CASE FromCorpus
    BY <2>2, DatasetsAssumption DEF FromCorpus
  <2>3. CASE FromSeed(t)
    BY <2>3, SplitOf DEF FromSeed, Rested, Base
  <2> QED BY <1>1, <2>1, <2>2, <2>3, PairsCalmed DEF Rested, Calmed
<1>2. ASSUME trained'.calm, trained'.from \in Requests
      PROVE  told'.seed \in Seeds /\ trained'.pairs = Taught(trained'.from, told'.seed)
  <2>2. CASE trained' = trained
    BY <1>2, <2>2 DEF OneSeed
  <2>3. CASE TrainedOn(t)
    BY <1>2, <2>3, DatasetsAssumption DEF TrainedOn, OneSeed
  <2> QED BY <2>2, <2>3, TrainedKept DEF Rested, Base
<1> QED BY <1>1, <1>2 DEF OneSeed

LEMMA GenBegins ==
  ASSUME TypesInv, NEW t \in Tasks, Steps(t), job'[t].op \in Generators, job[t].op = "none"
  PROVE  dir /\ job'[t].at = "get"
<1>1. GenerateDoes(t)
  <2>1. Acts(t) = job'[t].op /\ ~BreakDoes(t)
    BY ActsOn, BreakEnds DEF Steps, Generators
  <2> QED BY <2>1, ActsChosen DEF ActsChoice, Steps
<1> QED BY <1>1 DEF GenerateDoes, Begun, Generators

LEMMA CreateBegins ==
  ASSUME TypesInv, NEW t \in Tasks, Steps(t), job'[t].op = "create", job[t].op = "none"
  PROVE  ~dir
<1>1. CreateDoes(t)
  <2>1. Acts(t) = "create"
    BY DEF Acts
  <2>2. ~BreakDoes(t)
    BY DEF BreakDoes
  <2> QED BY <2>1, <2>2, ActsAre DEF OpActs, Steps, Does, Generators, Updates
<1> QED BY <1>1 DEF CreateDoes

LEMMA OwnKept ==
  ASSUME NEW t \in Tasks, Kind(t), job[t].op # "none", job'[t].op # "none"
  PROVE  job'[t].op = job[t].op /\ job'[t].alone = job[t].alone
BY DEF Kind, Starts, GoesOn, Vanishes, Begun, Moved, JobIs, Done

\* Two tasks that write the same, neither alone or that file raced.
LEMMA Together ==
  ASSUME Base, NEW t \in Tasks, NEW u \in Tasks \ {t}
  PROVE  /\ "pairs" \in ToWrite(t) /\ "pairs" \in ToWrite(u) => ~job[u].alone
         /\ "toml" \in ToWrite(t) /\ "toml" \in ToWrite(u) => "toml" \in raced
BY DEF Base, WritersInv, RacedInv, AloneInv

\* Without its directory a project has nothing downloaded.
LEMMA SeedDir ==
  ASSUME Rested, Base', SeedInv, NEW t \in Tasks, Steps(t), ~dir'
  PROVE  Unmixed' /\ \A u \in Tasks : job'[u].op \in Generators => ~job'[u].alone
<1>1. CASE Deleted(t)
  <2>1. ASSUME NEW u \in Tasks, job'[u].op \in Generators, job'[u].alone PROVE FALSE
    <3>1. u # t
      BY <1>1, <2>1 DEF Deleted, Vanishes, Generators
    <3>2. job[u].op \in Generators /\ job[u].alone
      BY <2>1, <3>1, OthersKept DEF Rested, Base, Steps
    <3>3. "pairs" \in ToWrite(t) /\ "pairs" \in ToWrite(u)
      BY <1>1, <3>2, WritersAre DEF Rested, Base, Writers, Deleted
    <3> QED BY <3>1, <3>2, <3>3, Together DEF Rested
  <2> QED BY <1>1, <2>1, UnmixedGone
<1>2. CASE ~Deleted(t)
  <2>1. ~dir
    BY <1>2, DirKept DEF Rested, Base
  <2>2. Unmixed /\ \A u \in Tasks : job[u].op \in Generators => ~job[u].alone
    BY <2>1 DEF SeedInv
  <2>3. Unmixed'
    BY <2>2, UnmixedKept DEF FromSeed
  <2>4. ASSUME NEW u \in Tasks, job'[u].op \in Generators, job'[u].alone PROVE FALSE
    <3>1. CASE u # t
      BY <2>2, <2>4, <3>1, OthersKept DEF Rested, Base, Steps
    <3>2. CASE u = t
      <4>1. job[t].op # "none"
        BY <2>1, <2>4, <3>2, GenBegins DEF Rested, Base
      <4>2. job'[t].op # "none"
        BY <2>4, <3>2 DEF Generators
      <4>3. job[t].op \in Generators /\ job[t].alone
        BY <2>4, <3>2, <4>1, <4>2, OwnKept DEF Steps
      <4> QED BY <2>2, <4>3
    <3> QED BY <3>1, <3>2
  <2> QED BY <2>3, <2>4
<1> QED BY <1>1, <1>2

\* Nor while it is created.
LEMMA SeedCreate ==
  ASSUME Rested, Base', SeedInv, NEW t \in Tasks, Steps(t), ~Deleted(t), "toml" \notin raced, "toml" \notin raced',
         NEW u \in Tasks, job'[u].op = "create"
  PROVE  Unmixed' /\ \A v \in Tasks : job'[v].op \in Generators /\ job'[v].alone => job'[v].at \in Early
<1>1. CASE job[u].op = "create"
  <2>1. Unmixed /\ \A v \in Tasks : job[v].op \in Generators /\ job[v].alone => job[v].at \in Early
    BY <1>1 DEF SeedInv
  <2>2. Unmixed'
    BY <2>1, UnmixedKept DEF FromSeed, Early
  <2>3. ASSUME NEW v \in Tasks, job'[v].op \in Generators, job'[v].alone PROVE job'[v].at \in Early
    <3>1. CASE v # t
      BY <2>1, <2>3, <3>1, OthersKept DEF Rested, Base, Steps
    <3>2. CASE v = t
      <4>1. CASE job[t].op = "none"
        BY <2>3, <3>2, <4>1, GenBegins DEF Rested, Base, Early
      <4>2. CASE job[t].op # "none"
        <5>1. job'[t].op # "none"
          BY <2>3, <3>2 DEF Generators
        <5>2. job[t].op \in Generators /\ job[t].alone
          BY <2>3, <3>2, <4>2, <5>1, OwnKept DEF Steps
        <5>3. job[t].at \in Early
          BY <2>1, <5>2
        <5>4. "toml" \in ToWrite(t) /\ "toml" \in ToWrite(u)
          BY <1>1, <5>2, <5>3, ConfigWritersAre DEF Rested, Base, ConfigWriters
        <5>5. u # t
          BY <1>1, <5>2 DEF Generators
        <5> QED BY <5>4, <5>5, Together DEF Rested
      <4> QED BY <4>1, <4>2
    <3> QED BY <3>1, <3>2
  <2> QED BY <2>2, <2>3
<1>2. CASE job[u].op # "create"
  <2>1. u = t
    BY <1>2, OthersKept DEF Rested, Base, Steps
  <2>2. job[t].op = "none"
    BY <1>2, <2>1, OwnKept DEF Steps
  <2>3. ~dir
    BY <2>1, <2>2, CreateBegins DEF Rested, Base
  <2>4. Unmixed /\ \A v \in Tasks : job[v].op \in Generators => ~job[v].alone
    BY <2>3 DEF SeedInv
  <2>5. Unmixed'
    BY <2>4, UnmixedKept DEF FromSeed
  <2>6. ASSUME NEW v \in Tasks, job'[v].op \in Generators, job'[v].alone PROVE FALSE
    <3>1. v # t
      BY <2>1, <2>6 DEF Generators
    <3> QED BY <2>4, <2>6, <3>1, OthersKept DEF Rested, Base, Steps
  <2> QED BY <2>5, <2>6
<1> QED BY <1>1, <1>2

\* What a step of t leaves to the generators beside it.
LEMMA SeedOthers ==
  ASSUME Rested, Base', SeedInv, NEW t \in Tasks, Steps(t), ~Deleted(t), "toml" \notin raced, "toml" \notin raced',
         NEW u \in Tasks \ {t}
  PROVE  SeedJob(u)'
<1> SUFFICES ASSUME job'[u].op \in Generators
             PROVE  /\ job'[u].alone /\ job'[u].at \notin Early => told'.seed = job'[u].arg.seed
                    /\ job'[u].at \in {"config", "config_opened"} /\ ~reseeded' => told'.seed \in {NoSeed, job'[u].arg.seed}
  BY DEF SeedJob
<1>1. /\ job'[u].op = job[u].op /\ job'[u].at = job[u].at /\ job'[u].arg = job[u].arg
      /\ job'[u].alone => job[u].alone
  BY OthersKept DEF Rested, Base, Steps
<1>2. /\ job[u].alone /\ job[u].at \notin Early => told.seed = job[u].arg.seed
      /\ job[u].at \in {"config", "config_opened"} /\ ~reseeded => told.seed \in {NoSeed, job[u].arg.seed}
  BY <1>1 DEF SeedInv, SeedJob
<1>3. ASSUME job'[u].alone, job'[u].at \notin Early PROVE told'.seed = job'[u].arg.seed
  <2>1. ~(job[t].op = "create")
    BY <1>1, <1>3 DEF SeedInv
  <2>2. job[t].op \notin Generators
    <3>1. "pairs" \in ToWrite(u) /\ (job[t].op \in Generators => "pairs" \in ToWrite(t))
      BY <1>1, WritersAre DEF Rested, Base, Writers
    <3> QED BY <1>1, <1>3, <3>1, Together DEF Rested
  <2>3. told'.seed = told.seed
    BY <2>1, <2>2, SeedTold DEF Rested, Base
  <2> QED BY <1>1, <1>2, <1>3, <2>3
<1>4. ASSUME job'[u].at \in {"config", "config_opened"}, ~reseeded' PROVE told'.seed \in {NoSeed, job'[u].arg.seed}
  <2>1. "toml" \in ToWrite(u)
    BY <1>1, <1>4, ConfigWritersAre DEF Rested, Base, ConfigWriters
  <2>2. "toml" \notin ToWrite(t)
    BY <2>1, Together DEF Rested
  <2>3. job[t].op # "create" /\ job[t].at # "config_opened"
    BY <2>2, ConfigWritersAre DEF Rested, Base, ConfigWriters
  <2>4. told'.seed = told.seed
    BY <2>3, SeedTold DEF Rested, Base
  <2>5. ~reseeded
    BY <1>4, ReseededKept DEF Rested, Base
  <2> QED BY <1>1, <1>2, <1>4, <2>4, <2>5
<1> QED BY <1>3, <1>4

LEMMA SeedOwn ==
  ASSUME Rested, Base', SeedInv, NEW t \in Tasks, Steps(t), "toml" \notin raced, job'[t].op \in Generators
  PROVE  SeedJob(t)'
<1>1. GenerateDoes(t)
  <2>1. Acts(t) = job'[t].op /\ ~BreakDoes(t)
    BY ActsOn, BreakEnds DEF Steps, Generators
  <2> QED BY <2>1, ActsChosen DEF ActsChoice, Steps, Rested, Base
<1>2. CASE job[t].op = "none"
  <2>1. job'[t].at = "get"
    BY <1>2, GenBegins DEF Rested, Base
  <2> QED BY <2>1 DEF SeedJob, Early
<1>3. CASE job[t].op # "none"
  <2>0. job[t].op \in Generators /\ job'[t].alone = job[t].alone
    <3>1. job'[t].op # "none"
      BY DEF Generators
    <3> QED BY <1>3, <3>1, OwnKept DEF Steps
  <2>1. /\ job[t].alone /\ job[t].at \notin Early => told.seed = job[t].arg.seed
        /\ job[t].at \in {"config", "config_opened"} /\ ~reseeded => told.seed \in {NoSeed, job[t].arg.seed}
    BY <2>0 DEF SeedInv, SeedJob
  <2>g. job[t].at = "get" /\ disk["toml"].data \in Configs => disk["toml"].data = told
    <3>1. "toml" \in ToWrite(t) => ConfigFile
      BY DEF Rested, ConfigInv
    <3>2. job[t].at = "get" => "toml" \in ToWrite(t)
      BY <2>0, ConfigWritersAre DEF Rested, Base, ConfigWriters, Early
    <3> QED BY <3>1, <3>2, StoreAssumption DEF ConfigFile
  <2>2. ASSUME job[t].at = "get", disk["toml"].data \in Configs, NEW s \in Seeds,
               Moved(t, "config", job[t].file, job[t].data, [disk["toml"].data EXCEPT !["seed"] = s]),
               reseeded' <=> reseeded \/ disk["toml"].data.seed \notin {NoSeed, s}, told' = told
        PROVE  SeedJob(t)'
    <3>1. job'[t].at = "config" /\ job'[t].arg = [disk["toml"].data EXCEPT !["seed"] = s]
      BY <2>2 DEF Moved, JobIs
    <3>2. job'[t].arg.seed = s
      BY <2>2, <3>1 DEF Configs
    <3>3. ~reseeded' => told.seed \in {NoSeed, s}
      BY <2>2, <2>g
    <3> QED BY <2>2, <3>1, <3>2, <3>3 DEF SeedJob, Early
  <2>3. CASE /\ job[t].at = "get" /\ disk["toml"].data \in Configs /\ told' = told
             /\ Moved(t, "work", job[t].file, job[t].data, disk["toml"].data)
    <3>1. job'[t].at = "work" /\ job'[t].arg = told
      BY <2>3, <2>g DEF Moved, JobIs
    <3> QED BY <2>3, <3>1 DEF SeedJob, Early
  <2>4. CASE ConfigOpened(t)
    <3>1. /\ job'[t].at = "config_opened" /\ job'[t].arg = job[t].arg /\ told' = told /\ reseeded' = reseeded
          /\ job[t].at = "config"
      BY <2>4 DEF ConfigOpened, Moved, JobIs
    <3> QED BY <2>1, <3>1 DEF SeedJob, Early
  <2>5. CASE job[t].at = "config_opened" /\ Moved(t, "work", job[t].file, job[t].data, job[t].arg)
    <3>1. job'[t].at = "work" /\ job'[t].arg = job[t].arg
      BY <2>5 DEF Moved, JobIs
    <3>2. told'.seed = job[t].arg.seed
      <4>1. ConfigWritten(t) /\ FieldTold(t)
        BY <1>1, <2>0, <2>5 DEF GenerateDoes, ConfigOpened, SwapOpened, SwapPut, Begun, Generators
      <4>2. Field(job[t].op) = "seed" /\ told \in Configs
        BY <2>0, FieldIs DEF Rested, Base, TypesInv, DataTyped
      <4>3. told' = [told EXCEPT !["seed"] = job[t].arg["seed"]]
        BY <4>1, <4>2 DEF FieldTold
      <4> QED BY <4>2, <4>3 DEF Configs
    <3> QED BY <3>1, <3>2 DEF SeedJob, Early
  <2>6. CASE job[t].at \notin Early /\ job'[t].arg = job[t].arg /\ job'[t].at \notin Early /\ told' = told
    BY <2>0, <2>1, <2>6 DEF SeedJob, Early
  <2>7. CASE job[t].at \in Early
    BY <1>1, <1>3, <2>0, <2>2, <2>3, <2>4, <2>5, <2>7 DEF GenerateDoes, Begun, SwapOpened, SwapPut, Early,
       Still,
       ConfigWritten
  <2>8. CASE job[t].at \notin Early
    <3>1. job'[t].arg = job[t].arg /\ job'[t].at \notin Early /\ told' = told
      BY <1>1, <1>3, <2>0, <2>8 DEF GenerateDoes, Begun, SwapOpened, SwapPut, Early, Still, ConfigOpened,
         ConfigWritten, Moved, JobIs, Done, Generators
    <3> QED BY <2>6, <2>8, <3>1
  <2> QED BY <2>7, <2>8
<1> QED BY <1>2, <1>3

---------------------------------------------------------------------------
(* A seeded project, from its beginning to its end                         *)

LEMMA SeedOne ==
  ASSUME Rested, Base', SeedInv, NEW t \in Tasks, Steps(t), ~Deleted(t), "toml" \notin raced, ~reseeded'
  PROVE  OneSeed'
<1>1. ~reseeded /\ OneSeed /\ SeedJob(t)
  <2>1. ~reseeded
    BY ReseededKept DEF Rested, Base
  <2> QED BY <2>1 DEF SeedInv
<1>2. CASE told'.seed = told.seed
  <2>1. FromSeed(t) => told.seed = job[t].arg.seed
    BY <1>1 DEF FromSeed, SeedJob, Early
  <2> QED BY <1>1, <1>2, <2>1, OneSeedKept
<1>3. ASSUME Unmixed, ~FromSeed(t) PROVE OneSeed'
  BY <1>3, UnmixedKept, UnmixedIsOne
<1>4. CASE job[t].op = "create"
  <2>1. Unmixed
    BY <1>4 DEF SeedInv
  <2>2. ~FromSeed(t)
    BY <1>4 DEF FromSeed, Generators
  <2> QED BY <1>3, <2>1, <2>2
<1>5. CASE job[t].op \in Generators /\ job[t].at = "config_opened" /\ told'.seed = job[t].arg.seed
  <2>1. told.seed \in {NoSeed, job[t].arg.seed}
    BY <1>1, <1>5 DEF SeedJob
  <2>2. CASE told.seed = job[t].arg.seed
    BY <1>2, <1>5, <2>2
  <2>3. CASE told.seed = NoSeed
    <3>1. Unmixed
      BY <1>1, <2>3, StoreAssumption DEF OneSeed, Unmixed
    <3>2. ~FromSeed(t)
      BY <1>5 DEF FromSeed
    <3> QED BY <1>3, <3>1, <3>2
  <2> QED BY <2>1, <2>2, <2>3
<1> QED BY <1>2, <1>4, <1>5, SeedTold DEF Rested, Base

LEMMA SeedKept ==
  ASSUME Rested, Base', SeedInv, NEW t \in Tasks, Steps(t)
  PROVE  SeedInv'
<1>1. ~dir' => Unmixed' /\ \A u \in Tasks : job'[u].op \in Generators => ~job'[u].alone
  BY SeedDir
<1>2. ASSUME "toml" \notin raced'
      PROVE  /\ (\E u \in Tasks : job'[u].op = "create") =>
                  Unmixed' /\ \A u \in Tasks : job'[u].op \in Generators /\ job'[u].alone => job'[u].at \in Early
             /\ \A u \in Tasks : SeedJob(u)'
             /\ ~reseeded' => OneSeed'
  <2>1. CASE Deleted(t)
    <3>1. \A u \in Tasks : "toml" \notin ToWrite(u)'
      BY <1>2, <2>1, DeletedLeaves DEF Rested, Steps
    <3>2. \A u \in Tasks : job'[u].op # "create" /\ job'[u].at \notin {"config", "config_opened"}
      BY <3>1, ConfigWritersAre DEF Base, ConfigWriters
    <3>3. ~dir'
      BY <2>1 DEF Deleted
    <3>4. \A u \in Tasks : SeedJob(u)'
      BY <1>1, <3>2, <3>3 DEF SeedJob
    <3>5. OneSeed'
      BY <1>1, <3>3, UnmixedIsOne
    <3> QED BY <3>2, <3>4, <3>5
  <2>2. CASE ~Deleted(t)
    <3>1. "toml" \notin raced
      BY <1>2, <2>2, DoesGrows DEF Grows, Steps, Rested, Base
    <3>2. SeedJob(t)'
      <4>1. CASE job'[t].op \in Generators
        BY <3>1, <4>1, SeedOwn
      <4>2. CASE job'[t].op \notin Generators
        BY <4>2 DEF SeedJob
      <4> QED BY <4>1, <4>2
    <3>3. \A u \in Tasks : SeedJob(u)'
      BY <1>2, <2>2, <3>1, <3>2, SeedOthers
    <3> QED BY <1>2, <2>2, <3>1, <3>3, SeedCreate, SeedOne
  <2> QED BY <2>1, <2>2
<1> QED BY <1>1, <1>2 DEF SeedInv

LEMMA SeedInit == ASSUME Init PROVE SeedInv
<1>1. \A t \in Tasks : job[t].op = "none"
  BY DEF Init, Idle, Job
<1>2. PICK stage \in Stages : Beginning(stage)
  BY InitIs
<1>3. ~trained.calm
  BY DEF Init, Untrained
<1>4. OneSeed
  <2> SUFFICES ASSUME "pairs" \in calm
               PROVE  /\ disk["sft"].data.from \in Requests =>
                           told.seed \in Seeds /\ disk["sft"].data.pairs = Taught(disk["sft"].data.from, told.seed)
                      /\ disk["eval"].data.from \in Requests =>
                           /\ told.seed \in Seeds
                           /\ disk["eval"].data.pairs = HeldOut[disk["eval"].data.from][told.seed]
    BY <1>3 DEF OneSeed
  <2>1. PICK from \in Origins : from = FirstOrigin(stage)
    BY FirstRequestIs DEF FirstOrigin, Origins
  <2>2. PICK split : split = Split(FirstDrawn, FirstHeld, from)
    OBVIOUS
  <2>3. disk["sft"] = File(split.sft) /\ disk["eval"] = File(split.eval) /\ told.seed = FirstSeed
    BY <1>2, <2>1, <2>2 DEF Beginning
  <2>4. SplitInto(split, FirstDrawn, FirstHeld, from)
    BY <2>2, FirstRequestIs, SplitIs
  <2>5. disk["sft"].data = split["sft"] /\ disk["eval"].data = split["eval"]
    BY <2>3, FileIs
  <2>6. from \in Requests => from = FirstRequest
    BY <2>1, DatasetsAssumption DEF FirstOrigin
  <2> QED BY <2>3, <2>4, <2>5, <2>6, FirstSeedIs DEF SplitInto, Taught, FirstDrawn, FirstHeld
<1>5. ~dir => Unmixed
  BY <1>2, <1>3 DEF Beginning, Unmixed
<1> QED BY <1>1, <1>4, <1>5 DEF SeedInv, SeedJob, Generators

SeededInv == Prepared /\ EditsInv /\ CorpusFrom /\ SeedInv

\* What a request to import_sft_from_hf put into sft.jsonl, eval.jsonl or an
\* adapter's training set is its part of what that request draws under the one
\* seed that resolve_seed stored first, in every state in which nobody gave
\* another and no two writers overlapped or broke off.
THEOREM SeededAlways == Spec => []SeededInv
<1>1. Init => SeededInv
  BY PreparedInit, EditsInit, CorpusFromInit, SeedInit DEF SeededInv
<1>2. SeededInv /\ [Next]_vars => SeededInv'
  <2> SUFFICES ASSUME SeededInv, [Next]_vars PROVE SeededInv'
    OBVIOUS
  <2>1. Prepared' /\ EditsInv'
    BY PreparedStep, EditsStep DEF SeededInv
  <2>2. CASE Next
    <3>1. PICK t \in Tasks : Step(t)
      BY <2>2 DEF Next
    <3>2. Steps(t)
      BY <3>1, StepSteps DEF SeededInv, Prepared, Base
    <3>3. Rested /\ Base'
      BY <2>1 DEF SeededInv, Prepared, EditsInv, Rested
    <3>4. CorpusFrom'
      BY <3>2, CorpusFromKept DEF SeededInv, Prepared
    <3>5. SeedInv'
      BY <3>2, <3>3, SeedKept DEF SeededInv
    <3> QED BY <2>1, <3>4, <3>5 DEF SeededInv
  <2>3. CASE UNCHANGED vars
    <3>1. CorpusFrom'
      BY <2>3, StutterIs DEF SeededInv, CorpusFrom
    <3>2. Unmixed' = Unmixed /\ OneSeed' = OneSeed /\ \A t \in Tasks : SeedJob(t)' = SeedJob(t)
      BY <2>3, StutterIs DEF Unmixed, OneSeed, SeedJob
    <3>3. SeedInv'
      BY <2>3, <3>2, StutterIs DEF SeededInv, SeedInv
    <3> QED BY <2>1, <3>1, <3>3 DEF SeededInv
  <2> QED BY <2>2, <2>3
<1> QED BY <1>1, <1>2, PTL DEF Spec

\* An adapter trained on what a request imported is evaluated on none of the pairs
\* it was trained on after the same request (sources, caps and eval_split as
\* before, import_sft_from_hf.rs), repeated any number of times, whatever other
\* requests came between, for any requests, pairs and seeds: as long as nobody
\* gives a seed and no two writers overlapped or broke off.
THEOREM EvaluatesOnHeldOutAlways == Spec => []EvaluatesOnHeldOut
<1>1. SeededInv => EvaluatesOnHeldOut
  BY DEF SeededInv, SeedInv, OneSeed, EvaluatesOnHeldOut, Taught
<1> QED BY <1>1, SeededAlways, PTL
=============================================================================
