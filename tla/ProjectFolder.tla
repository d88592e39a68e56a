---------------------------- MODULE ProjectFolder ----------------------------
(***************************************************************************)
(* A project's directory as a whole: its store, its datasets and the       *)
(* library of corpora, under tasks that run operations on them side by     *)
(* side and may break off at any step: an error, a timeout, or the end of  *)
(* the application, which breaks off all of them.                          *)
(***************************************************************************)
EXTENDS Corpora

CONSTANT MaxOps  \* bound: operations begun

ASSUME OpsAssumption == MaxOps \in Nat

VARIABLE ops  \* how many were

vars == <<filevars, job, raced, storevars, datavars, corpora, ops>>

TypeOK ==
  /\ FilesTypeOK /\ StoreTypeOK /\ DatasetsTypeOK /\ CorporaTypeOK
  /\ ops \in 0..MaxOps

---------------------------------------------------------------------------
File(d) == [NoFile EXCEPT !.data = d]

\* A project that is not there, or has gone some of the way, undisturbed.
Stages == {"none", "created", "ingested", "generated", "downloaded"}

InitProject(stage, q, seed) ==
  LET paired == stage \in {"generated", "downloaded"}
      ingested == paired \/ stage = "ingested"
      split == Split(Drawn[q][seed], HeldOut[q][seed], IF stage = "generated" THEN "synth" ELSE q)
  IN /\ dir = (stage # "none")
     /\ told = [Fresh EXCEPT !.seed = IF paired THEN seed ELSE NoSeed]
     /\ disk = [toml |-> IF dir THEN File(told) ELSE NoFile,
                chunks |-> IF ingested THEN File(Chunks) ELSE NoFile,
                rag |-> IF paired THEN File(Chunks) ELSE NoFile,
                sft |-> IF paired THEN File(split.sft) ELSE NoFile,
                eval |-> IF paired THEN File(split.eval) ELSE NoFile]
     /\ flags = Chunks
     /\ index = IF paired THEN Chunks ELSE Absent
     /\ calm = IF paired THEN {"current", "index", "pairs"} ELSE {}

\* What another project has exported, with its pairs and without.
Exported(q, seed) ==
  [dir |-> TRUE, manifest |-> "whole", rag |-> Chunks, store |-> Chunks, calm |-> {"index", "pairs"},
   sft |-> Split(Drawn[q][seed], HeldOut[q][seed], "corpus").sft,
   eval |-> Split(Drawn[q][seed], HeldOut[q][seed], "corpus").eval]

ExportedBare ==
  [NoCorpus EXCEPT !.dir = TRUE, !.manifest = "whole", !.rag = Chunks, !.store = Chunks, !.calm = {"index"}]

\* A library beside a project that can import from it; which request and which
\* seed made the pairs does not matter.
Init ==
  /\ \E stage \in Stages :
       LET q == CHOOSE r \in Requests : TRUE
           seed == CHOOSE s \in Seeds : TRUE
       IN /\ InitProject(stage, q, seed)
          /\ corpora \in [Names -> IF stage = "created" THEN {Exported(q, seed), ExportedBare}
                                  ELSE {IF stage = "ingested" THEN Exported(q, seed) ELSE NoCorpus}]
  /\ tmp = [f \in Files |-> NoFile]
  /\ job = [t \in Tasks |-> Idle] /\ raced = {}
  /\ reseeded = FALSE /\ deserted = FALSE
  /\ trained = Untrained
  /\ ops = 0

---------------------------------------------------------------------------
\* Deleting a project deletes what it prepared and what was trained in it.
Deletes(t) ==
  \/ DeleteChecks(t) /\ UNCHANGED <<datavars, corpora>>
  \/ /\ DeleteRemovesSome(t)
     /\ index' \in {index, Absent} /\ calm' = {}
     /\ UNCHANGED <<trained, flags, corpora>>
  \/ /\ DeleteRemovesDir(t)
     /\ index' = Absent /\ calm' = {} /\ trained' = Untrained
     /\ UNCHANGED <<flags, corpora>>

\* An operation breaks off; what it wrote stays as it is.
BreaksOff(t) ==
  /\ job[t].op # "none"
  /\ Ends(t)
  /\ LeavesFiles(t)
  /\ deserted' = (deserted \/ <<job[t].op, job[t].at>> \in {<<"create", "config">>, <<"delete", "rmdir">>})
  /\ UNCHANGED <<dir, told, reseeded, datavars, corpora>>

Step(t) ==
  \/ StoreStep(t) /\ UNCHANGED <<datavars, corpora>>
  \/ Deletes(t)
  \/ DataStep(t) /\ UNCHANGED corpora
  \/ CorpusStep(t)
  \/ BreaksOff(t)

Next ==
  \E t \in Tasks :
    /\ job[t].op = "none" => ops < MaxOps
    /\ Step(t)
    /\ ops' = IF job[t].op = "none" THEN ops + 1 ELSE ops

Spec == Init /\ [][Next]_vars

---------------------------------------------------------------------------
(* Properties                                                              *)

\* What a completed edit set, no other operation undoes, and no crash, failure
\* or retry of one: chunks.jsonl is whole and has the flags, project.toml has the
\* fields, that the completed operations on them left, unless two of those
\* overlapped.  project.toml is torn only while it is written or by a writer
\* that broke off in the middle.
EditsSurvive ==
  /\ "chunks" \notin raced /\ Present("chunks") => disk["chunks"].data = flags
  /\ "toml" \notin raced /\ Present("toml") =>
       IF disk["toml"].data = Torn THEN disk["toml"].open # {} \/ disk["toml"].cut
       ELSE disk["toml"].data = told

\* No pair of the held-out set is in the training set: of a project, generated,
\* downloaded or imported, and of a listed corpus, wherever it has been since.
\* Only a writer that broke off between the two files or met another leaves
\* such a pair behind.
PairsAreHeldOut ==
  LET disjoint(sft, eval) ==
        /\ {sft, eval} \cap {Absent, Torn} = {}
        /\ sft.pairs \cap eval.pairs = {}
  IN /\ "pairs" \in calm => disjoint(disk["sft"].data, disk["eval"].data)
     /\ \A k \in Names : corpora[k].manifest = "whole" /\ "pairs" \in corpora[k].calm =>
          disjoint(corpora[k].sft, corpora[k].eval)

\* Importing a data set again as before, the seed not given, holds out the same
\* pairs: an adapter trained on an earlier import is not evaluated on what it was
\* trained on, however often the request is repeated and whatever else is
\* configured meanwhile, since the seed that split it first is stored and found
\* again.  It says nothing of another request (other sources, caps or eval_split),
\* which draws and holds out other pairs under the same seed, nor of a given seed,
\* of overlapping writers of project.toml or of the pairs, or of one that broke off
\* between the two files.
EvaluatesOnHeldOut ==
  LET eval == disk["eval"].data
      undisturbed == trained.calm /\ "pairs" \in calm /\ ~reseeded /\ "toml" \notin raced
  IN undisturbed /\ trained.from \in Requests /\ eval.from = trained.from =>
       trained.pairs \cap eval.pairs = {}

\* After a build that embedded chunks, ran to its end and met no rival, rag.jsonl
\* is the chunks included then and until the next edit, and the index has a row
\* for each of them; an import keeps the second.  A build that found every chunk
\* excluded leaves the rag.jsonl and the index of before, and does not count; nor
\* do one that an edit, an import or another build overlapped, and one that broke off.
BuildIsCurrent ==
  /\ "current" \in calm => disk["rag"].data = disk["chunks"].data
  /\ "index" \in calm => disk["rag"].data # Torn /\ disk["rag"].data \subseteq Rows

\* A corpus that is listed and was exported undisturbed has all that the
\* project had, whole, and its index has a row for each of its chunks.
CorpusIsWhole ==
  \A k \in Names : corpora[k].manifest = "whole" /\ "index" \in corpora[k].calm =>
    {corpora[k].rag, corpora[k].store} \cap {Absent, Torn} = {} /\ corpora[k].rag \subseteq corpora[k].store

\* Apart from how retrieval ranks the rows it finds, a report counts as a miss
\* only a pair whose retrieval failed: no chunk that rag.jsonl lists was without a
\* row in the index when its pair was scored, if the build before it and the
\* evaluation met no rival.
MissIsAMiss ==
  \A t \in Tasks : job[t].at = "report" /\ job[t].alone /\ "index" \in calm =>
    Misses(t) \subseteq job[t].arg.failed

\* A directory that is not listed has taken its name: only a create or a delete
\* that broke off, or an operation that outlived the project, leaves one.
NameIsListedOrFree ==
  dir /\ ~Listed =>
    deserted \/ \E t \in Tasks : job[t].op \in {"create", "delete"}
=============================================================================
