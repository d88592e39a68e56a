------------------------------ MODULE Datasets ------------------------------
(***************************************************************************)
(* What a project prepares from its documents: chunks.jsonl with its       *)
(* include flags (ingest_source, filter_chunks), rag.jsonl and the vector  *)
(* index (build_dataset), sft.jsonl and eval.jsonl (generate_sft,          *)
(* import_sft_from_hf), and who uses them: start_training and run_eval.    *)
(*                                                                         *)
(* One source.  A chunks file is the set of its included chunks, the       *)
(* others of Chunks being in it with include=false; a pairs file is a set  *)
(* of pairs and where they come from.                                      *)
(***************************************************************************)
EXTENDS ProjectStore

CONSTANTS
  Chunks,
  Pairs,    \* question and answer pairs; two of the same text are two pairs
  ChunkOf,  \* the chunk a synthesized pair is made from
  Requests, \* what import_sft_from_hf can be asked: its sources, caps, eval_split
  Drawn,    \* the pairs a request gets with a seed, the data sets being as they are,
  HeldOut   \* and those of them that the seed's shuffle puts first

ASSUME DatasetsAssumption ==
  /\ ChunkOf \in [Pairs -> Chunks]
  /\ Requests # {} /\ Requests \cap {"synth", "corpus", "nothing"} = {}
  /\ {Drawn, HeldOut} \subseteq [Requests -> [Seeds -> SUBSET Pairs]]
  /\ \A q \in Requests, s \in Seeds : HeldOut[q][s] \subseteq Drawn[q][s]

VARIABLES
  index,    \* rows of the vector store, if there is one
  trained,  \* the pairs the adapter was trained on, and whether they were calm
  flags,    \* history: the included chunks as the completed edits left them
  calm      \* history: "current", rag.jsonl is of the chunks as they are;
            \* "index", the index is of rag.jsonl; "pairs", sft.jsonl and
            \* eval.jsonl are one split: each the work of one operation that ran
            \* to its end and met no rival

datavars == <<index, trained, flags, calm>>

Untrained == [pairs |-> {}, from |-> "nothing", calm |-> FALSE]
PairFile(ps, from) == [pairs |-> ps, from |-> from]
Origins == {"synth", "corpus"} \cup Requests
PairFiles == [pairs : SUBSET Pairs, from : Origins]

\* Nor is anything a data set holds like no file or a torn one.
ASSUME SentinelsAssumption ==
  \A x \in {Absent, Torn} : x \notin PairFiles /\ \A chunks \in SUBSET Chunks : x # chunks

DatasetsTypeOK ==
  /\ \A f \in {"chunks", "rag"} : disk[f].data \in (SUBSET Chunks) \cup {Absent, Torn}
  /\ \A f \in {"sft", "eval"} : disk[f].data \in PairFiles \cup {Absent, Torn}
  /\ index \in (SUBSET Chunks) \cup {Absent} /\ flags \subseteq Chunks
  /\ trained.pairs \subseteq Pairs /\ calm \subseteq {"current", "index", "pairs"}

Rows == IF index = Absent THEN {} ELSE index

\* create_dir_all of a tool or a worker, wherever the project has gone.
MakesDirs ==
  /\ dir' = TRUE
  /\ deserted' = (deserted \/ ~dir)
  /\ UNCHANGED <<told, reseeded>>

---------------------------------------------------------------------------
(* The swap, in steps                                                      *)

SwapBegins(t) ==
  /\ Goes(t, "open", "opened")
  /\ SwapOpens(t, job[t].file)
  /\ IF job[t].file = "eval" THEN dir /\ UNCHANGED <<dir, storevars>> ELSE MakesDirs
  /\ UNCHANGED datavars

\* A mutated form: each file gets both parts.
WritesBoth(t) ==
  /\ Goes(t, "opened", "written") /\ job[t].data # Absent
  /\ SwapWrites(t, job[t].file, job[t].data)
  /\ UNCHANGED <<dir, storevars, datavars>>

\* The lines are written, the temporary flushed and closed.
WritesLines(t) ==
  /\ Goes(t, "opened", "written") /\ job[t].data # Absent
  /\ SwapWrites(t, job[t].file,
       IF job[t].file \in {"sft", "eval"} THEN job[t].data[job[t].file] ELSE job[t].data)
  /\ UNCHANGED <<dir, storevars, datavars>>

---------------------------------------------------------------------------
(* chunks.jsonl                                                            *)

Flagged(included, arg) == IF arg.include THEN included \cup arg.ids ELSE included \ arg.ids

\* A mutated form: the file is rewritten in place.
FilterOpensInPlace(t, arg) ==
  /\ dir /\ Present("chunks")
  /\ \E included \in Readings("chunks", Chunks) :
       Begins(t, Job("filter", "opened", "chunks", Flagged(included, arg), arg))
  /\ PlaceOpens(t, "chunks")
  /\ UNCHANGED <<dir, storevars, datavars>>

\* filter_chunks: the old file is copied line by line into the temporary, the
\* flags of the given chunks set.  A line that does not parse is an error, which
\* breaks the operation off; of a torn file whatever parses to its end is copied.
FilterOpens(t, arg) ==
  /\ dir /\ Present("chunks")
  /\ \E included \in Readings("chunks", Chunks) :
       Begins(t, Job("filter", "opened", "chunks", Flagged(included, arg), arg))
  /\ SwapOpens(t, "chunks")
  /\ UNCHANGED <<dir, storevars, datavars>>

\* ingest_source: a worker writes the chunks file of the source anew, every
\* chunk included; kept is empty if no document passed its filters.
IngestBegins(t, kept) ==
  /\ dir
  /\ Begins(t, Job("ingest", "open", "chunks", kept, "first"))
  /\ UNCHANGED <<filevars, storevars, datavars>>

\* The worker has died and is run again from the start, once.
RunsAgain(t, kept) ==
  /\ job[t].arg = "first"
  /\ job' = [job EXCEPT ![t].at = "open", ![t].data = kept, ![t].arg = "retry"]
  /\ UNCHANGED raced

IngestRetries(t, kept) ==
  /\ job[t].op = "ingest"
  /\ RunsAgain(t, kept)
  /\ LeavesFiles(t)
  /\ UNCHANGED <<dir, storevars, datavars>>

\* The new chunks file is in place.
ChunksRename(t, included) ==
  /\ job[t].at = "written" /\ job[t].file = "chunks"
  /\ SwapRenames("chunks")
  /\ flags' = included
  /\ calm' = calm \ {"current"}
  /\ UNCHANGED <<dir, storevars, index, trained>>

\* Whoever edited it is told so.
FilterRenames(t) ==
  /\ job[t].op = "filter"
  /\ ChunksRename(t, Flagged(flags, job[t].arg))
  /\ Ends(t)

IngestRenames(t) ==
  /\ job[t].op = "ingest" /\ job[t].data # {}
  /\ ChunksRename(t, job[t].data)
  /\ Ends(t)

\* The worker dies before it can answer; edits made until its second run has
\* renamed its file too overlap with the ingestion.
IngestRenamesTwice(t, kept) ==
  /\ job[t].op = "ingest" /\ job[t].data # {}
  /\ ChunksRename(t, job[t].data)
  /\ RunsAgain(t, kept)

\* An ingestion that kept nothing removes its temporary and leaves the old file.
IngestKeepsNothing(t) ==
  /\ job[t].op = "ingest" /\ job[t].data = {} /\ job[t].at = "written"
  /\ SwapDiscards("chunks")
  /\ Ends(t)
  /\ UNCHANGED <<dir, storevars, datavars>>

---------------------------------------------------------------------------
(* build_dataset                                                           *)

BuildBegins(t) ==
  /\ disk["toml"].data \in Configs
  /\ Begins(t, Job("build", "open", "rag", Absent, Absent))
  /\ UNCHANGED <<filevars, storevars, datavars>>

\* A mutated form: the include flags are not looked at.
BuildCopiesAll(t) ==
  /\ job[t].file = "rag" /\ job[t].op = "build" /\ job[t].data = Absent
  /\ Carries(t, "opened", "opened", "rag", Chunks)
  /\ UNCHANGED <<filevars, storevars, datavars>>

\* copy_chunks_to_rag_jsonl copies the lines whose chunk is included.
BuildCopies(t) ==
  /\ job[t].file = "rag" /\ job[t].op = "build" /\ job[t].data = Absent
  /\ \E included \in Readings("chunks", Chunks) : Carries(t, "opened", "opened", "rag", included)
  /\ UNCHANGED <<filevars, storevars, datavars>>

\* With nothing to copy, the rag.jsonl of before stays.
RagRenames(t) ==
  /\ job[t].file = "rag"
  /\ Carries(t, "written", "embed", "rag", job[t].data)
  /\ IF job[t].data = {}
     THEN SwapDiscards("rag") /\ UNCHANGED calm
     ELSE SwapRenames("rag") /\ calm' = calm \ {"current", "index"}
  /\ UNCHANGED <<dir, storevars, index, trained, flags>>

\* rag.embed_chunks reads the chunks files by itself, much later.
EmbedReads(t) ==
  /\ \E included \in Readings("chunks", Chunks) : Carries(t, "embed", "delete", "none", included)
  /\ UNCHANGED <<filevars, storevars, datavars>>

\* Without chunks the index is not touched.
EmbedSkips(t) ==
  /\ job[t].at = "delete" /\ job[t].data = {}
  /\ Ends(t)
  /\ UNCHANGED <<filevars, storevars, datavars>>

\* upsert_chunks deletes the rows it is about to add, and no others.
EmbedDeletes(t) ==
  /\ Goes(t, "delete", "add") /\ job[t].data # {}
  /\ index' = IF index = Absent THEN Absent ELSE index \ job[t].data
  /\ calm' = calm \ {"current", "index"}
  /\ MakesDirs
  /\ UNCHANGED <<disk, tmp, trained, flags>>

\* A mutated form: the rows are added, then deleted.
EmbedLoses(t) ==
  /\ job[t].at = "add"
  /\ calm' = IF job[t].alone /\ disk["chunks"].data # Torn
             THEN calm \cup {"current", "index"} ELSE calm
  /\ Ends(t)
  /\ UNCHANGED <<filevars, storevars, index, trained, flags>>

EmbedAdds(t) ==
  /\ job[t].at = "add"
  /\ index' = Rows \cup job[t].data
  /\ calm' = IF job[t].alone /\ disk["chunks"].data # Torn
             THEN calm \cup {"current", "index"} ELSE calm
  /\ Ends(t)
  /\ UNCHANGED <<filevars, storevars, trained, flags>>

---------------------------------------------------------------------------
(* sft.jsonl and eval.jsonl                                                *)

\* generate_sft needs included chunks.
GenerateBegins(t) ==
  /\ dir
  /\ \E included \in Readings("chunks", Chunks) \ {{}} :
       Begins(t, Job("generate", "get", "none", included, Absent))
  /\ UNCHANGED <<filevars, storevars, datavars>>

ImportHfBegins(t) ==
  /\ dir
  /\ Begins(t, Job("import_hf", "get", "none", Absent, Absent))
  /\ UNCHANGED <<filevars, storevars, datavars>>

\* split_pairs drains the pairs that are held out.
Split(ps, held, from) == [sft |-> PairFile(ps \ held, from), eval |-> PairFile(held, from)]

\* The provider is asked for pairs chunk by chunk; any chunk may fail, and all.
\* Which of the pairs are held out is up to their order, how many to eval_split,
\* at most a half, rounded.
Synthesizes(t, ps, held) ==
  /\ job[t].op = "generate" /\ job[t].at = "work" /\ \A p \in ps : ChunkOf[p] \in job[t].data
  /\ held \subseteq ps /\ 2 * Cardinality(held) <= Cardinality(ps) + 1
  /\ Carries(t, "work", "open", "sft", Split(ps, held, "synth"))
  /\ UNCHANGED <<filevars, storevars, datavars>>

\* A mutated form: the held-out pairs stay in the training part.
DownloadsCopied(t, q) ==
  LET seed == job[t].arg.seed
  IN /\ job[t].op = "import_hf" /\ job[t].at = "work" /\ Drawn[q][seed] # {}
     /\ Carries(t, "work", "open", "sft",
          [Split(Drawn[q][seed], HeldOut[q][seed], q) EXCEPT !.sft = PairFile(Drawn[q][seed], q)])
     /\ UNCHANGED <<filevars, storevars, datavars>>

\* sft_import.import_hf_qa samples its sources with the seed, and split_pairs
\* shuffles with it what came; no pairs are an error.
Downloads(t, q) ==
  LET seed == job[t].arg.seed
  IN /\ job[t].op = "import_hf" /\ job[t].at = "work" /\ Drawn[q][seed] # {}
     /\ Carries(t, "work", "open", "sft", Split(Drawn[q][seed], HeldOut[q][seed], q))
     /\ UNCHANGED <<filevars, storevars, datavars>>

\* write_jsonl of one, then of the other.
SftRenames(t) ==
  /\ job[t].file = "sft"
  /\ Carries(t, "written", "open", "eval", job[t].data)
  /\ SwapRenames("sft")
  /\ calm' = calm \ {"pairs"}
  /\ UNCHANGED <<dir, storevars, index, trained, flags>>

EvalRenames(t) ==
  /\ job[t].at = "written" /\ job[t].file = "eval"
  /\ SwapRenames("eval")
  /\ calm' = IF job[t].alone THEN calm \cup {"pairs"} ELSE calm
  /\ Ends(t)
  /\ UNCHANGED <<dir, storevars, index, trained, flags>>

---------------------------------------------------------------------------
(* start_training, run_eval                                                *)

TrainBegins(t) ==
  /\ disk["toml"].data \in Configs
  /\ Present("sft") /\ disk["sft"].data \notin {PairFile({}, from) : from \in Origins}
  /\ Begins(t, Job("train", "train", "none", Absent, Absent))
  /\ UNCHANGED <<filevars, storevars, datavars>>

\* The worker loads the file once it has loaded the model; what is left of a
\* torn one is of no known origin.
TrainLoads(t) ==
  /\ job[t].at = "train" /\ Present("sft")
  /\ \E ps \in IF disk["sft"].data = Torn THEN SUBSET Pairs ELSE {disk["sft"].data.pairs} :
       trained' = [pairs |-> ps, calm |-> "pairs" \in calm,
                   from |-> IF disk["sft"].data = Torn THEN "nothing" ELSE disk["sft"].data.from]
  /\ Ends(t)
  /\ UNCHANGED <<filevars, storevars, index, flags, calm>>

\* eval.jsonl is loaded first; a downloaded pair names a row of its data set
\* where a synthesized one names its chunk, and no retrieval can hit it.
EvalLoads(t) ==
  /\ disk["toml"].data \in Configs /\ Present("eval")
  /\ \E ps \in IF disk["eval"].data = Torn THEN SUBSET Pairs ELSE {disk["eval"].data.pairs} :
       /\ ps # {}
       /\ Begins(t, Job("eval", "score", "none",
            IF disk["eval"].data # Torn /\ disk["eval"].data.from \in Requests THEN {} ELSE ps,
            [missed |-> {}, failed |-> {}]))
  /\ UNCHANGED <<filevars, storevars, datavars>>

\* What retrieve can return.
Retrievable(p) == ChunkOf[p] \in Rows

\* The pairs are scored side by side, each against the rows the index has then;
\* a retrieval that fails is no hit either.
EvalScores(t, p, fails) ==
  /\ job[t].at = "score" /\ p \in job[t].data
  /\ job' = [job EXCEPT ![t].data = @ \ {p},
                        ![t].arg = [missed |-> @.missed \cup (IF Retrievable(p) /\ ~fails THEN {} ELSE {p}),
                                    failed |-> @.failed \cup (IF fails THEN {p} ELSE {})]]
  /\ UNCHANGED <<filevars, raced, storevars, datavars>>

\* Every pair is waited for.
EvalGathers(t) ==
  /\ Goes(t, "score", "report") /\ job[t].data = {}
  /\ UNCHANGED <<filevars, storevars, datavars>>

\* What is not a hit counts as a miss if rag.jsonl lists the chunk at the end.
Misses(t) == {p \in job[t].arg.missed : disk["rag"].data \notin {Absent, Torn}
                                         /\ ChunkOf[p] \in disk["rag"].data}

EvalReports(t) ==
  /\ job[t].at = "report"
  /\ Ends(t)
  /\ MakesDirs
  /\ UNCHANGED <<disk, tmp, datavars>>

---------------------------------------------------------------------------
DataStep(t) ==
  \/ SwapBegins(t) \/ WritesLines(t)
  \/ \E ids \in (SUBSET Chunks) \ {{}}, include \in BOOLEAN :
       FilterOpens(t, [ids |-> ids, include |-> include])
  \/ \E kept \in {{}, Chunks} :
       IngestBegins(t, kept) \/ IngestRetries(t, kept) \/ IngestRenamesTwice(t, kept)
  \/ FilterRenames(t) \/ IngestRenames(t) \/ IngestKeepsNothing(t)
  \/ BuildBegins(t) \/ BuildCopies(t) \/ RagRenames(t)
  \/ EmbedReads(t) \/ EmbedSkips(t) \/ EmbedDeletes(t) \/ EmbedAdds(t)
  \/ GenerateBegins(t) \/ ImportHfBegins(t)
  \/ \E ps, held \in SUBSET Pairs : Synthesizes(t, ps, held)
  \/ (\E q \in Requests : Downloads(t, q)) \/ SftRenames(t) \/ EvalRenames(t)
  \/ TrainBegins(t) \/ TrainLoads(t)
  \/ EvalLoads(t) \/ (\E p \in Pairs, fails \in BOOLEAN : EvalScores(t, p, fails))
  \/ EvalGathers(t) \/ EvalReports(t)
=============================================================================
