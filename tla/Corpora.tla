------------------------------- MODULE Corpora -------------------------------
(***************************************************************************)
(* The library of prepared corpora beside the projects                     *)
(* (crates/orchestrator/src/tools/corpora.rs): export_corpus copies what a *)
(* project has prepared, import_corpus copies it into a project that has   *)
(* prepared nothing.  Neither locks either side.                           *)
(***************************************************************************)
EXTENDS Datasets

CONSTANTS Names  \* corpus names

VARIABLE corpora  \* _corpora/<name>: its files, its manifest, and, as a history,
                  \* what of its origin was calm over the whole of the export

NoCorpus == [dir |-> FALSE, manifest |-> "absent", rag |-> Absent, sft |-> Absent, eval |-> Absent,
             store |-> Absent, calm |-> {}]

CorporaTypeOK ==
  /\ \A k \in Names :
       /\ corpora[k].manifest \in {"absent", "torn", "whole"}
       /\ corpora[k].rag \in (SUBSET Chunks) \cup {Absent, Torn}
       /\ corpora[k].store \in (SUBSET Chunks) \cup {Absent}
       /\ corpora[k].sft \in PairFiles \cup {Absent, Torn}
       /\ corpora[k].eval \in PairFiles \cup {Absent, Torn}

\* A vector store copied over another, file by file; none, if it is empty.
CopiedOver(store, to) ==
  IF store = Absent THEN to ELSE store \cup (IF to = Absent THEN {} ELSE to)

---------------------------------------------------------------------------
(* export_corpus                                                           *)

\* There is a rag.jsonl, and nothing of that name in the library.
ExportBegins(t, k) ==
  /\ Present("rag") /\ ~corpora[k].dir
  /\ Begins(t, Job("export", "mkdir", "rag", Absent, k))
  /\ UNCHANGED <<filevars, storevars, datavars, corpora>>

\* A mutated form: the manifest comes first.
ExportListsEarly(t) ==
  /\ job[t].op = "export" /\ Goes(t, "mkdir", "copy")
  /\ corpora' = [corpora EXCEPT ![job[t].arg].dir = TRUE, ![job[t].arg].manifest = "whole",
                                ![job[t].arg].calm = IF job[t].alone THEN calm ELSE {}]
  /\ UNCHANGED <<filevars, storevars, datavars>>

ExportMakesDir(t) ==
  /\ job[t].op = "export" /\ Goes(t, "mkdir", "copy")
  /\ corpora' = [corpora EXCEPT ![job[t].arg].dir = TRUE]
  /\ UNCHANGED <<filevars, storevars, datavars>>

\* The order of DATASET_FILES.
NextFile(f) == CASE f = "rag" -> "sft" [] f = "sft" -> "eval" [] OTHER -> "store"

\* Each file that is there is copied, as it is then.
ExportCopies(t) ==
  LET f == job[t].file
  IN /\ job[t].op = "export" /\ f # "store"
     /\ Carries(t, "copy", "copy", NextFile(f), Absent)
     /\ IF Present(f)
        THEN corpora' = [corpora EXCEPT ![job[t].arg][f] = IF f # "rag" /\ disk[f].data # Torn
               THEN PairFile(disk[f].data.pairs, "corpus") ELSE disk[f].data]
        ELSE UNCHANGED corpora
     /\ UNCHANGED <<filevars, storevars, datavars>>

ExportCopiesStore(t) ==
  /\ job[t].op = "export" /\ job[t].file = "store" /\ Goes(t, "copy", "manifest")
  /\ corpora' = [corpora EXCEPT ![job[t].arg].store = CopiedOver(index, Absent)]
  /\ UNCHANGED <<filevars, storevars, datavars>>

ExportOpensManifest(t) ==
  /\ Goes(t, "manifest", "manifest_opened")
  /\ corpora' = [corpora EXCEPT ![job[t].arg].manifest = "torn"]
  /\ UNCHANGED <<filevars, storevars, datavars>>

\* The manifest comes last: it makes the corpus a listed one.
ExportWritesManifest(t) ==
  /\ job[t].at = "manifest_opened"
  /\ corpora' = [corpora EXCEPT ![job[t].arg].manifest = "whole",
                                ![job[t].arg].calm = IF job[t].alone THEN calm ELSE {}]
  /\ Ends(t)
  /\ UNCHANGED <<filevars, storevars, datavars>>

---------------------------------------------------------------------------
(* import_corpus                                                           *)

\* Neither a rag.jsonl nor an index; sft.jsonl and eval.jsonl do not count.
NothingPrepared == ~Present("rag") /\ index = Absent

\* The manifest parses, and the project has prepared nothing.
ImportBegins(t, k, include_sft) ==
  /\ dir /\ corpora[k].manifest = "whole" /\ NothingPrepared
  /\ Begins(t, Job("import", "copy", "rag", Absent, [name |-> k, include_sft |-> include_sft]))
  /\ UNCHANGED <<filevars, storevars, datavars, corpora>>

\* A file of the corpus is copied over the project's, in place.
ImportOpens(t) ==
  LET f == job[t].file
  IN /\ job[t].op = "import" /\ f # "store" /\ corpora[job[t].arg.name][f] # Absent
     /\ Goes(t, "copy", "copying")
     /\ PlaceOpens(t, f)
     /\ calm' = calm \ IF f = "rag" THEN {"current", "index"} ELSE {"pairs"}
     /\ IF f = "rag" THEN MakesDirs ELSE dir /\ UNCHANGED <<dir, storevars>>
     /\ UNCHANGED <<index, trained, flags, corpora>>

FollowingFile(t) == IF job[t].arg.include_sft THEN NextFile(job[t].file) ELSE "store"

ImportSkips(t) ==
  /\ job[t].op = "import" /\ job[t].file # "store"
  /\ corpora[job[t].arg.name][job[t].file] = Absent
  /\ Carries(t, "copy", "copy", FollowingFile(t), Absent)
  /\ UNCHANGED <<filevars, storevars, datavars, corpora>>

ImportWrites(t) ==
  /\ Carries(t, "copying", "copy", FollowingFile(t), Absent)
  /\ PlaceWrites(t, job[t].file, corpora[job[t].arg.name][job[t].file])
  /\ UNCHANGED <<dir, storevars, datavars, corpora>>

\* Calm, if the corpus was and no rival came.
ImportCopiesStore(t) ==
  LET c == corpora[job[t].arg.name]
  IN /\ job[t].op = "import" /\ job[t].at = "copy" /\ job[t].file = "store"
     /\ index' = CopiedOver(c.store, index)
     /\ calm' = IF job[t].alone
                THEN calm \cup (c.calm \cap IF job[t].arg.include_sft THEN {"index", "pairs"} ELSE {"index"})
                ELSE calm
     /\ Ends(t)
     /\ MakesDirs
     /\ UNCHANGED <<disk, tmp, trained, flags, corpora>>

---------------------------------------------------------------------------
CorpusStep(t) ==
  \/ \E k \in Names : ExportBegins(t, k)
  \/ ExportMakesDir(t) \/ ExportCopies(t) \/ ExportCopiesStore(t)
  \/ ExportOpensManifest(t) \/ ExportWritesManifest(t)
  \/ \E k \in Names, include_sft \in BOOLEAN : ImportBegins(t, k, include_sft)
  \/ ImportOpens(t) \/ ImportSkips(t) \/ ImportWrites(t) \/ ImportCopiesStore(t)
=============================================================================
