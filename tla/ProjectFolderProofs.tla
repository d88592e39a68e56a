------------------------ MODULE ProjectFolderProofs ------------------------
(* A project's name is listed or free, every file, job and corpus has its  *)
(* type, and what each step does to the files and to who writes them, for  *)
(* any tasks, chunks, pairs, seeds and corpora, and any number of          *)
(* operations.                                                             *)
EXTENDS ProjectFolder, TLAPS

IsFile(n) == n = [data |-> n.data, open |-> n.open, shared |-> n.shared, cut |-> n.cut]

IsJob(j) ==
  j = [op |-> j.op, at |-> j.at, file |-> j.file, data |-> j.data, arg |-> j.arg, alone |-> j.alone]

\* No swap goes over project.toml, and only what writes it carries a whole
\* configuration to it; what its step names tell apart is told by the step.
JobOK(j) ==
  /\ IsJob(j)
  /\ j.file # "toml"
  /\ j.at = "dirs" => j.op = "create"
  /\ j.at = "remove" => j.op = "delete"
  /\ j.at \in {"config", "config_opened"} => j.arg \in Configs

JobInv == job = [u \in Tasks |-> job[u]] /\ \A u \in Tasks : JobOK(job[u])

TomlInv ==
  /\ dir \in BOOLEAN /\ deserted \in BOOLEAN
  /\ "toml" \in DOMAIN disk /\ IsFile(disk["toml"])

\* The two moments at which a directory is there without its project.toml.
Unlisted(j) == (j.op = "create" /\ j.at = "config") \/ (j.op = "delete" /\ j.at = "rmdir")

NameInv == dir /\ ~Present("toml") => deserted \/ \E u \in Tasks : Unlisted(job[u])

FolderInv == JobInv /\ TomlInv /\ NameInv

---------------------------------------------------------------------------
(* What a step of t leaves to the others                                   *)

Others(t) == \A u \in Tasks \ {t} : job'[u].op = job[u].op /\ job'[u].at = job[u].at

\* The steps of the two moments, and those that JobOK tells something of.
Passing == {"config", "rmdir"}
Marked == {"dirs", "remove", "config", "config_opened"}

LEMMA Began ==
  ASSUME JobInv, NEW t \in Tasks, NEW j, JobOK(j), Begins(t, j)
  PROVE  JobInv' /\ Others(t) /\ ~Unlisted(job[t])
<1>1. ASSUME NEW k, NEW b, IsJob(k)
      PROVE [k EXCEPT !.alone = b] =
              [op |-> k.op, at |-> k.at, file |-> k.file, data |-> k.data, arg |-> k.arg, alone |-> b]
  BY <1>1 DEF IsJob
<1>2. ASSUME NEW k, NEW b, JobOK(k)
      PROVE /\ JobOK([k EXCEPT !.alone = b])
            /\ [k EXCEPT !.alone = b].op = k.op /\ [k EXCEPT !.alone = b].at = k.at
  BY <1>1, <1>2 DEF JobOK, IsJob
<1>3. \A u \in Tasks : JobOK(job'[u])
  BY <1>2 DEF JobInv, Begins
<1>4. job' = [u \in Tasks |-> job'[u]]
  BY DEF Begins
<1>5. Others(t)
  BY <1>2 DEF Others, JobInv, Begins
<1> QED BY <1>3, <1>4, <1>5 DEF JobInv, Begins, Unlisted

\* One task's job is replaced.
LEMMA Replaced ==
  ASSUME JobInv, NEW t \in Tasks, NEW j, JobOK(j), job' = [job EXCEPT ![t] = j]
  PROVE  JobInv' /\ Others(t) /\ job'[t] = j
<1>1. job' = [u \in Tasks |-> IF u = t THEN j ELSE job[u]]
  BY DEF JobInv
<1> QED BY <1>1 DEF JobInv, Others

LEMMA Went ==
  ASSUME JobInv, NEW t \in Tasks, NEW from, NEW to, Goes(t, from, to),
         to \notin Marked
  PROVE  /\ JobInv' /\ Others(t) /\ job'[t].op = job[t].op /\ job'[t].at = to
         /\ from \notin Passing => ~Unlisted(job[t])
<1> DEFINE j == [job[t] EXCEPT !.at = to]
<1>1. j = [op |-> job[t].op, at |-> to, file |-> job[t].file, data |-> job[t].data,
           arg |-> job[t].arg, alone |-> job[t].alone]
  BY DEF JobInv, JobOK, IsJob
<1>2. JobOK(j)
  BY <1>1 DEF JobInv, JobOK, IsJob, Marked
<1>3. job' = [job EXCEPT ![t] = j]
  BY DEF Goes
<1>4. JobInv' /\ Others(t) /\ job'[t] = j
  BY <1>2, <1>3, Replaced
<1> QED BY <1>1, <1>4 DEF Goes, Unlisted, Passing

LEMMA Carried ==
  ASSUME JobInv, NEW t \in Tasks, NEW from, NEW to, NEW file, NEW d, Carries(t, from, to, file, d),
         to \notin Marked, file # "toml"
  PROVE  JobInv' /\ Others(t) /\ (from \notin Passing => ~Unlisted(job[t]))
<1> DEFINE j == [job[t] EXCEPT !.at = to, !.file = file, !.data = d]
<1>0. ASSUME NEW k, IsJob(k)
      PROVE [k EXCEPT !.at = to, !.file = file, !.data = d] =
              [op |-> k.op, at |-> to, file |-> file, data |-> d, arg |-> k.arg, alone |-> k.alone]
  <2> DEFINE k1 == [k EXCEPT !.at = to]
             k2 == [k1 EXCEPT !.file = file]
  <2>1. k1 = [op |-> k.op, at |-> to, file |-> k.file, data |-> k.data, arg |-> k.arg, alone |-> k.alone]
    BY <1>0 DEF IsJob
  <2> HIDE DEF k1
  <2>2. k2 = [op |-> k.op, at |-> to, file |-> file, data |-> k.data, arg |-> k.arg, alone |-> k.alone]
    BY <2>1
  <2> HIDE DEF k2
  <2>3. [k2 EXCEPT !.data = d] =
          [op |-> k.op, at |-> to, file |-> file, data |-> d, arg |-> k.arg, alone |-> k.alone]
    BY <2>2
  <2> QED BY <2>3 DEF k1, k2
<1>1. j = [op |-> job[t].op, at |-> to, file |-> file, data |-> d,
           arg |-> job[t].arg, alone |-> job[t].alone]
  BY <1>0 DEF JobInv, JobOK
<1>2. JobOK(j)
  BY <1>1 DEF JobInv, JobOK, IsJob, Marked
<1>3. job' = [job EXCEPT ![t] = j]
  BY DEF Carries
<1>4. JobInv' /\ Others(t)
  BY <1>2, <1>3, Replaced
<1> QED BY <1>4 DEF Carries, Unlisted, Passing

LEMMA Changed ==
  ASSUME NEW k, IsJob(k), NEW at, NEW d, NEW a
  PROVE  /\ [k EXCEPT !.at = at, !.arg = a] =
               [op |-> k.op, at |-> at, file |-> k.file, data |-> k.data, arg |-> a, alone |-> k.alone]
         /\ [k EXCEPT !.data = d, !.arg = a] =
               [op |-> k.op, at |-> k.at, file |-> k.file, data |-> d, arg |-> a, alone |-> k.alone]
<1> DEFINE k1 == [k EXCEPT !.at = at]
           k2 == [k EXCEPT !.data = d]
<1>1. k1 = [op |-> k.op, at |-> at, file |-> k.file, data |-> k.data, arg |-> k.arg, alone |-> k.alone]
  BY DEF IsJob
<1>2. k2 = [op |-> k.op, at |-> k.at, file |-> k.file, data |-> d, arg |-> k.arg, alone |-> k.alone]
  BY DEF IsJob
<1> HIDE DEF k1, k2
<1>3. [k1 EXCEPT !.arg = a] =
        [op |-> k.op, at |-> at, file |-> k.file, data |-> k.data, arg |-> a, alone |-> k.alone]
  BY <1>1
<1>4. [k2 EXCEPT !.arg = a] =
        [op |-> k.op, at |-> k.at, file |-> k.file, data |-> d, arg |-> a, alone |-> k.alone]
  BY <1>2
<1> QED BY <1>3, <1>4 DEF k1, k2

LEMMA Rerun ==
  ASSUME NEW k, IsJob(k), NEW at, NEW d, NEW a
  PROVE  [k EXCEPT !.at = at, !.data = d, !.arg = a] =
           [op |-> k.op, at |-> at, file |-> k.file, data |-> d, arg |-> a, alone |-> k.alone]
<1> DEFINE k1 == [k EXCEPT !.at = at]
<1>1. k1 = [op |-> k.op, at |-> at, file |-> k.file, data |-> k.data, arg |-> k.arg, alone |-> k.alone]
  BY DEF IsJob
<1> HIDE DEF k1
<1> DEFINE k2 == [k1 EXCEPT !.data = d]
<1>2. k2 = [op |-> k.op, at |-> at, file |-> k.file, data |-> d, arg |-> k.arg, alone |-> k.alone]
  BY <1>1
<1> HIDE DEF k2
<1>3. [k2 EXCEPT !.arg = a] =
        [op |-> k.op, at |-> at, file |-> k.file, data |-> d, arg |-> a, alone |-> k.alone]
  BY <1>2
<1> QED BY <1>3 DEF k1, k2

LEMMA DownloadsIs ==
  ASSUME NEW t, NEW q, Downloads(t, q)
  PROVE  /\ Carries(t, "work", "open", "sft",
              Split(Drawn[q][job[t].arg.seed], HeldOut[q][job[t].arg.seed], q))
         /\ job[t].op = "import_hf" /\ job[t].at = "work" /\ UNCHANGED <<filevars, storevars, datavars>>
BY Zenon DEF Downloads

LEMMA Ended ==
  ASSUME JobInv, NEW t \in Tasks, job' = [job EXCEPT ![t] = Idle]
  PROVE  JobInv' /\ Others(t)
<1>1. JobOK(Idle)
  BY DEF Idle, Job, JobOK, IsJob
<1> QED BY <1>1, Replaced

---------------------------------------------------------------------------
(* What a step does to project.toml and to the directory                   *)

TomlStays ==
  /\ "toml" \in DOMAIN disk' /\ IsFile(disk'["toml"])
  /\ Present("toml") => Present("toml")'
DirStays == dir' = dir /\ deserted' = deserted
DirMade == dir' = TRUE /\ deserted' = (deserted \/ ~dir)

LEMMA FilesStay ==
  ASSUME TomlInv, UNCHANGED <<filevars, storevars>>
  PROVE  TomlStays /\ DirStays
BY DEF filevars, storevars, TomlStays, DirStays, TomlInv, Present

LEMMA OtherFileStays ==
  ASSUME TomlInv, NEW f, f # "toml", NEW t, NEW d,
         \/ UNCHANGED disk
         \/ SwapWrites(t, f, d) \/ SwapRenames(f) \/ PlaceOpens(t, f) \/ PlaceWrites(t, f, d)
  PROVE  TomlStays
<1>1. ASSUME NEW n, disk' = [disk EXCEPT ![f] = n] PROVE TomlStays
  BY <1>1 DEF TomlInv, TomlStays, Present
<1>2. ASSUME UNCHANGED disk PROVE TomlStays
  BY <1>2 DEF TomlInv, TomlStays, Present
<1>3. CASE SwapWrites(t, f, d)
  BY <1>1, <1>2, <1>3 DEF SwapWrites
<1>4. CASE SwapRenames(f)
  BY <1>1, <1>4 DEF SwapRenames
<1>5. CASE PlaceOpens(t, f)
  BY <1>1, <1>5 DEF PlaceOpens
<1>6. CASE PlaceWrites(t, f, d)
  BY <1>1, <1>2, <1>6 DEF PlaceWrites
<1> QED BY <1>2, <1>3, <1>4, <1>5, <1>6

LEMMA LeftStays ==
  ASSUME TomlInv, NEW t, LeavesFiles(t)
  PROVE  TomlStays
<1>1. disk'["toml"] = Left(disk["toml"], t) /\ "toml" \in DOMAIN disk'
  BY DEF LeavesFiles, Files
<1>2. ASSUME NEW n, IsFile(n)
      PROVE IsFile(Left(n, t)) /\ Left(n, t).data = n.data
  <2> DEFINE n1 == [n EXCEPT !.open = n.open \ {t}]
             c == n.cut \/ t \in n.open
  <2>1. n1 = [data |-> n.data, open |-> n.open \ {t}, shared |-> n.shared, cut |-> n.cut]
    BY <1>2 DEF IsFile
  <2>2. Left(n, t) = [n1 EXCEPT !.cut = c]
    BY <2>1 DEF Left
  <2> HIDE DEF n1, c
  <2>3. Left(n, t) = [data |-> n.data, open |-> n.open \ {t}, shared |-> n.shared, cut |-> c]
    BY <2>1, <2>2
  <2> QED BY <2>3 DEF IsFile
<1> QED BY <1>1, <1>2 DEF TomlInv, TomlStays, Present

\* A step that leaves project.toml where it is, and notes a directory made anew.
Quiet(t) ==
  /\ JobInv' /\ Others(t) /\ ~Unlisted(job[t])
  /\ TomlStays
  /\ DirStays \/ DirMade

LEMMA QuietKeeps ==
  ASSUME FolderInv, NEW t \in Tasks, Quiet(t)
  PROVE  FolderInv'
<1>1. JobInv'
  BY DEF Quiet
<1>2. TomlInv'
  BY DEF Quiet, TomlStays, DirStays, DirMade, TomlInv, FolderInv, IsFile
<1>3. Present("toml") => Present("toml")'
  BY DEF Quiet, TomlStays
<1>4. ASSUME NEW u \in Tasks, Unlisted(job[u]) PROVE Unlisted(job'[u])
  BY <1>4 DEF Quiet, Others, Unlisted
<1>5. NameInv'
  <2>1. CASE DirStays
    BY <1>3, <1>4, <2>1 DEF NameInv, DirStays, FolderInv
  <2>2. CASE DirMade
    BY <1>3, <1>4, <2>2 DEF NameInv, DirMade, FolderInv
  <2> QED BY <2>1, <2>2 DEF Quiet
<1> QED BY <1>1, <1>2, <1>5 DEF FolderInv

---------------------------------------------------------------------------
(* Steps of the datasets                                                   *)

LEMMA JobBegins ==
  ASSUME JobInv, NEW t \in Tasks, NEW op, NEW at, NEW file, NEW d, NEW a,
         at \notin Marked, file # "toml", Begins(t, Job(op, at, file, d, a))
  PROVE  JobInv' /\ Others(t) /\ ~Unlisted(job[t])
<1>1. JobOK(Job(op, at, file, d, a))
  BY DEF JobOK, IsJob, Job, Marked
<1> QED BY <1>1, Began

LEMMA MakesDirsIs == ASSUME MakesDirs PROVE DirMade
BY DEF MakesDirs, DirMade

LEMMA DirsStay == ASSUME UNCHANGED <<dir, storevars>> PROVE DirStays
BY DEF storevars, DirStays

LEMMA FileName == ASSUME JobInv, NEW t \in Tasks PROVE job[t].file # "toml"
BY DEF JobInv, JobOK

LEMMA DataIsQuiet ==
  ASSUME FolderInv, NEW t \in Tasks, DataStep(t)
  PROVE  Quiet(t)
<1> USE DEF FolderInv
<1>1. CASE SwapBegins(t)
  <2>1. JobInv' /\ Others(t) /\ ~Unlisted(job[t])
    BY <1>1, Went DEF SwapBegins, Marked, Passing
  <2>2. TomlStays
    BY <1>1, OtherFileStays, FileName DEF SwapBegins, SwapOpens
  <2>3. DirStays \/ DirMade
    BY <1>1, MakesDirsIs, DirsStay DEF SwapBegins
  <2> QED BY <2>1, <2>2, <2>3 DEF Quiet
<1>2. CASE WritesLines(t)
  <2>1. JobInv' /\ Others(t) /\ ~Unlisted(job[t])
    BY <1>2, Went DEF WritesLines, Marked, Passing
  <2>2. PICK d : SwapWrites(t, job[t].file, d)
    BY <1>2 DEF WritesLines
  <2>3. TomlStays
    BY <2>2, OtherFileStays, FileName
  <2> QED BY <1>2, <2>1, <2>3, DirsStay DEF WritesLines, Quiet
<1>3. ASSUME NEW arg, FilterOpens(t, arg) PROVE Quiet(t)
  <2>1. JobInv' /\ Others(t) /\ ~Unlisted(job[t])
    BY <1>3, JobBegins DEF FilterOpens, Marked
  <2>2. TomlStays
    BY <1>3, OtherFileStays DEF FilterOpens, SwapOpens
  <2> QED BY <1>3, <2>1, <2>2, DirsStay DEF FilterOpens, Quiet
<1>4. ASSUME NEW kept, IngestBegins(t, kept) PROVE Quiet(t)
  BY <1>4, JobBegins, FilesStay DEF IngestBegins, Marked, Quiet
<1>r. ASSUME NEW kept, RunsAgain(t, kept), job[t].op = "ingest"
      PROVE JobInv' /\ Others(t) /\ ~Unlisted(job[t])
  <2> DEFINE j == [job[t] EXCEPT !.at = "open", !.data = kept, !.arg = "retry"]
  <2>2. job' = [job EXCEPT ![t] = j]
    BY <1>r DEF RunsAgain
  <2>3. j = [op |-> job[t].op, at |-> "open", file |-> job[t].file, data |-> kept,
             arg |-> "retry", alone |-> job[t].alone]
    BY Rerun DEF JobInv, JobOK
  <2>4. JobOK(j)
    BY <1>r, <2>3 DEF JobInv, JobOK, IsJob
  <2> QED BY <1>r, <2>2, <2>4, Replaced DEF Unlisted
<1>5. ASSUME NEW kept, IngestRetries(t, kept) PROVE Quiet(t)
  BY <1>5, <1>r, LeftStays, DirsStay DEF IngestRetries, Quiet
<1>6. ASSUME NEW included, ChunksRename(t, included) PROVE TomlStays /\ DirStays
  BY <1>6, OtherFileStays, DirsStay DEF ChunksRename
<1>7. CASE FilterRenames(t) \/ IngestRenames(t)
  <2>1. JobInv' /\ Others(t) /\ ~Unlisted(job[t])
    BY <1>7, Ended DEF FilterRenames, IngestRenames, Ends, Unlisted
  <2> QED BY <1>6, <1>7, <2>1 DEF FilterRenames, IngestRenames, Quiet
<1>7a. ASSUME NEW kept, IngestRenamesTwice(t, kept) PROVE Quiet(t)
  <2>1. JobInv' /\ Others(t) /\ ~Unlisted(job[t])
    BY <1>7a, <1>r DEF IngestRenamesTwice
  <2> QED BY <1>6, <1>7a, <2>1 DEF IngestRenamesTwice, Quiet
<1>8. CASE IngestKeepsNothing(t)
  <2>1. TomlStays
    BY <1>8, OtherFileStays DEF IngestKeepsNothing, SwapDiscards
  <2> QED BY <1>8, <2>1, Ended, DirsStay DEF IngestKeepsNothing, Ends, Quiet, Unlisted
<1>9. CASE BuildBegins(t)
  BY <1>9, JobBegins, FilesStay DEF BuildBegins, Marked, Quiet
<1>10. CASE BuildCopies(t)
  BY <1>10, Carried, FilesStay DEF BuildCopies, Marked, Passing, Quiet
<1>11. CASE RagRenames(t)
  <2>1. JobInv' /\ Others(t) /\ ~Unlisted(job[t])
    BY <1>11, Carried DEF RagRenames, Marked, Passing
  <2>2. TomlStays
    BY <1>11, OtherFileStays DEF RagRenames, SwapDiscards
  <2> QED BY <1>11, <2>1, <2>2, DirsStay DEF RagRenames, Quiet
<1>12. CASE EmbedReads(t)
  BY <1>12, Carried, FilesStay DEF EmbedReads, Marked, Passing, Quiet
<1>13. CASE EmbedSkips(t)
  BY <1>13, Ended, FilesStay DEF EmbedSkips, Ends, Quiet, Unlisted
<1>14. CASE EmbedDeletes(t)
  <2>1. JobInv' /\ Others(t) /\ ~Unlisted(job[t])
    BY <1>14, Went DEF EmbedDeletes, Marked, Passing
  <2>2. TomlStays
    BY <1>14, OtherFileStays DEF EmbedDeletes
  <2> QED BY <1>14, <2>1, <2>2, MakesDirsIs DEF EmbedDeletes, Quiet
<1>15. CASE EmbedAdds(t)
  BY <1>15, Ended, FilesStay DEF EmbedAdds, Ends, Quiet, Unlisted
<1>16. CASE GenerateBegins(t)
  BY <1>16, JobBegins, FilesStay DEF GenerateBegins, Marked, Quiet
<1>17. CASE ImportHfBegins(t)
  BY <1>17, JobBegins, FilesStay DEF ImportHfBegins, Marked, Quiet
<1>18. ASSUME NEW ps, NEW held, Synthesizes(t, ps, held) PROVE Quiet(t)
  BY <1>18, Carried, FilesStay DEF Synthesizes, Marked, Passing, Quiet
<1>19. ASSUME NEW q, Downloads(t, q) PROVE Quiet(t)
  <2>1. PICK d : Carries(t, "work", "open", "sft", d) /\ UNCHANGED <<filevars, storevars, datavars>>
    BY <1>19, DownloadsIs
  <2> QED BY <2>1, Carried, FilesStay DEF Marked, Passing, Quiet
<1>20. CASE SftRenames(t)
  <2>1. TomlStays
    BY <1>20, OtherFileStays DEF SftRenames
  <2> QED BY <1>20, <2>1, Carried, DirsStay DEF SftRenames, Marked, Passing, Quiet
<1>21. CASE EvalRenames(t)
  <2>1. TomlStays
    BY <1>21, OtherFileStays DEF EvalRenames
  <2> QED BY <1>21, <2>1, Ended, DirsStay DEF EvalRenames, Ends, Quiet, Unlisted
<1>22. CASE TrainBegins(t)
  BY <1>22, JobBegins, FilesStay DEF TrainBegins, Marked, Quiet
<1>23. CASE TrainLoads(t)
  BY <1>23, Ended, FilesStay DEF TrainLoads, Ends, Quiet, Unlisted
<1>24. CASE EvalLoads(t)
  <2>1. PICK d, a : Begins(t, Job("eval", "score", "none", d, a))
    BY <1>24 DEF EvalLoads
  <2> QED BY <1>24, <2>1, JobBegins, FilesStay DEF EvalLoads, Marked, Quiet
<1>25. ASSUME NEW p, NEW fails, EvalScores(t, p, fails) PROVE Quiet(t)
  <2>1. PICK d, a : job' = [job EXCEPT ![t] = [job[t] EXCEPT !.data = d, !.arg = a]]
    BY <1>25 DEF EvalScores
  <2> DEFINE j == [job[t] EXCEPT !.data = d, !.arg = a]
  <2>2. j = [op |-> job[t].op, at |-> job[t].at, file |-> job[t].file, data |-> d,
             arg |-> a, alone |-> job[t].alone]
    BY Changed DEF JobInv, JobOK
  <2>3. JobOK(j)
    BY <1>25, <2>2 DEF EvalScores, JobInv, JobOK, IsJob
  <2> HIDE DEF j
  <2>4. JobInv' /\ Others(t) /\ ~Unlisted(job[t])
    BY <1>25, <2>1, <2>3, Replaced DEF j, EvalScores, Unlisted
  <2> QED BY <1>25, <2>4, FilesStay DEF EvalScores, Quiet
<1>26. CASE EvalGathers(t)
  BY <1>26, Went, FilesStay DEF EvalGathers, Marked, Passing, Quiet
<1>27. CASE EvalReports(t)
  <2>1. TomlStays
    BY <1>27, OtherFileStays DEF EvalReports
  <2> QED BY <1>27, <2>1, Ended, MakesDirsIs DEF EvalReports, Ends, Quiet, Unlisted
<1> QED
  BY <1>1, <1>2, <1>3, <1>4, <1>5, <1>7, <1>7a, <1>8, <1>9, <1>10, <1>11, <1>12, <1>13, <1>14, <1>15, <1>16,
     <1>17, <1>18, <1>19, <1>20, <1>21, <1>22, <1>23, <1>24, <1>25, <1>26, <1>27 DEF DataStep

---------------------------------------------------------------------------
(* Steps of the library                                                    *)

LEMMA CorpusIsQuiet ==
  ASSUME FolderInv, NEW t \in Tasks, CorpusStep(t)
  PROVE  Quiet(t)
<1> USE DEF FolderInv
<1>1. ASSUME NEW k, ExportBegins(t, k) PROVE Quiet(t)
  BY <1>1, JobBegins, FilesStay DEF ExportBegins, Marked, Quiet
<1>2. CASE ExportMakesDir(t)
  BY <1>2, Went, FilesStay DEF ExportMakesDir, Marked, Passing, Quiet
<1>3. CASE ExportCopies(t)
  <2>1. NextFile(job[t].file) # "toml"
    BY DEF NextFile
  <2> QED BY <1>3, <2>1, Carried, FilesStay DEF ExportCopies, Marked, Passing, Quiet
<1>4. CASE ExportCopiesStore(t)
  BY <1>4, Went, FilesStay DEF ExportCopiesStore, Marked, Passing, Quiet
<1>5. CASE ExportOpensManifest(t)
  BY <1>5, Went, FilesStay DEF ExportOpensManifest, Marked, Passing, Quiet
<1>6. CASE ExportWritesManifest(t)
  BY <1>6, Ended, FilesStay DEF ExportWritesManifest, Ends, Quiet, Unlisted
<1>7. ASSUME NEW k, NEW include_sft, ImportBegins(t, k, include_sft) PROVE Quiet(t)
  BY <1>7, JobBegins, FilesStay DEF ImportBegins, Marked, Quiet
<1>8. CASE ImportOpens(t)
  <2>1. JobInv' /\ Others(t) /\ ~Unlisted(job[t])
    BY <1>8, Went DEF ImportOpens, Marked, Passing
  <2>2. TomlStays
    BY <1>8, OtherFileStays, FileName DEF ImportOpens
  <2>3. DirStays \/ DirMade
    BY <1>8, MakesDirsIs, DirsStay DEF ImportOpens
  <2> QED BY <2>1, <2>2, <2>3 DEF Quiet
<1>9. FollowingFile(t) # "toml"
  BY DEF FollowingFile, NextFile
<1>10. CASE ImportSkips(t)
  BY <1>9, <1>10, Carried, FilesStay DEF ImportSkips, Marked, Passing, Quiet
<1>11. CASE ImportWrites(t)
  <2>1. JobInv' /\ Others(t) /\ ~Unlisted(job[t])
    BY <1>9, <1>11, Carried DEF ImportWrites, Marked, Passing
  <2>2. TomlStays
    BY <1>11, OtherFileStays, FileName DEF ImportWrites
  <2> QED BY <1>11, <2>1, <2>2, DirsStay DEF ImportWrites, Quiet
<1>12. CASE ImportCopiesStore(t)
  <2>1. TomlStays
    BY <1>12, OtherFileStays DEF ImportCopiesStore
  <2> QED BY <1>12, <2>1, Ended, MakesDirsIs DEF ImportCopiesStore, Ends, Quiet, Unlisted
<1> QED
  BY <1>1, <1>2, <1>3, <1>4, <1>5, <1>6, <1>7, <1>8, <1>10, <1>11, <1>12 DEF CorpusStep

---------------------------------------------------------------------------
(* Steps of the store                                                      *)

\* A step of t after which project.toml is there, or t is at one of the two
\* moments, or the directory is gone.
LEMMA SettledKeeps ==
  ASSUME JobInv', TomlInv', NEW t \in Tasks, Present("toml")' \/ Unlisted(job[t])' \/ ~dir'
  PROVE  FolderInv'
BY DEF FolderInv, NameInv

\* The configuration a task reads, changes and carries to project.toml.
LEMMA Patched ==
  ASSUME FolderInv, NEW t \in Tasks, NEW field, NEW value, Patches(t, field, value),
         \/ field \in {"synth_model", "last_run_id"} /\ value \in BOOLEAN
         \/ field = "seed" /\ value \in Seeds
  PROVE  JobInv' /\ Others(t) /\ ~Unlisted(job[t]) /\ TomlStays /\ dir' = dir /\ deserted' = deserted
<1> DEFINE c == [disk["toml"].data EXCEPT ![field] = value]
           j == [job[t] EXCEPT !.at = "config", !.arg = c]
<1>1. c \in Configs
  BY DEF Patches, Gets, Configs
<1> HIDE DEF c
<1>2. j = [op |-> job[t].op, at |-> "config", file |-> job[t].file, data |-> job[t].data,
           arg |-> c, alone |-> job[t].alone]
  BY Changed DEF FolderInv, JobInv, JobOK
<1>3. JobOK(j)
  BY <1>1, <1>2 DEF FolderInv, JobInv, JobOK, IsJob
<1>4. job' = [job EXCEPT ![t] = j] /\ job[t].at = "get"
  BY DEF Patches, Gets, c
<1>5. JobInv' /\ Others(t) /\ ~Unlisted(job[t])
  BY <1>3, <1>4, Replaced DEF FolderInv, Unlisted
<1> QED BY <1>5 DEF Patches, filevars, FolderInv, TomlInv, TomlStays, Present

LEMMA StoreKeeps ==
  ASSUME FolderInv, NEW t \in Tasks, StoreStep(t)
  PROVE  FolderInv'
<1> USE DEF FolderInv
<1>1. CASE CreateChecks(t)
  <2>1. JobOK(Job("create", "dirs", "none", Absent, Absent))
    BY DEF JobOK, IsJob, Job
  <2>2. Quiet(t)
    BY <1>1, <2>1, Began, FilesStay DEF CreateChecks, Quiet
  <2> QED BY <2>2, QuietKeeps
<1>2. CASE CreateMakesDirs(t)
  <2> DEFINE j == [job[t] EXCEPT !.at = "config", !.arg = Fresh]
  <2>0. job[t].op = "create" /\ Fresh \in Configs
    BY <1>2 DEF CreateMakesDirs, JobInv, JobOK, Fresh, Configs
  <2>1. j = [op |-> job[t].op, at |-> "config", file |-> job[t].file, data |-> job[t].data,
             arg |-> Fresh, alone |-> job[t].alone]
    BY Changed DEF JobInv, JobOK
  <2>2. JobOK(j)
    BY <2>0, <2>1 DEF JobInv, JobOK, IsJob
  <2>4. job' = [job EXCEPT ![t] = j]
    BY <1>2 DEF CreateMakesDirs
  <2>5. JobInv' /\ job'[t] = j
    BY <2>2, <2>4, Replaced
  <2>6. TomlInv'
    BY <1>2 DEF CreateMakesDirs, TomlInv, IsFile
  <2>7. job'[t].op = "create" /\ job'[t].at = "config"
    BY <2>0, <2>1, <2>5
  <2> QED BY <2>5, <2>6, <2>7, SettledKeeps DEF Unlisted
<1>3. ASSUME NEW op \in {"set_synth_model", "persist_last_run_id"}, UpdateBegins(t, op) PROVE FolderInv'
  <2>1. Quiet(t)
    BY <1>3, JobBegins, FilesStay DEF UpdateBegins, Marked, Quiet
  <2> QED BY <2>1, QuietKeeps
<1>4. CASE UpdatePatches(t)
  BY <1>4, Patched, QuietKeeps DEF UpdatePatches, Quiet, DirStays
<1>5. ASSUME NEW s \in Seeds, SeedExplicit(t, s) \/ SeedFresh(t, s) PROVE FolderInv'
  BY <1>5, Patched, QuietKeeps DEF SeedExplicit, SeedFresh, Quiet, DirStays
<1>6. CASE SeedStored(t)
  <2> DEFINE c == disk["toml"].data
             j == [job[t] EXCEPT !.at = "work", !.arg = c]
  <2>1. j = [op |-> job[t].op, at |-> "work", file |-> job[t].file, data |-> job[t].data,
             arg |-> c, alone |-> job[t].alone]
    BY Changed DEF JobInv, JobOK
  <2>2. JobOK(j)
    BY <2>1 DEF JobInv, JobOK, IsJob
  <2>3. JobInv' /\ Others(t) /\ ~Unlisted(job[t])
    BY <1>6, <2>2, Replaced DEF SeedStored, Unlisted
  <2> QED BY <1>6, <2>3, FilesStay, QuietKeeps DEF SeedStored, Quiet
<1>7. CASE ConfigOpens(t)
  <2> DEFINE j == [job[t] EXCEPT !.at = "config_opened"]
  <2>1. j = [op |-> job[t].op, at |-> "config_opened", file |-> job[t].file, data |-> job[t].data,
             arg |-> job[t].arg, alone |-> job[t].alone]
    BY DEF JobInv, JobOK, IsJob
  <2>2. JobOK(j)
    BY <1>7, <2>1 DEF ConfigOpens, Goes, JobInv, JobOK, IsJob
  <2>3. JobInv'
    BY <1>7, <2>2, Replaced DEF ConfigOpens, Goes
  <2>4. disk'["toml"] = Truncated(disk["toml"], t) /\ "toml" \in DOMAIN disk'
    BY <1>7 DEF ConfigOpens, PlaceOpens, TomlInv
  <2>5. IsFile(disk'["toml"]) /\ disk'["toml"].data = Torn
    BY <2>4 DEF Truncated, IsFile
  <2>6. TomlInv' /\ Present("toml")'
    BY <1>7, <2>4, <2>5, FilesAssumption DEF ConfigOpens, storevars, TomlInv, Present
  <2> QED BY <2>3, <2>6, SettledKeeps
<1>8. CASE ConfigWrites(t)
  <2>1. JobInv' /\ Others(t) /\ ~Unlisted(job[t])
    <3>1. CASE Goes(t, "config_opened", "work")
      BY <3>1, Went DEF Marked, Passing
    <3>2. CASE Ends(t)
      BY <1>8, <3>2, Ended DEF ConfigWrites, Ends, Unlisted
    <3> QED BY <1>8, <3>1, <3>2 DEF ConfigWrites
  <2>2. job[t].arg # Absent
    BY <1>8, StoreAssumption DEF ConfigWrites, JobInv, JobOK
  <2>3. ASSUME NEW n, n \in Written(disk["toml"], t, job[t].arg)
        PROVE IsFile(n) /\ n.data # Absent
    <3>1. PICK x \in {job[t].arg, Torn} : n = [disk["toml"] EXCEPT !.data = x, !.open = @ \ {t}]
      BY <2>3 DEF Written
    <3> DEFINE n1 == [disk["toml"] EXCEPT !.data = x]
    <3>2. n1 = [data |-> x, open |-> disk["toml"].open, shared |-> disk["toml"].shared,
                cut |-> disk["toml"].cut]
      BY DEF TomlInv, IsFile
    <3>3. n = [n1 EXCEPT !.open = @ \ {t}]
      BY <3>1
    <3> HIDE DEF n1
    <3>4. n = [data |-> x, open |-> disk["toml"].open \ {t}, shared |-> disk["toml"].shared,
               cut |-> disk["toml"].cut]
      BY <3>2, <3>3
    <3> QED BY <2>2, <3>4, FilesAssumption DEF IsFile
  <2>4. TomlStays
    BY <1>8, <2>3 DEF ConfigWrites, PlaceWrites, TomlInv, TomlStays, Present
  <2> QED BY <1>8, <2>1, <2>4, QuietKeeps DEF ConfigWrites, Quiet, DirStays
<1> QED
  BY <1>1, <1>2, <1>3, <1>4, <1>5, <1>6, <1>7, <1>8 DEF StoreStep

LEMMA DeletesKeep ==
  ASSUME FolderInv, NEW t \in Tasks, Deletes(t)
  PROVE  FolderInv'
<1> USE DEF FolderInv
<1>1. CASE DeleteChecks(t)
  <2>1. JobOK(Job("delete", "remove", "none", Absent, Absent))
    BY DEF JobOK, IsJob, Job
  <2>2. Quiet(t)
    BY <1>1, <2>1, Began, FilesStay DEF DeleteChecks, Quiet
  <2> QED BY <2>2, QuietKeeps
<1>2. CASE DeleteRemovesSome(t)
  <2>0. Goes(t, "remove", "rmdir")
    BY <1>2 DEF DeleteRemovesSome
  <2>1. JobInv' /\ job'[t].op = job[t].op /\ job'[t].at = "rmdir"
    BY <2>0, Went DEF Marked
  <2>4. job[t].op = "delete"
    BY <2>0 DEF Goes, JobInv, JobOK
  <2>2. disk'["toml"] \in {NoFile, disk["toml"]} /\ "toml" \in DOMAIN disk'
    BY <1>2 DEF DeleteRemovesSome, Files
  <2>3. TomlInv'
    BY <1>2, <2>2 DEF DeleteRemovesSome, storevars, TomlInv, IsFile, NoFile
  <2> QED BY <2>1, <2>3, <2>4, SettledKeeps DEF Unlisted
<1>3. CASE DeleteRemovesDir(t)
  <2>1. JobInv'
    BY <1>3, Ended DEF DeleteRemovesDir
  <2>2. disk'["toml"] = NoFile /\ "toml" \in DOMAIN disk'
    BY <1>3 DEF DeleteRemovesDir, Files
  <2>3. TomlInv' /\ ~dir'
    BY <1>3, <2>2 DEF DeleteRemovesDir, TomlInv, IsFile, NoFile
  <2> QED BY <2>1, <2>3, SettledKeeps
<1> QED BY <1>1, <1>2, <1>3 DEF Deletes

LEMMA BreakingKeeps ==
  ASSUME FolderInv, NEW t \in Tasks, BreaksOff(t)
  PROVE  FolderInv'
<1> USE DEF FolderInv
<1>1. JobInv' /\ Others(t)
  BY Ended DEF BreaksOff, Ends
<1>2. TomlStays
  BY LeftStays DEF BreaksOff
<1>3. dir' = dir /\ deserted' = (deserted \/ Unlisted(job[t]))
  BY DEF BreaksOff, Unlisted
<1>4. TomlInv'
  BY <1>2, <1>3 DEF TomlInv, TomlStays, Unlisted
<1>5. ASSUME dir', ~Present("toml")' PROVE deserted' \/ \E u \in Tasks : Unlisted(job'[u])
  <2>1. deserted \/ \E u \in Tasks : Unlisted(job[u])
    BY <1>2, <1>3, <1>5 DEF NameInv, TomlStays
  <2>2. ASSUME NEW u \in Tasks, Unlisted(job[u]) PROVE deserted' \/ Unlisted(job'[u])
    BY <1>1, <1>3, <2>2 DEF Others, Unlisted
  <2> QED BY <1>3, <2>1, <2>2
<1> QED BY <1>1, <1>4, <1>5 DEF NameInv

---------------------------------------------------------------------------
LEMMA FolderInitInv == Init => FolderInv
<1> SUFFICES ASSUME Init PROVE FolderInv
  OBVIOUS
<1> DEFINE seed == CHOOSE s \in Seeds : TRUE
           q == CHOOSE r \in Requests : TRUE
<1>1. PICK stage \in Stages : InitProject(stage, q, seed)
  BY DEF Init
<1>2. seed \in Seeds
  BY StoreAssumption
<1> HIDE DEF seed, q
<1>3. InitProject(stage, q, seed)
  BY <1>1
<1>4. dir \in BOOLEAN /\ told \in Configs
  BY <1>2, <1>3 DEF InitProject, Fresh, Configs
<1>5. disk["toml"] = IF dir THEN File(told) ELSE NoFile
  BY <1>3 DEF InitProject
<1>6. "toml" \in DOMAIN disk
  BY <1>3 DEF InitProject
<1>7. IsFile(disk["toml"]) /\ (dir => Present("toml"))
  <2>1. ASSUME NEW n, IsFile(n), NEW d
        PROVE IsFile([n EXCEPT !.data = d]) /\ [n EXCEPT !.data = d].data = d
    <3>1. [n EXCEPT !.data = d] = [data |-> d, open |-> n.open, shared |-> n.shared, cut |-> n.cut]
      BY <2>1 DEF IsFile
    <3> QED BY <3>1 DEF IsFile
  <2>3. IsFile(NoFile)
    BY DEF NoFile, IsFile
  <2>2. IsFile(File(told)) /\ File(told).data = told
    BY <2>1, <2>3 DEF File
  <2>4. told # Absent
    BY <1>4, StoreAssumption
  <2>5. CASE dir
    BY <1>5, <2>2, <2>4, <2>5 DEF Present
  <2>6. CASE ~dir
    BY <1>5, <2>3, <2>6
  <2> QED BY <2>5, <2>6
<1>8. TomlInv /\ NameInv
  BY <1>4, <1>6, <1>7 DEF Init, TomlInv, NameInv
<1>9. JobInv
  BY DEF Init, Idle, Job, JobInv, JobOK, IsJob
<1> QED BY <1>8, <1>9 DEF FolderInv

LEMMA FolderStepInv == FolderInv /\ [Next]_vars => FolderInv'
<1> SUFFICES ASSUME FolderInv, [Next]_vars PROVE FolderInv'
  OBVIOUS
<1>1. ASSUME NEW t \in Tasks, Step(t) PROVE FolderInv'
  <2>1. CASE StoreStep(t)
    BY <2>1, StoreKeeps
  <2>2. CASE Deletes(t)
    BY <2>2, DeletesKeep
  <2>3. CASE DataStep(t)
    BY <2>3, DataIsQuiet, QuietKeeps
  <2>4. CASE CorpusStep(t)
    BY <2>4, CorpusIsQuiet, QuietKeeps
  <2>5. CASE BreaksOff(t)
    BY <2>5, BreakingKeeps
  <2> QED BY <1>1, <2>1, <2>2, <2>3, <2>4, <2>5 DEF Step
<1>2. CASE UNCHANGED vars
  <2>1. dir' = dir /\ disk' = disk /\ job' = job /\ deserted' = deserted
    BY <1>2 DEF vars, filevars, storevars
  <2> QED BY <2>1 DEF FolderInv, JobInv, TomlInv, NameInv, Present
<1> QED BY <1>1, <1>2 DEF Next

\* A directory without its project.toml is that of a create or a delete between
\* two of its steps, or was deserted, in every state (store.rs create, delete;
\* every tool and worker that makes the directories it writes to).
THEOREM FolderInvariant == Spec => []FolderInv
<1>1. Init => FolderInv
  BY FolderInitInv
<1>2. FolderInv /\ [Next]_vars => FolderInv'
  BY FolderStepInv
<1> QED BY <1>1, <1>2, PTL DEF Spec

\* A project that is not listed leaves its name free, unless a create or a
\* delete broke off or an operation outlived the project.
THEOREM NameListedOrFree == Spec => []NameIsListedOrFree
<1>1. FolderInv => NameIsListedOrFree
  BY DEF FolderInv, NameInv, NameIsListedOrFree, Listed, Unlisted
<1> QED BY <1>1, FolderInvariant, PTL

---------------------------------------------------------------------------
(* The shape of every job                                                  *)

Generators == {"generate", "import_hf"}
Parts == [sft : PairFiles, eval : PairFiles]
SeededConfigs == {c \in Configs : c.seed \in Seeds}

Idling(j) == j.op = "none" /\ j.at = "idle" /\ j.file = "none"

Creating(j) ==
  /\ j.op = "create" /\ j.file = "none"
  /\ j.at = "dirs" \/ (j.at \in {"config", "config_opened"} /\ j.arg = Fresh)

Updating(j) ==
  /\ j.op \in {"set_synth_model", "persist_last_run_id"} /\ j.file = "none"
  /\ j.at = "get" \/ (j.at \in {"config", "config_opened"} /\ j.arg \in Configs)

Deleting(j) == j.op = "delete" /\ j.at \in {"remove", "rmdir"} /\ j.file = "none"

Filtering(j) ==
  /\ j.op = "filter" /\ j.at \in {"opened", "written"} /\ j.file = "chunks"
  /\ j.data \in SUBSET Chunks /\ j.arg \in [ids : SUBSET Chunks, include : BOOLEAN]

Ingesting(j) ==
  j.op = "ingest" /\ j.at \in {"open", "opened", "written"} /\ j.file = "chunks" /\ j.data \in SUBSET Chunks

Building(j) ==
  /\ j.op = "build"
  /\ \/ j.at \in {"open", "opened"} /\ j.file = "rag" /\ j.data \in (SUBSET Chunks) \cup {Absent}
     \/ j.at \in {"written", "embed"} /\ j.file = "rag" /\ j.data \in SUBSET Chunks
     \/ j.at \in {"delete", "add"} /\ j.file = "none" /\ j.data \in SUBSET Chunks

\* The two parts op has to write, and where they come from.
SplitBy(op, d, seed) ==
  \E ps, held \in SUBSET Pairs, from \in Origins :
    /\ held \subseteq ps /\ d = Split(ps, held, from)
    /\ op = "generate" => from = "synth"
    /\ op = "import_hf" => from \in Requests /\ ps = Drawn[from][seed] /\ held = HeldOut[from][seed]

Generating(j) ==
  /\ j.op \in Generators
  /\ \/ j.at = "get" /\ j.file = "none"
     \/ j.at \in {"config", "config_opened", "work"} /\ j.file = "none" /\ j.arg \in SeededConfigs
     \/ /\ j.at \in {"open", "opened", "written"} /\ j.file \in {"sft", "eval"} /\ j.arg \in SeededConfigs
        /\ SplitBy(j.op, j.data, j.arg.seed)

Training(j) == j.op = "train" /\ j.at = "train" /\ j.file = "none"

Evaluating(j) ==
  /\ j.op = "eval" /\ j.at \in {"score", "report"} /\ j.file = "none"
  /\ j.data \in SUBSET Pairs /\ j.arg \in [missed : SUBSET Pairs, failed : SUBSET Pairs]

Exporting(j) ==
  /\ j.op = "export" /\ j.arg \in Names
  /\ \/ j.at = "mkdir" /\ j.file = "rag"
     \/ j.at = "copy" /\ j.file \in {"rag", "sft", "eval", "store"}
     \/ j.at \in {"manifest", "manifest_opened"} /\ j.file = "store"

Importing(j) ==
  /\ j.op = "import" /\ j.arg \in [name : Names, include_sft : BOOLEAN]
  /\ \/ j.at = "copy" /\ j.file \in {"rag", "sft", "eval", "store"}
     \/ j.at = "copying" /\ j.file \in {"rag", "sft", "eval"}
  /\ j.file \in {"sft", "eval"} => j.arg.include_sft

JobFormed(j) ==
  \/ Idling(j) \/ Creating(j) \/ Updating(j) \/ Deleting(j) \/ Filtering(j) \/ Ingesting(j)
  \/ Building(j) \/ Generating(j) \/ Training(j) \/ Evaluating(j) \/ Exporting(j) \/ Importing(j)

JobTyped(j) == IsJob(j) /\ j.alone \in BOOLEAN /\ JobFormed(j)

JobsTyped == job = [u \in Tasks |-> job[u]] /\ \A u \in Tasks : JobTyped(job[u])

---------------------------------------------------------------------------
(* What happens to the jobs, field by field                                *)

JobIs(t, op, at, file, d, a, al) ==
  /\ job'[t].op = op /\ job'[t].at = at /\ job'[t].file = file
  /\ job'[t].data = d /\ job'[t].arg = a /\ job'[t].alone = al

Rest(t) == \A u \in Tasks \ {t} : job'[u] = job[u]

\* The shape of job, which every step keeps.
Shaped == job = [u \in Tasks |-> job[u]] /\ \A u \in Tasks : IsJob(job[u])

\* Steps of t that carry on with its operation.
Moved(t, at, file, d, a) ==
  /\ Shaped' /\ Rest(t) /\ raced' = raced
  /\ JobIs(t, job[t].op, at, file, d, a, job[t].alone)

Done(t) ==
  /\ Shaped' /\ Rest(t) /\ raced' = raced
  /\ job'[t].op = "none" /\ job'[t].at = "idle" /\ job'[t].file = "none"
  /\ job'[t].data = Absent /\ job'[t].arg = Absent /\ job'[t].alone

LEMMA ReplacedShape ==
  ASSUME Shaped, NEW t \in Tasks, NEW op, NEW at, NEW file, NEW d, NEW a, NEW al,
         job' = [job EXCEPT ![t] = [op |-> op, at |-> at, file |-> file, data |-> d, arg |-> a, alone |-> al]]
  PROVE  Shaped' /\ Rest(t) /\ JobIs(t, op, at, file, d, a, al)
<1> DEFINE j == [op |-> op, at |-> at, file |-> file, data |-> d, arg |-> a, alone |-> al]
<1>1. job' = [u \in Tasks |-> IF u = t THEN j ELSE job[u]]
  BY DEF Shaped
<1>2. IsJob(j)
  BY DEF IsJob
<1>3. j.op = op /\ j.at = at /\ j.file = file /\ j.data = d /\ j.arg = a /\ j.alone = al
  OBVIOUS
<1> HIDE DEF j
<1> QED BY <1>1, <1>2, <1>3 DEF Shaped, Rest, JobIs

LEMMA GoesIs ==
  ASSUME Shaped, NEW t \in Tasks, NEW from, NEW to, Goes(t, from, to)
  PROVE  job[t].at = from /\ Moved(t, to, job[t].file, job[t].data, job[t].arg)
<1>1. [job[t] EXCEPT !.at = to] = [op |-> job[t].op, at |-> to, file |-> job[t].file, data |-> job[t].data,
                                   arg |-> job[t].arg, alone |-> job[t].alone]
  BY DEF Shaped, IsJob
<1>2. job' = [job EXCEPT ![t] = [job[t] EXCEPT !.at = to]]
  BY DEF Goes
<1>3. Shaped' /\ Rest(t) /\ JobIs(t, job[t].op, to, job[t].file, job[t].data, job[t].arg, job[t].alone)
  BY <1>1, <1>2, ReplacedShape
<1> QED BY <1>3 DEF Goes, Moved

LEMMA CarriesIs ==
  ASSUME Shaped, NEW t \in Tasks, NEW from, NEW to, NEW file, NEW d, Carries(t, from, to, file, d)
  PROVE  job[t].at = from /\ Moved(t, to, file, d, job[t].arg)
<1>0. ASSUME NEW k, IsJob(k)
      PROVE [k EXCEPT !.at = to, !.file = file, !.data = d] =
              [op |-> k.op, at |-> to, file |-> file, data |-> d, arg |-> k.arg, alone |-> k.alone]
  <2> DEFINE k1 == [k EXCEPT !.at = to]
             k2 == [k1 EXCEPT !.file = file]
  <2>1. k1 = [op |-> k.op, at |-> to, file |-> k.file, data |-> k.data, arg |-> k.arg, alone |-> k.alone]
    BY <1>0 DEF IsJob
  <2> HIDE DEF k1
  <2>2. k2 = [op |-> k.op, at |-> to, file |-> file, data |-> k.data, arg |-> k.arg, alone |-> k.alone]
    BY <2>1
  <2> HIDE DEF k2
  <2>3. [k2 EXCEPT !.data = d] =
          [op |-> k.op, at |-> to, file |-> file, data |-> d, arg |-> k.arg, alone |-> k.alone]
    BY <2>2
  <2> QED BY <2>3 DEF k1, k2
<1>1. [job[t] EXCEPT !.at = to, !.file = file, !.data = d] =
        [op |-> job[t].op, at |-> to, file |-> file, data |-> d, arg |-> job[t].arg, alone |-> job[t].alone]
  BY <1>0 DEF Shaped
<1>2. job' = [job EXCEPT ![t] = [job[t] EXCEPT !.at = to, !.file = file, !.data = d]]
  BY DEF Carries
<1>3. Shaped' /\ Rest(t) /\ JobIs(t, job[t].op, to, file, d, job[t].arg, job[t].alone)
  BY <1>1, <1>2, ReplacedShape
<1> QED BY <1>3 DEF Carries, Moved

LEMMA AgainIs ==
  ASSUME Shaped, NEW t \in Tasks, NEW kept, RunsAgain(t, kept)
  PROVE  Moved(t, "open", job[t].file, kept, "retry")
<1>1. job' = [job EXCEPT ![t] = [job[t] EXCEPT !.at = "open", !.data = kept, !.arg = "retry"]]
  BY DEF RunsAgain
<1>2. [job[t] EXCEPT !.at = "open", !.data = kept, !.arg = "retry"] =
        [op |-> job[t].op, at |-> "open", file |-> job[t].file, data |-> kept, arg |-> "retry",
         alone |-> job[t].alone]
  BY Rerun DEF Shaped
<1>3. Shaped' /\ Rest(t) /\ JobIs(t, job[t].op, "open", job[t].file, kept, "retry", job[t].alone)
  BY <1>1, <1>2, ReplacedShape
<1> QED BY <1>3 DEF Moved, RunsAgain

LEMMA PatchIs ==
  ASSUME Shaped, NEW t \in Tasks, NEW at, NEW a, raced' = raced,
         job' = [job EXCEPT ![t].at = at, ![t].arg = a]
  PROVE  Moved(t, at, job[t].file, job[t].data, a)
<1>1. job' = [job EXCEPT ![t] = [job[t] EXCEPT !.at = at, !.arg = a]]
  OBVIOUS
<1>2. [job[t] EXCEPT !.at = at, !.arg = a] =
        [op |-> job[t].op, at |-> at, file |-> job[t].file, data |-> job[t].data, arg |-> a,
         alone |-> job[t].alone]
  BY Changed DEF Shaped
<1>3. Shaped' /\ Rest(t) /\ JobIs(t, job[t].op, at, job[t].file, job[t].data, a, job[t].alone)
  BY <1>1, <1>2, ReplacedShape
<1> QED BY <1>3 DEF Moved

LEMMA ScoreIs ==
  ASSUME Shaped, NEW t \in Tasks, NEW d, NEW a, raced' = raced,
         job' = [job EXCEPT ![t].data = d, ![t].arg = a]
  PROVE  Moved(t, job[t].at, job[t].file, d, a)
<1>1. job' = [job EXCEPT ![t] = [job[t] EXCEPT !.data = d, !.arg = a]]
  OBVIOUS
<1>2. [job[t] EXCEPT !.data = d, !.arg = a] =
        [op |-> job[t].op, at |-> job[t].at, file |-> job[t].file, data |-> d, arg |-> a,
         alone |-> job[t].alone]
  BY Changed DEF Shaped
<1>3. Shaped' /\ Rest(t) /\ JobIs(t, job[t].op, job[t].at, job[t].file, d, a, job[t].alone)
  BY <1>1, <1>2, ReplacedShape
<1> QED BY <1>3 DEF Moved

LEMMA EndsIs ==
  ASSUME Shaped, NEW t \in Tasks, job' = [job EXCEPT ![t] = Idle]
  PROVE  /\ Shaped' /\ Rest(t)
         /\ job'[t].op = "none" /\ job'[t].at = "idle" /\ job'[t].file = "none"
         /\ job'[t].data = Absent /\ job'[t].arg = Absent /\ job'[t].alone
<1>1. PICK b : b = TRUE
  OBVIOUS
<1>2. Idle = [op |-> "none", at |-> "idle", file |-> "none", data |-> Absent, arg |-> Absent, alone |-> b]
  BY <1>1 DEF Idle, Job
<1>3. Shaped' /\ Rest(t) /\ JobIs(t, "none", "idle", "none", Absent, Absent, b)
  BY <1>2, ReplacedShape
<1> QED BY <1>1, <1>3 DEF JobIs

---------------------------------------------------------------------------
(* The beginning of an operation                                           *)

\* t has begun op; alone tells whether it has a rival, and its rivals know.
Begun(t, op, at, file, d, a) ==
  /\ job[t].op = "none" /\ Shaped'
  /\ job'[t].op = op /\ job'[t].at = at /\ job'[t].file = file /\ job'[t].data = d /\ job'[t].arg = a
  /\ job'[t].alone \in BOOLEAN
  /\ job'[t].alone => Rivals(t, op) = {}
  /\ \A u \in Tasks \ {t} :
       /\ job'[u].op = job[u].op /\ job'[u].at = job[u].at /\ job'[u].file = job[u].file
       /\ job'[u].data = job[u].data /\ job'[u].arg = job[u].arg
       /\ job'[u].alone = job[u].alone \/ (job'[u].alone \in BOOLEAN /\ ~job'[u].alone)
       /\ job'[u].alone => u \notin Rivals(t, op)
  /\ raced' = raced \cup ({"toml", "chunks"} \cap Writes[op] \cap UNION {ToWrite(u) : u \in Tasks \ {t}})

LEMMA BeginsIs ==
  ASSUME Shaped, \A u \in Tasks : job[u].alone \in BOOLEAN,
         NEW t \in Tasks, NEW op, NEW at, NEW file, NEW d, NEW a, Begins(t, Job(op, at, file, d, a))
  PROVE  Begun(t, op, at, file, d, a)
<1> DEFINE j == Job(op, at, file, d, a)
<1>1. ASSUME NEW k, NEW b, IsJob(k)
      PROVE [k EXCEPT !.alone = b] =
              [op |-> k.op, at |-> k.at, file |-> k.file, data |-> k.data, arg |-> k.arg, alone |-> b]
  BY <1>1 DEF IsJob
<1>2. ASSUME NEW k, NEW b, IsJob(k)
      PROVE /\ IsJob([k EXCEPT !.alone = b]) /\ [k EXCEPT !.alone = b].op = k.op
            /\ [k EXCEPT !.alone = b].at = k.at /\ [k EXCEPT !.alone = b].file = k.file
            /\ [k EXCEPT !.alone = b].data = k.data /\ [k EXCEPT !.alone = b].arg = k.arg
            /\ [k EXCEPT !.alone = b].alone = b
  BY <1>1, <1>2 DEF IsJob
<1>3. PICK y : y = TRUE
  OBVIOUS
<1>4. j = [op |-> op, at |-> at, file |-> file, data |-> d, arg |-> a, alone |-> y]
  BY <1>3 DEF Job
<1>5. IsJob(j) /\ j.op = op /\ j.at = at /\ j.file = file /\ j.data = d /\ j.arg = a
  BY <1>4 DEF IsJob
<1> HIDE DEF j
<1> DEFINE R == Rivals(t, op)
           n == R = {}
<1>6. /\ job[t].op = "none"
      /\ job' = [u \in Tasks |-> IF u = t THEN [j EXCEPT !.alone = n]
                                 ELSE IF u \in R THEN [job[u] EXCEPT !.alone = FALSE] ELSE job[u]]
      /\ raced' = raced \cup ({"toml", "chunks"} \cap Writes[op] \cap UNION {ToWrite(u) : u \in Tasks \ {t}})
  BY <1>5 DEF Begins, j
<1>7. n \in BOOLEAN
  OBVIOUS
<1>8. PICK m : m = n
  OBVIOUS
<1>9. PICK x : x = FALSE
  OBVIOUS
<1> HIDE DEF R, n
<1>10. job' = [u \in Tasks |-> IF u = t THEN [j EXCEPT !.alone = m]
                              ELSE IF u \in R THEN [job[u] EXCEPT !.alone = x] ELSE job[u]]
  BY <1>6, <1>8, <1>9
<1>11. job'[t] = [j EXCEPT !.alone = m]
  BY <1>10
<1>12. /\ IsJob(job'[t]) /\ job'[t].op = op /\ job'[t].at = at /\ job'[t].file = file
       /\ job'[t].data = d /\ job'[t].arg = a /\ job'[t].alone = m
  BY <1>2, <1>5, <1>11
<1>13. job'[t].alone \in BOOLEAN /\ (job'[t].alone => R = {})
  BY <1>7, <1>8, <1>12 DEF n
<1>14. ASSUME NEW u \in Tasks \ {t}
       PROVE /\ IsJob(job'[u])
             /\ job'[u].op = job[u].op /\ job'[u].at = job[u].at /\ job'[u].file = job[u].file
             /\ job'[u].data = job[u].data /\ job'[u].arg = job[u].arg
             /\ job'[u].alone = IF u \in R THEN x ELSE job[u].alone
  <2>1. CASE u \in R
    <3>1. job'[u] = [job[u] EXCEPT !.alone = x]
      BY <1>10, <2>1
    <3>2. IsJob(job[u])
      BY DEF Shaped
    <3>3. /\ IsJob(job'[u]) /\ job'[u].alone = x
          /\ job'[u].op = job[u].op /\ job'[u].at = job[u].at /\ job'[u].file = job[u].file
          /\ job'[u].data = job[u].data /\ job'[u].arg = job[u].arg
      BY <3>1, <3>2, <1>2
    <3> QED BY <3>3, <2>1
  <2>2. CASE u \notin R
    BY <1>10, <2>2 DEF Shaped
  <2> QED BY <2>1, <2>2
<1>15. ASSUME NEW u \in Tasks \ {t}
       PROVE /\ job'[u].alone = job[u].alone \/ (job'[u].alone \in BOOLEAN /\ ~job'[u].alone)
             /\ job'[u].alone => u \notin R
  BY <1>9, <1>14
<1>16. Shaped'
  BY <1>10, <1>12, <1>14 DEF Shaped
<1> QED BY <1>6, <1>12, <1>13, <1>14, <1>15, <1>16 DEF Begun, R

---------------------------------------------------------------------------
(* What a write does to the files                                          *)

\* The shape of the files, which every step keeps.
FilesShaped ==
  /\ disk = [f \in Files |-> disk[f]] /\ tmp = [f \in Files |-> tmp[f]]
  /\ \A f \in Files :
       /\ IsFile(disk[f]) /\ disk[f].shared \in BOOLEAN /\ disk[f].cut \in BOOLEAN
       /\ IsFile(tmp[f]) /\ tmp[f].shared \in BOOLEAN /\ tmp[f].cut \in BOOLEAN

DiskRest(f) == \A g \in Files \ {f} : disk'[g] = disk[g]
TmpRest(f) == \A g \in Files \ {f} : tmp'[g] = tmp[g]

\* A file opened, truncated.
OpenedBy(n, m, t) ==
  n.data = Torn /\ n.open = m.open \cup {t} /\ (n.shared <=> m.open # {}) /\ ~n.cut

\* A file written by t and closed.
WrittenBy(n, m, t, d) ==
  /\ n.data = d \/ (m.shared /\ n.data = Torn)
  /\ n.open = m.open \ {t} /\ n.shared = m.shared /\ n.cut = m.cut

\* A file t has gone from.
LeftBy(n, m, t) ==
  n.data = m.data /\ n.open = m.open \ {t} /\ n.shared = m.shared /\ (n.cut <=> m.cut \/ t \in m.open)

LEMMA SetFile ==
  ASSUME NEW n, NEW f \in Files, NEW h, h = [g \in Files |-> h[g]], NEW i, i = [h EXCEPT ![f] = n]
  PROVE  i = [g \in Files |-> i[g]] /\ i[f] = n /\ \A g \in Files \ {f} : i[g] = h[g]
OBVIOUS

FileRecord(n, d, o, s, c) ==
  IsFile(n) /\ n.data = d /\ n.open = o /\ n.shared = s /\ n.cut = c

LEMMA RecordIs ==
  ASSUME NEW d, NEW o, NEW s, NEW c
  PROVE  FileRecord([data |-> d, open |-> o, shared |-> s, cut |-> c], d, o, s, c)
BY DEF FileRecord, IsFile

LEMMA NoFileIs ==
  IsFile(NoFile) /\ NoFile.data = Absent /\ NoFile.open = {} /\ ~NoFile.shared /\ ~NoFile.cut
  /\ NoFile.shared \in BOOLEAN /\ NoFile.cut \in BOOLEAN
<1>1. PICK b : b = FALSE
  OBVIOUS
<1>2. NoFile = [data |-> Absent, open |-> {}, shared |-> b, cut |-> b]
  BY <1>1 DEF NoFile
<1>3. FileRecord(NoFile, Absent, {}, b, b)
  BY <1>2, RecordIs
<1> QED BY <1>1, <1>3 DEF FileRecord

LEMMA TruncatedIs ==
  ASSUME NEW m, NEW t
  PROVE  IsFile(Truncated(m, t)) /\ OpenedBy(Truncated(m, t), m, t)
         /\ Truncated(m, t).shared \in BOOLEAN /\ Truncated(m, t).cut \in BOOLEAN
<1>1. PICK b : b = FALSE
  OBVIOUS
<1> DEFINE s == m.open # {}
<1>2. PICK x : x = s
  OBVIOUS
<1>3. Truncated(m, t) = [data |-> Torn, open |-> m.open \cup {t}, shared |-> x, cut |-> b]
  BY <1>1, <1>2 DEF Truncated
<1>4. FileRecord(Truncated(m, t), Torn, m.open \cup {t}, x, b)
  BY <1>3, RecordIs
<1>5. x \in BOOLEAN /\ (x <=> m.open # {})
  BY <1>2
<1> QED BY <1>1, <1>4, <1>5 DEF FileRecord, OpenedBy

LEMMA WrittenIs ==
  ASSUME NEW m, IsFile(m), NEW t, NEW d, NEW n \in Written(m, t, d)
  PROVE  IsFile(n) /\ WrittenBy(n, m, t, d)
<1>1. PICK x \in {d} \cup (IF m.shared THEN {Torn} ELSE {}) : n = [m EXCEPT !.data = x, !.open = @ \ {t}]
  BY DEF Written
<1> DEFINE n1 == [m EXCEPT !.data = x]
<1>2. n1 = [data |-> x, open |-> m.open, shared |-> m.shared, cut |-> m.cut]
  BY DEF IsFile
<1>3. n = [n1 EXCEPT !.open = @ \ {t}]
  BY <1>1
<1> HIDE DEF n1
<1>4. n = [data |-> x, open |-> m.open \ {t}, shared |-> m.shared, cut |-> m.cut]
  BY <1>2, <1>3
<1>5. FileRecord(n, x, m.open \ {t}, m.shared, m.cut)
  BY <1>4, RecordIs
<1>6. x = d \/ (m.shared /\ x = Torn)
  BY <1>1
<1> QED BY <1>5, <1>6 DEF FileRecord, WrittenBy

LEMMA LeftIs ==
  ASSUME NEW m, IsFile(m), NEW t
  PROVE  IsFile(Left(m, t)) /\ LeftBy(Left(m, t), m, t) /\ Left(m, t).cut \in BOOLEAN
<1> DEFINE n1 == [m EXCEPT !.open = m.open \ {t}]
           c == m.cut \/ t \in m.open
<1>1. n1 = [data |-> m.data, open |-> m.open \ {t}, shared |-> m.shared, cut |-> m.cut]
  BY DEF IsFile
<1>2. Left(m, t) = [n1 EXCEPT !.cut = c]
  BY <1>1 DEF Left
<1>3. PICK x : x = c
  OBVIOUS
<1>4. x \in BOOLEAN /\ (x <=> m.cut \/ t \in m.open)
  BY <1>3
<1> HIDE DEF n1, c
<1>5. Left(m, t) = [data |-> m.data, open |-> m.open \ {t}, shared |-> m.shared, cut |-> x]
  BY <1>1, <1>2, <1>3
<1>6. FileRecord(Left(m, t), m.data, m.open \ {t}, m.shared, x)
  BY <1>5, RecordIs
<1> QED BY <1>4, <1>6 DEF FileRecord, LeftBy

---------------------------------------------------------------------------
LEMMA SwapOpensIs ==
  ASSUME FilesShaped, NEW f \in Files, NEW t, SwapOpens(t, f)
  PROVE  FilesShaped' /\ disk' = disk /\ TmpRest(f) /\ OpenedBy(tmp'[f], tmp[f], t)
<1>1. tmp' = [tmp EXCEPT ![f] = Truncated(tmp[f], t)] /\ disk' = disk
  BY DEF SwapOpens
<1>2. tmp' = [g \in Files |-> tmp'[g]] /\ tmp'[f] = Truncated(tmp[f], t) /\ TmpRest(f)
  BY <1>1, SetFile DEF FilesShaped, TmpRest
<1> QED BY <1>1, <1>2, TruncatedIs DEF FilesShaped, TmpRest

LEMMA PlaceOpensIs ==
  ASSUME FilesShaped, NEW f \in Files, NEW t, PlaceOpens(t, f)
  PROVE  FilesShaped' /\ tmp' = tmp /\ DiskRest(f) /\ OpenedBy(disk'[f], disk[f], t)
<1>1. disk' = [disk EXCEPT ![f] = Truncated(disk[f], t)] /\ tmp' = tmp
  BY DEF PlaceOpens
<1>2. disk' = [g \in Files |-> disk'[g]] /\ disk'[f] = Truncated(disk[f], t) /\ DiskRest(f)
  BY <1>1, SetFile DEF FilesShaped, DiskRest
<1> QED BY <1>1, <1>2, TruncatedIs DEF FilesShaped, DiskRest

LEMMA DiskWritten ==
  ASSUME FilesShaped, NEW f \in Files, NEW t, NEW d, NEW n \in Written(disk[f], t, d),
         disk' = [disk EXCEPT ![f] = n], tmp' = tmp
  PROVE  FilesShaped' /\ DiskRest(f) /\ WrittenBy(disk'[f], disk[f], t, d)
<1>1. disk' = [g \in Files |-> disk'[g]] /\ disk'[f] = n /\ DiskRest(f)
  BY SetFile DEF FilesShaped, DiskRest
<1>2. IsFile(n) /\ WrittenBy(n, disk[f], t, d)
  BY WrittenIs DEF FilesShaped
<1> QED BY <1>1, <1>2 DEF FilesShaped, DiskRest, WrittenBy

LEMMA TmpWritten ==
  ASSUME FilesShaped, NEW f \in Files, NEW t, NEW d, NEW n \in Written(tmp[f], t, d),
         tmp' = [tmp EXCEPT ![f] = n], disk' = disk
  PROVE  FilesShaped' /\ TmpRest(f) /\ WrittenBy(tmp'[f], tmp[f], t, d)
<1>1. tmp' = [g \in Files |-> tmp'[g]] /\ tmp'[f] = n /\ TmpRest(f)
  BY SetFile DEF FilesShaped, TmpRest
<1>2. IsFile(n) /\ WrittenBy(n, tmp[f], t, d)
  BY WrittenIs DEF FilesShaped
<1> QED BY <1>1, <1>2 DEF FilesShaped, TmpRest, WrittenBy

SwapWritten(t, f, d) ==
  \/ t \in tmp[f].open /\ disk' = disk /\ TmpRest(f) /\ WrittenBy(tmp'[f], tmp[f], t, d)
  \/ t \notin tmp[f].open /\ t \in disk[f].open /\ tmp' = tmp /\ DiskRest(f)
     /\ WrittenBy(disk'[f], disk[f], t, d)
  \/ t \notin tmp[f].open /\ t \notin disk[f].open /\ disk' = disk /\ tmp' = tmp

LEMMA SwapWritesIs ==
  ASSUME FilesShaped, NEW f \in Files, NEW t, NEW d, SwapWrites(t, f, d)
  PROVE  FilesShaped' /\ SwapWritten(t, f, d)
<1>1. CASE t \in tmp[f].open
  <2>1. PICK n \in Written(tmp[f], t, d) : tmp' = [tmp EXCEPT ![f] = n] /\ disk' = disk
    BY <1>1 DEF SwapWrites
  <2> QED BY <1>1, <2>1, TmpWritten DEF SwapWritten
<1>2. CASE t \notin tmp[f].open /\ t \in disk[f].open
  <2>1. PICK n \in Written(disk[f], t, d) : disk' = [disk EXCEPT ![f] = n] /\ tmp' = tmp
    BY <1>2 DEF SwapWrites
  <2> QED BY <1>2, <2>1, DiskWritten DEF SwapWritten
<1>3. CASE t \notin tmp[f].open /\ t \notin disk[f].open
  BY <1>3 DEF SwapWrites, FilesShaped, SwapWritten
<1> QED BY <1>1, <1>2, <1>3

PlaceWritten(t, f, d) ==
  /\ tmp' = tmp
  /\ \/ t \in disk[f].open /\ DiskRest(f) /\ WrittenBy(disk'[f], disk[f], t, d)
     \/ t \notin disk[f].open /\ disk' = disk

LEMMA PlaceWritesIs ==
  ASSUME FilesShaped, NEW f \in Files, NEW t, NEW d, PlaceWrites(t, f, d)
  PROVE  FilesShaped' /\ PlaceWritten(t, f, d)
<1>1. CASE t \in disk[f].open
  <2>1. PICK n \in Written(disk[f], t, d) : disk' = [disk EXCEPT ![f] = n] /\ tmp' = tmp
    BY <1>1 DEF PlaceWrites
  <2> QED BY <1>1, <2>1, DiskWritten DEF PlaceWritten
<1>2. CASE t \notin disk[f].open
  BY <1>2 DEF PlaceWrites, FilesShaped, PlaceWritten
<1> QED BY <1>1, <1>2

LEMMA SwapRenamesIs ==
  ASSUME FilesShaped, NEW f \in Files, SwapRenames(f)
  PROVE  /\ FilesShaped' /\ DiskRest(f) /\ TmpRest(f)
         /\ disk'[f] = tmp[f] /\ tmp'[f] = NoFile /\ tmp[f].data # Absent
<1>1. disk' = [disk EXCEPT ![f] = tmp[f]] /\ tmp' = [tmp EXCEPT ![f] = NoFile] /\ tmp[f].data # Absent
  BY DEF SwapRenames
<1>2. disk' = [g \in Files |-> disk'[g]] /\ disk'[f] = tmp[f] /\ DiskRest(f)
  BY <1>1, SetFile DEF FilesShaped, DiskRest
<1>3. tmp' = [g \in Files |-> tmp'[g]] /\ tmp'[f] = NoFile /\ TmpRest(f)
  BY <1>1, SetFile DEF FilesShaped, TmpRest
<1> QED BY <1>1, <1>2, <1>3, NoFileIs DEF FilesShaped, DiskRest, TmpRest

LEMMA SwapDiscardsIs ==
  ASSUME FilesShaped, NEW f \in Files, SwapDiscards(f)
  PROVE  FilesShaped' /\ disk' = disk /\ TmpRest(f) /\ tmp'[f] = NoFile
<1>1. tmp' = [tmp EXCEPT ![f] = NoFile] /\ disk' = disk
  BY DEF SwapDiscards
<1>2. tmp' = [g \in Files |-> tmp'[g]] /\ tmp'[f] = NoFile /\ TmpRest(f)
  BY <1>1, SetFile DEF FilesShaped, TmpRest
<1> QED BY <1>1, <1>2, NoFileIs DEF FilesShaped, TmpRest

LEMMA LeavesFilesIs ==
  ASSUME FilesShaped, NEW t, LeavesFiles(t)
  PROVE  /\ FilesShaped'
         /\ \A f \in Files : LeftBy(disk'[f], disk[f], t) /\ LeftBy(tmp'[f], tmp[f], t)
BY LeftIs DEF LeavesFiles, FilesShaped, LeftBy

---------------------------------------------------------------------------
(* What is held where                                                      *)

Held(f) ==
  CASE f = "chunks" -> (SUBSET Chunks) \cup {Absent, Torn}
    [] f = "rag" -> (SUBSET Chunks) \cup {Absent, Torn}
    [] f = "sft" -> PairFiles \cup {Absent, Torn}
    [] f = "eval" -> PairFiles \cup {Absent, Torn}
    [] f = "toml" -> Configs \cup {Absent, Torn}

FileTyped(n, f) == n.data \in Held(f) /\ n.open \subseteq Tasks

FilesTyped == FilesShaped /\ \A f \in Files : FileTyped(disk[f], f) /\ FileTyped(tmp[f], f)

DataTyped ==
  /\ dir \in BOOLEAN /\ raced \subseteq {"toml", "chunks"}
  /\ told \in Configs /\ reseeded \in BOOLEAN /\ deserted \in BOOLEAN
  /\ index \in (SUBSET Chunks) \cup {Absent} /\ flags \in SUBSET Chunks
  /\ trained \in [pairs : SUBSET Pairs, from : {"nothing"} \cup Origins, calm : BOOLEAN]
  /\ calm \subseteq {"current", "index", "pairs"}

CorpusTypes ==
  [dir : BOOLEAN, manifest : {"absent", "torn", "whole"}, rag : (SUBSET Chunks) \cup {Absent, Torn},
   sft : PairFiles \cup {Absent, Torn}, eval : PairFiles \cup {Absent, Torn},
   store : (SUBSET Chunks) \cup {Absent}, calm : SUBSET {"current", "index", "pairs"}]

CorporaTyped == corpora \in [Names -> CorpusTypes]

TypesInv == FilesTyped /\ DataTyped /\ CorporaTyped /\ JobsTyped

---------------------------------------------------------------------------
LEMMA FilesKept ==
  ASSUME FilesTyped, disk' = disk, tmp' = tmp
  PROVE  FilesTyped'
BY DEF FilesTyped, FilesShaped, FileTyped

LEMMA JobsShaped == JobsTyped => Shaped /\ \A u \in Tasks : job[u].alone \in BOOLEAN
BY DEF JobsTyped, JobTyped, Shaped

LEMMA RestTyped ==
  ASSUME JobsTyped, NEW t \in Tasks, Shaped', Rest(t), job'[t].alone \in BOOLEAN, JobFormed(job'[t])
  PROVE  JobsTyped'
BY DEF JobsTyped, JobTyped, Shaped, Rest

LEMMA DoneTyped ==
  ASSUME JobsTyped, NEW t \in Tasks, Done(t)
  PROVE  JobsTyped'
<1>1. JobFormed(job'[t])
  BY DEF Done, JobFormed, Idling
<1>2. job'[t].alone \in BOOLEAN
  <2>1. IsJob(job'[t]) /\ job'[t].alone
    BY DEF Done, Shaped
  <2> QED BY <2>1 DEF Done
<1> QED BY <1>1, <1>2, RestTyped DEF Done

LEMMA MovedTyped ==
  ASSUME JobsTyped, NEW t \in Tasks, NEW at, NEW file, NEW d, NEW a, Moved(t, at, file, d, a),
         JobFormed(job'[t])
  PROVE  JobsTyped'
<1>1. job'[t].alone \in BOOLEAN
  BY DEF Moved, JobIs, JobsTyped, JobTyped
<1> QED BY <1>1, RestTyped DEF Moved

LEMMA SameForm ==
  ASSUME NEW j, JobFormed(j), NEW k,
         k.op = j.op, k.at = j.at, k.file = j.file, k.data = j.data, k.arg = j.arg
  PROVE  JobFormed(k)
BY DEF JobFormed, Idling, Creating, Updating, Deleting, Filtering, Ingesting, Building, Generating,
       Training, Evaluating, Exporting, Importing

LEMMA BegunTyped ==
  ASSUME JobsTyped, NEW t \in Tasks, NEW op, NEW at, NEW file, NEW d, NEW a,
         Begun(t, op, at, file, d, a), JobFormed(job'[t])
  PROVE  JobsTyped'
<1>1. ASSUME NEW u \in Tasks \ {t} PROVE JobTyped(job'[u])
  <2>1. JobFormed(job'[u])
    BY SameForm DEF Begun, JobsTyped, JobTyped
  <2>2. job'[u].alone \in BOOLEAN
    BY DEF Begun, JobsTyped, JobTyped
  <2> QED BY <2>1, <2>2 DEF Begun, Shaped, JobTyped
<1> QED BY <1>1 DEF Begun, Shaped, JobsTyped, JobTyped

LEMMA EndsDone == ASSUME JobsTyped, NEW t \in Tasks, Ends(t) PROVE Done(t)
BY EndsIs, JobsShaped DEF Ends, Done

\* Files whose change leaves them typed.
LEMMA DiskTyped ==
  ASSUME FilesTyped, FilesShaped', NEW f \in Files, DiskRest(f), tmp' = tmp, FileTyped(disk'[f], f)
  PROVE  FilesTyped'
BY DEF FilesTyped, DiskRest

LEMMA TmpTyped ==
  ASSUME FilesTyped, FilesShaped', NEW f \in Files, TmpRest(f), disk' = disk, FileTyped(tmp'[f], f)
  PROVE  FilesTyped'
BY DEF FilesTyped, TmpRest

LEMMA HeldSentinels == \A f \in Files : Absent \in Held(f) /\ Torn \in Held(f)
BY DEF Files, Held

LEMMA OpensTyped ==
  ASSUME FilesTyped, NEW f \in Files, NEW t \in Tasks, SwapOpens(t, f) \/ PlaceOpens(t, f)
  PROVE  FilesTyped'
<1>1. CASE SwapOpens(t, f)
  <2>1. FilesShaped' /\ disk' = disk /\ TmpRest(f) /\ OpenedBy(tmp'[f], tmp[f], t)
    BY <1>1, SwapOpensIs DEF FilesTyped
  <2>2. FileTyped(tmp'[f], f)
    BY <2>1, HeldSentinels DEF FilesTyped, FileTyped, OpenedBy
  <2> QED BY <2>1, <2>2, TmpTyped
<1>2. CASE PlaceOpens(t, f)
  <2>1. FilesShaped' /\ tmp' = tmp /\ DiskRest(f) /\ OpenedBy(disk'[f], disk[f], t)
    BY <1>2, PlaceOpensIs DEF FilesTyped
  <2>2. FileTyped(disk'[f], f)
    BY <2>1, HeldSentinels DEF FilesTyped, FileTyped, OpenedBy
  <2> QED BY <2>1, <2>2, DiskTyped
<1> QED BY <1>1, <1>2

LEMMA WritesTyped ==
  ASSUME FilesTyped, NEW f \in Files, NEW t \in Tasks, NEW d \in Held(f),
         SwapWrites(t, f, d) \/ PlaceWrites(t, f, d)
  PROVE  FilesTyped'
<1>0. ASSUME NEW n, NEW m, FileTyped(m, f), WrittenBy(n, m, t, d) PROVE FileTyped(n, f)
  BY <1>0, HeldSentinels DEF FileTyped, WrittenBy
<1>1. FilesShaped' /\ (SwapWritten(t, f, d) \/ PlaceWritten(t, f, d))
  BY SwapWritesIs, PlaceWritesIs DEF FilesTyped
<1>2. CASE WrittenBy(tmp'[f], tmp[f], t, d) /\ TmpRest(f) /\ disk' = disk
  BY <1>0, <1>1, <1>2, TmpTyped DEF FilesTyped
<1>3. CASE WrittenBy(disk'[f], disk[f], t, d) /\ DiskRest(f) /\ tmp' = tmp
  BY <1>0, <1>1, <1>3, DiskTyped DEF FilesTyped
<1>4. CASE disk' = disk /\ tmp' = tmp
  BY <1>4, FilesKept
<1> QED BY <1>1, <1>2, <1>3, <1>4 DEF SwapWritten, PlaceWritten

LEMMA RenamesTyped ==
  ASSUME FilesTyped, NEW f \in Files, SwapRenames(f) \/ SwapDiscards(f)
  PROVE  FilesTyped'
<1>0. FileTyped(NoFile, f)
  BY NoFileIs, HeldSentinels DEF FileTyped
<1>1. CASE SwapRenames(f)
  <2>1. FilesShaped' /\ DiskRest(f) /\ TmpRest(f) /\ disk'[f] = tmp[f] /\ tmp'[f] = NoFile
    BY <1>1, SwapRenamesIs DEF FilesTyped
  <2> QED BY <1>0, <2>1 DEF FilesTyped, DiskRest, TmpRest
<1>2. CASE SwapDiscards(f)
  <2>1. FilesShaped' /\ disk' = disk /\ TmpRest(f) /\ tmp'[f] = NoFile
    BY <1>2, SwapDiscardsIs DEF FilesTyped
  <2> QED BY <1>0, <2>1, TmpTyped
<1> QED BY <1>1, <1>2

LEMMA LeavesTyped ==
  ASSUME FilesTyped, NEW t, LeavesFiles(t)
  PROVE  FilesTyped'
<1>1. FilesShaped' /\ \A f \in Files : LeftBy(disk'[f], disk[f], t) /\ LeftBy(tmp'[f], tmp[f], t)
  BY LeavesFilesIs DEF FilesTyped
<1> QED BY <1>1 DEF FilesTyped, FileTyped, LeftBy

LEMMA FreshIs == Fresh \in Configs /\ SeededConfigs \subseteq Configs
BY DEF Fresh, Configs, SeededConfigs

\* Steps that change no data but the directory's.
DirOnly ==
  /\ UNCHANGED <<index, trained, flags, calm, told, reseeded>>
  /\ \/ UNCHANGED <<dir, deserted>>
     \/ dir' = TRUE /\ deserted' = (deserted \/ ~dir)

LEMMA DirOnlyTyped == ASSUME DataTyped, DirOnly, raced' = raced PROVE DataTyped'
BY DEF DataTyped, DirOnly

LEMMA MakesDirsOnly == ASSUME MakesDirs, UNCHANGED datavars PROVE DirOnly
BY DEF MakesDirs, datavars, DirOnly

LEMMA StaysOnly == ASSUME UNCHANGED <<dir, storevars, datavars>> PROVE DirOnly
BY DEF storevars, datavars, DirOnly

\* Steps of t that only move its job on.
LEMMA PlainTyped ==
  ASSUME TypesInv, NEW t \in Tasks, UNCHANGED <<filevars, storevars, datavars, corpora>>,
         raced' \subseteq {"toml", "chunks"}, JobsTyped'
  PROVE  TypesInv'
<1>1. FilesTyped'
  BY FilesKept DEF TypesInv, filevars
<1>2. DataTyped'
  BY DEF TypesInv, DataTyped, filevars, storevars, datavars
<1> QED BY <1>1, <1>2 DEF TypesInv, CorporaTyped

LEMMA BegunRaced ==
  ASSUME TypesInv, NEW t, NEW op, NEW at, NEW file, NEW d, NEW a, Begun(t, op, at, file, d, a)
  PROVE  raced' \subseteq {"toml", "chunks"}
BY DEF TypesInv, DataTyped, Begun

LEMMA JobBegun ==
  ASSUME TypesInv, NEW t \in Tasks, NEW op, NEW at, NEW file, NEW d, NEW a,
         Begins(t, Job(op, at, file, d, a))
  PROVE  Begun(t, op, at, file, d, a) /\ raced' \subseteq {"toml", "chunks"}
BY JobsShaped, BeginsIs, BegunRaced DEF TypesInv

---------------------------------------------------------------------------
(* The operations begin                                                    *)

LEMMA BeginsTyped ==
  ASSUME TypesInv, NEW t \in Tasks, NEW op, NEW at, NEW file, NEW d, NEW a,
         Begins(t, Job(op, at, file, d, a)),
         ASSUME NEW j, j.op = op, j.at = at, j.file = file, j.data = d, j.arg = a PROVE JobFormed(j),
         UNCHANGED <<filevars, storevars, datavars, corpora>>
  PROVE  TypesInv'
<1>1. Begun(t, op, at, file, d, a) /\ raced' \subseteq {"toml", "chunks"}
  BY JobBegun
<1>2. JobFormed(job'[t])
  BY <1>1 DEF Begun
<1>3. JobsTyped'
  BY <1>1, <1>2, BegunTyped DEF TypesInv
<1> QED BY <1>1, <1>3, PlainTyped

LEMMA FilterOpensTyped ==
  ASSUME TypesInv, NEW t \in Tasks, NEW ids \in (SUBSET Chunks) \ {{}}, NEW include \in BOOLEAN,
         FilterOpens(t, [ids |-> ids, include |-> include]), UNCHANGED corpora
  PROVE  TypesInv'
<1> DEFINE arg == [ids |-> ids, include |-> include]
<1>1. PICK included \in Readings("chunks", Chunks) :
        Begins(t, Job("filter", "opened", "chunks", Flagged(included, arg), arg))
  BY DEF FilterOpens
<1>2. included \in SUBSET Chunks
  <2>1. FileTyped(disk["chunks"], "chunks")
    BY DEF TypesInv, FilesTyped, Files
  <2>2. disk["chunks"].data \in (SUBSET Chunks) \cup {Absent, Torn}
    BY <2>1 DEF FileTyped, Held
  <2>3. \/ included = {} \/ included \in SUBSET Chunks
        \/ disk["chunks"].data \notin {Absent, Torn} /\ included = disk["chunks"].data
    BY DEF Readings
  <2> QED BY <2>2, <2>3
<1>3. Flagged(included, arg) \in SUBSET Chunks /\ arg \in [ids : SUBSET Chunks, include : BOOLEAN]
  BY <1>2 DEF Flagged
<1> HIDE DEF arg
<1>4. Begun(t, "filter", "opened", "chunks", Flagged(included, arg), arg)
      /\ raced' \subseteq {"toml", "chunks"}
  BY <1>1, JobBegun
<1>5. JobFormed(job'[t])
  BY <1>3, <1>4 DEF Begun, JobFormed, Filtering
<1>6. JobsTyped'
  BY <1>4, <1>5, BegunTyped DEF TypesInv
<1>7. FilesTyped'
  BY OpensTyped DEF FilterOpens, TypesInv, Files
<1> QED BY <1>4, <1>6, <1>7 DEF FilterOpens, TypesInv, DataTyped, CorporaTyped, storevars, datavars

---------------------------------------------------------------------------
(* The store                                                               *)

LEMMA PatchesTyped ==
  ASSUME TypesInv, NEW t \in Tasks, NEW field, NEW value, Patches(t, field, value), UNCHANGED <<datavars, corpora>>,
         reseeded' \in BOOLEAN,
         \/ /\ job[t].op \in {"set_synth_model", "persist_last_run_id"}
            /\ field \in {"synth_model", "last_run_id"} /\ value \in BOOLEAN
         \/ job[t].op \in Generators /\ field = "seed" /\ value \in Seeds
  PROVE  TypesInv' /\ Moved(t, "config", job[t].file, job[t].data, [disk["toml"].data EXCEPT ![field] = value])
<1> DEFINE c == [disk["toml"].data EXCEPT ![field] = value]
<1>1. c \in Configs /\ (field = "seed" => c \in SeededConfigs)
  BY DEF Patches, Gets, Configs, SeededConfigs
<1> HIDE DEF c
<1>2. Moved(t, "config", job[t].file, job[t].data, c) /\ job[t].at = "get"
  BY PatchIs, JobsShaped DEF Patches, Gets, c, TypesInv
<1>3. JobFormed(job[t])
  BY DEF TypesInv, JobsTyped, JobTyped
<1>4. job[t].file = "none"
  BY <1>2, <1>3 DEF JobFormed, Idling, Creating, Updating, Deleting, Filtering, Ingesting, Building,
     Generating, Training, Evaluating, Exporting, Importing
<1>5. JobFormed(job'[t])
  BY <1>1, <1>2, <1>4 DEF Moved, JobIs, JobFormed, Updating, Generating, Generators
<1>6. JobsTyped'
  BY <1>2, <1>5, MovedTyped DEF TypesInv
<1>7. FilesTyped'
  BY FilesKept DEF Patches, TypesInv, filevars
<1>8. DataTyped'
  BY <1>2 DEF Patches, TypesInv, DataTyped, datavars, filevars
<1> QED BY <1>2, <1>6, <1>7, <1>8 DEF TypesInv, CorporaTyped, c

LEMMA StoreTyped ==
  ASSUME TypesInv, NEW t \in Tasks, StoreStep(t), UNCHANGED <<datavars, corpora>>
  PROVE  TypesInv'
<1>0. JobFormed(job[t]) /\ FileTyped(disk["toml"], "toml")
  BY DEF TypesInv, JobsTyped, JobTyped, FilesTyped, Files
<1>1. CASE CreateChecks(t)
  BY <1>1, BeginsTyped DEF CreateChecks, JobFormed, Creating
<1>2. CASE CreateMakesDirs(t)
  <2>1. Moved(t, "config", job[t].file, job[t].data, Fresh) /\ job[t].at = "dirs"
    BY <1>2, PatchIs, JobsShaped DEF CreateMakesDirs, TypesInv
  <2>2. job[t].op = "create" /\ job[t].file = "none"
    BY <1>0, <2>1 DEF JobFormed, Idling, Creating, Updating, Deleting, Filtering, Ingesting, Building,
       Generating, Training, Evaluating, Exporting, Importing
  <2>3. JobsTyped'
    BY <2>1, <2>2, MovedTyped DEF TypesInv, Moved, JobIs, JobFormed, Creating
  <2>4. FilesTyped'
    BY <1>2, FilesKept DEF CreateMakesDirs, TypesInv
  <2> QED BY <1>2, <2>3, <2>4 DEF CreateMakesDirs, TypesInv, DataTyped, CorporaTyped, datavars
<1>3. ASSUME NEW op \in {"set_synth_model", "persist_last_run_id"}, UpdateBegins(t, op) PROVE TypesInv'
  BY <1>3, BeginsTyped DEF UpdateBegins, JobFormed, Updating
<1>4. CASE UpdatePatches(t)
  <2>1. reseeded' \in BOOLEAN
    BY <1>4 DEF UpdatePatches, TypesInv, DataTyped
  <2> QED BY <1>4, <2>1, PatchesTyped DEF UpdatePatches
<1>5. ASSUME NEW s \in Seeds, SeedExplicit(t, s) \/ SeedFresh(t, s) PROVE TypesInv'
  <2>1. reseeded' \in BOOLEAN
    BY <1>5 DEF SeedExplicit, SeedFresh, TypesInv, DataTyped
  <2> QED BY <1>5, <2>1, PatchesTyped DEF SeedExplicit, SeedFresh, Generators
<1>6. CASE SeedStored(t)
  <2>1. Moved(t, "work", job[t].file, job[t].data, disk["toml"].data)
    BY <1>6, PatchIs, JobsShaped DEF SeedStored, TypesInv
  <2>2. job[t].at = "get" /\ job[t].op \in Generators /\ disk["toml"].data \in SeededConfigs
    BY <1>6 DEF SeedStored, Gets, Generators, SeededConfigs, Configs
  <2>3. job[t].file = "none"
    BY <1>0, <2>2 DEF JobFormed, Idling, Creating, Updating, Deleting, Filtering, Ingesting, Building,
       Generating, Training, Evaluating, Exporting, Importing
  <2>4. JobFormed(job'[t])
    BY <2>1, <2>2, <2>3 DEF Moved, JobIs, JobFormed, Generating
  <2>5. JobsTyped' /\ raced' = raced
    BY <2>1, <2>4, MovedTyped DEF TypesInv, Moved
  <2> QED BY <1>6, <2>5, PlainTyped DEF SeedStored, TypesInv, DataTyped
<1>7. CASE ConfigOpens(t)
  <2>1. Moved(t, "config_opened", job[t].file, job[t].data, job[t].arg) /\ job[t].at = "config"
    BY <1>7, GoesIs, JobsShaped DEF ConfigOpens, TypesInv
  <2>2. JobFormed(job'[t])
    BY <1>0, <2>1 DEF Moved, JobIs, JobFormed, Idling, Creating, Updating, Deleting, Filtering, Ingesting,
       Building,
       Generating, Training, Evaluating, Exporting, Importing
  <2>3. JobsTyped' /\ raced' = raced
    BY <2>1, <2>2, MovedTyped DEF TypesInv, Moved
  <2>4. FilesTyped'
    BY <1>7, OpensTyped DEF ConfigOpens, TypesInv, Files
  <2> QED BY <1>7, <2>3, <2>4 DEF ConfigOpens, TypesInv, DataTyped, CorporaTyped, datavars, storevars
<1>8. CASE ConfigWrites(t)
  <2>0. job[t].at = "config_opened"
    BY <1>8 DEF ConfigWrites
  <2>1. job[t].arg \in Configs
    BY <1>0, <2>0, FreshIs DEF JobFormed, Idling, Creating, Updating, Deleting, Filtering, Ingesting, Building,
       Generating, Training, Evaluating, Exporting, Importing
  <2>2. told' \in Configs
    <3>1. CASE job[t].op = "create"
      BY <1>8, <3>1 DEF ConfigWrites, Fresh, Configs
    <3>2. CASE job[t].op # "create"
      BY <1>8, <2>1, <3>2 DEF ConfigWrites, TypesInv, DataTyped, Configs, Field
    <3> QED BY <3>1, <3>2
  <2>3. JobsTyped' /\ raced' = raced
    <3>1. CASE job[t].op \in Generators
      <4>1. Moved(t, "work", job[t].file, job[t].data, job[t].arg)
        BY <1>8, <3>1, GoesIs, JobsShaped DEF ConfigWrites, TypesInv, Generators
      <4>2. JobFormed(job'[t])
        BY <1>0, <2>0, <3>1, <4>1 DEF Moved, JobIs, JobFormed, Idling, Creating, Updating, Deleting,
           Filtering, Ingesting, Building,
           Generating, Training, Evaluating, Exporting, Importing, Generators
      <4> QED BY <4>1, <4>2, MovedTyped DEF TypesInv, Moved
    <3>2. CASE job[t].op \notin Generators
      <4>1. Done(t)
        BY <1>8, <3>2, EndsDone DEF ConfigWrites, TypesInv, Generators
      <4> QED BY <4>1, DoneTyped DEF TypesInv, Done
    <3> QED BY <3>1, <3>2
  <2>4. FilesTyped'
    <3>1. job[t].arg \in Held("toml")
      BY <2>1 DEF Held
    <3> QED BY <1>8, <3>1, WritesTyped DEF ConfigWrites, TypesInv, Files
  <2> QED BY <1>8, <2>2, <2>3, <2>4 DEF ConfigWrites, TypesInv, DataTyped, CorporaTyped, datavars
<1> QED BY <1>1, <1>2, <1>3, <1>4, <1>5, <1>6, <1>7, <1>8 DEF StoreStep

LEMMA DeletesTyped ==
  ASSUME TypesInv, NEW t \in Tasks, Deletes(t)
  PROVE  TypesInv'
<1>0. JobFormed(job[t])
  BY DEF TypesInv, JobsTyped, JobTyped
<1>1. CASE DeleteChecks(t) /\ UNCHANGED <<datavars, corpora>>
  BY <1>1, BeginsTyped DEF DeleteChecks, JobFormed, Deleting
<1>2. CASE DeleteRemovesSome(t) /\ index' \in {index, Absent} /\ calm' = {} /\ UNCHANGED <<trained, flags, corpora>>
  <2>1. Moved(t, "rmdir", job[t].file, job[t].data, job[t].arg) /\ job[t].at = "remove"
    BY <1>2, GoesIs, JobsShaped DEF DeleteRemovesSome, TypesInv
  <2>2. JobFormed(job'[t])
    BY <1>0, <2>1 DEF Moved, JobIs, JobFormed, Idling, Creating, Updating, Deleting, Filtering, Ingesting,
       Building,
       Generating, Training, Evaluating, Exporting, Importing
  <2>3. JobsTyped' /\ raced' = raced
    BY <2>1, <2>2, MovedTyped DEF TypesInv, Moved
  <2>4. PICK gone : disk' = [f \in Files |-> IF f \in gone THEN NoFile ELSE disk[f]]
    BY <1>2 DEF DeleteRemovesSome
  <2>5. FilesTyped'
    BY <1>2, <2>4, NoFileIs, HeldSentinels DEF DeleteRemovesSome, TypesInv, FilesTyped, FilesShaped, FileTyped
  <2> QED BY <1>2, <2>3, <2>5 DEF DeleteRemovesSome, TypesInv, DataTyped, CorporaTyped, storevars
<1>3. CASE DeleteRemovesDir(t) /\ index' = Absent /\ calm' = {} /\ trained' = Untrained /\ UNCHANGED <<flags, corpora>>
  <2>1. JobsTyped'
    <3>1. /\ Shaped' /\ Rest(t)
          /\ job'[t].op = "none" /\ job'[t].at = "idle" /\ job'[t].file = "none" /\ job'[t].alone
      BY <1>3, EndsIs, JobsShaped DEF DeleteRemovesDir, TypesInv
    <3>2. job' = [job EXCEPT ![t] = Idle]
      BY <1>3 DEF DeleteRemovesDir
    <3>3. job'[t].alone \in BOOLEAN
      BY <3>2 DEF TypesInv, JobsTyped, Idle, Job
    <3> QED BY <3>1, <3>3, RestTyped DEF TypesInv, JobFormed, Idling
  <2>2. FilesTyped'
    BY <1>3, NoFileIs, HeldSentinels DEF DeleteRemovesDir, TypesInv, FilesTyped, FilesShaped, FileTyped
  <2>3. trained' \in [pairs : SUBSET Pairs, from : {"nothing"} \cup Origins, calm : BOOLEAN]
    BY <1>3 DEF Untrained
  <2>4. DataTyped'
    BY <1>3, <2>3 DEF DeleteRemovesDir, TypesInv, DataTyped
  <2> QED BY <1>3, <2>1, <2>2, <2>4 DEF TypesInv, CorporaTyped
<1> QED BY <1>1, <1>2, <1>3 DEF Deletes

---------------------------------------------------------------------------
(* The data sets                                                           *)

\* Steps of t that carry its job on, keep a data set's types and leave the
\* library as it is.
LEMMA DataStepTyped ==
  ASSUME TypesInv, NEW t \in Tasks, NEW at, NEW file, NEW d, NEW a, Moved(t, at, file, d, a),
         JobFormed(job'[t]), FilesTyped', DataTyped', corpora' = corpora
  PROVE  TypesInv'
<1>1. JobsTyped'
  BY MovedTyped DEF TypesInv
<1> QED BY <1>1 DEF TypesInv, CorporaTyped

LEMMA DataEndTyped ==
  ASSUME TypesInv, NEW t \in Tasks, Ends(t), FilesTyped', DataTyped', corpora' = corpora
  PROVE  TypesInv'
<1>1. JobsTyped'
  BY EndsDone, DoneTyped DEF TypesInv
<1> QED BY <1>1 DEF TypesInv, CorporaTyped

LEMMA ReadTyped ==
  ASSUME FilesTyped, NEW included \in Readings("chunks", Chunks)
  PROVE  included \in SUBSET Chunks
<1>1. FileTyped(disk["chunks"], "chunks")
  BY DEF FilesTyped, Files
<1>2. disk["chunks"].data \in (SUBSET Chunks) \cup {Absent, Torn}
  BY <1>1 DEF FileTyped, Held
<1>3. \/ included = {} \/ included \in SUBSET Chunks
      \/ disk["chunks"].data \notin {Absent, Torn} /\ included = disk["chunks"].data
  BY DEF Readings
<1> QED BY <1>2, <1>3

LEMMA SplitTyped ==
  ASSUME NEW ps \in SUBSET Pairs, NEW held \in SUBSET ps, NEW from \in Origins
  PROVE  Split(ps, held, from) \in Parts
BY DEF Split, Parts, PairFile, PairFiles

\* What a request draws and holds out with a seed.
LEMMA DrawnIs ==
  ASSUME NEW q \in Requests, NEW seed \in Seeds
  PROVE  Drawn[q][seed] \in SUBSET Pairs /\ HeldOut[q][seed] \in SUBSET Drawn[q][seed]
BY DatasetsAssumption

LEMMA JobsFormed == ASSUME TypesInv, NEW t \in Tasks PROVE JobFormed(job[t])
BY DEF TypesInv, JobsTyped, JobTyped

\* What an operation under way tells of its job.
FormOfOp(j) ==
  /\ j.op = "build" => Building(j)
  /\ j.op \in Generators => Generating(j)
  /\ j.op = "eval" => Evaluating(j)
  /\ j.op = "export" => Exporting(j)
  /\ j.op = "import" => Importing(j)

LEMMA FormOf == ASSUME TypesInv, NEW t \in Tasks PROVE FormOfOp(job[t])
BY JobsFormed DEF JobFormed, Idling, Creating, Updating, Deleting, Filtering, Ingesting, Building,
   Generating, Training, Evaluating, Exporting, Importing, Generators, FormOfOp

LEMMA SwapSteps ==
  ASSUME TypesInv, NEW t \in Tasks, SwapBegins(t) \/ WritesLines(t), UNCHANGED corpora
  PROVE  TypesInv'
<1>0. JobFormed(job[t])
  BY JobsFormed
<1>1. CASE SwapBegins(t)
  <2>1. Moved(t, "opened", job[t].file, job[t].data, job[t].arg) /\ job[t].at = "open"
    BY <1>1, GoesIs, JobsShaped DEF SwapBegins, TypesInv
  <2>2. JobFormed(job'[t]) /\ job[t].file \in Files
    BY <1>0, <2>1 DEF Moved, JobIs, JobFormed, Idling, Creating, Updating, Deleting, Filtering, Ingesting,
       Building,
       Generating, Training, Evaluating, Exporting, Importing, Files
  <2>3. FilesTyped'
    BY <1>1, <2>2, OpensTyped DEF SwapBegins, TypesInv
  <2>4. DirOnly
    BY <1>1, MakesDirsOnly, StaysOnly DEF SwapBegins, storevars
  <2>5. DataTyped'
    BY <2>1, <2>4, DirOnlyTyped DEF TypesInv, Moved
  <2> QED BY <2>1, <2>2, <2>3, <2>5, DataStepTyped
<1>2. CASE WritesLines(t)
  <2>1. Moved(t, "written", job[t].file, job[t].data, job[t].arg) /\ job[t].at = "opened"
    BY <1>2, GoesIs, JobsShaped DEF WritesLines, TypesInv
  <2>2. JobFormed(job'[t]) /\ job[t].file \in Files
    BY <1>0, <1>2, <2>1 DEF WritesLines, Moved, JobIs, JobFormed, Idling, Creating, Updating, Deleting,
       Filtering, Ingesting, Building,
       Generating, Training, Evaluating, Exporting, Importing, Files
  <2> DEFINE d == IF job[t].file \in {"sft", "eval"} THEN job[t].data[job[t].file] ELSE job[t].data
  <2>3. d \in Held(job[t].file)
    <3>1. CASE Filtering(job[t]) \/ Ingesting(job[t])
      BY <3>1 DEF Filtering, Ingesting, Held
    <3>2. CASE Building(job[t])
      BY <2>1, <3>2 DEF Building, Held
    <3>3. CASE Generating(job[t])
      <4>1. SplitBy(job[t].op, job[t].data, job[t].arg.seed) /\ job[t].file \in {"sft", "eval"}
        BY <2>1, <3>3 DEF Generating
      <4>2. PICK ps \in SUBSET Pairs, held \in SUBSET Pairs, from \in Origins :
              held \subseteq ps /\ job[t].data = Split(ps, held, from)
        BY <4>1 DEF SplitBy
      <4>3. job[t].data \in Parts
        BY <4>2, SplitTyped
      <4>4. job[t].data["sft"] \in PairFiles /\ job[t].data["eval"] \in PairFiles
        BY <4>3 DEF Parts
      <4> QED BY <4>1, <4>4 DEF Held
    <3> QED BY <1>0, <2>1, <3>1, <3>2, <3>3 DEF JobFormed, Idling, Creating, Updating, Deleting, Training,
       Evaluating, Exporting, Importing
  <2> HIDE DEF d
  <2>4. SwapWrites(t, job[t].file, d)
    BY <1>2 DEF WritesLines, d
  <2>5. FilesTyped'
    BY <2>2, <2>3, <2>4, WritesTyped DEF TypesInv
  <2>6. DataTyped'
    BY <1>2, <2>1, StaysOnly, DirOnlyTyped DEF WritesLines, TypesInv, Moved
  <2> QED BY <2>1, <2>2, <2>5, <2>6, DataStepTyped
<1> QED BY <1>1, <1>2

LEMMA ChunkSteps ==
  ASSUME TypesInv, NEW t \in Tasks, UNCHANGED corpora,
         \/ \E kept \in {{}, Chunks} : IngestRetries(t, kept) \/ IngestRenamesTwice(t, kept)
         \/ FilterRenames(t) \/ IngestRenames(t) \/ IngestKeepsNothing(t)
  PROVE  TypesInv'
<1>0. JobFormed(job[t]) /\ "chunks" \in Files
  BY JobsFormed DEF Files
<1>r. ASSUME NEW kept \in {{}, Chunks}, RunsAgain(t, kept), job[t].op = "ingest"
      PROVE  Moved(t, "open", job[t].file, kept, "retry") /\ JobFormed(job'[t])
  <2>1. Moved(t, "open", job[t].file, kept, "retry")
    BY <1>r, AgainIs, JobsShaped DEF TypesInv
  <2>2. Ingesting(job[t])
    BY <1>0, <1>r DEF JobFormed, Idling, Creating, Updating, Deleting, Filtering, Building,
       Generating, Training, Evaluating, Exporting, Importing, Generators
  <2>3. Ingesting(job'[t])
    BY <1>r, <2>1, <2>2 DEF Moved, JobIs, Ingesting
  <2> QED BY <2>1, <2>3 DEF JobFormed
<1>1. ASSUME NEW kept \in {{}, Chunks}, IngestRetries(t, kept) PROVE TypesInv'
  <2>1. Moved(t, "open", job[t].file, kept, "retry") /\ JobFormed(job'[t])
    BY <1>1, <1>r DEF IngestRetries
  <2>3. FilesTyped'
    BY <1>1, LeavesTyped DEF IngestRetries, TypesInv
  <2>4. DataTyped'
    BY <1>1, <2>1, StaysOnly, DirOnlyTyped DEF IngestRetries, TypesInv, Moved
  <2> QED BY <2>1, <2>3, <2>4, DataStepTyped
<1>2. ASSUME NEW included \in SUBSET Chunks, ChunksRename(t, included), raced' = raced
      PROVE  FilesTyped' /\ DataTyped'
  <2>1. FilesTyped'
    BY <1>0, <1>2, RenamesTyped DEF ChunksRename, TypesInv
  <2>2. DataTyped'
    BY <1>2 DEF ChunksRename, TypesInv, DataTyped, storevars
  <2> QED BY <2>1, <2>2
<1>3. CASE FilterRenames(t)
  <2>1. job[t].arg.ids \in SUBSET Chunks
    BY <1>0, <1>3 DEF FilterRenames, JobFormed, Idling, Creating, Updating, Deleting, Filtering, Ingesting,
       Building,
       Generating, Training, Evaluating, Exporting, Importing, Generators
  <2>2. Flagged(flags, job[t].arg) \in SUBSET Chunks
    BY <2>1 DEF Flagged, TypesInv, DataTyped
  <2>3. FilesTyped' /\ DataTyped'
    BY <1>2, <1>3, <2>2 DEF FilterRenames, Ends
  <2> QED BY <1>3, <2>3, DataEndTyped DEF FilterRenames
<1>4. ASSUME job[t].op = "ingest" PROVE job[t].data \in SUBSET Chunks
  BY <1>0, <1>4 DEF JobFormed, Idling, Creating, Updating, Deleting, Filtering, Ingesting,
     Building, Generating, Training, Evaluating, Exporting, Importing, Generators
<1>4a. CASE IngestRenames(t)
  <2>1. FilesTyped' /\ DataTyped'
    BY <1>2, <1>4, <1>4a DEF IngestRenames, Ends
  <2> QED BY <1>4a, <2>1, DataEndTyped DEF IngestRenames
<1>4b. ASSUME NEW kept \in {{}, Chunks}, IngestRenamesTwice(t, kept) PROVE TypesInv'
  <2>1. Moved(t, "open", job[t].file, kept, "retry") /\ JobFormed(job'[t])
    BY <1>4b, <1>r DEF IngestRenamesTwice
  <2>2. FilesTyped' /\ DataTyped'
    BY <1>2, <1>4, <1>4b, <2>1 DEF IngestRenamesTwice, Moved
  <2> QED BY <2>1, <2>2, DataStepTyped
<1>5. CASE IngestKeepsNothing(t)
  <2>1. FilesTyped'
    BY <1>0, <1>5, RenamesTyped DEF IngestKeepsNothing, TypesInv
  <2>2. DataTyped'
    BY <1>5, StaysOnly, DirOnlyTyped DEF IngestKeepsNothing, TypesInv, Ends
  <2> QED BY <1>5, <2>1, <2>2, DataEndTyped DEF IngestKeepsNothing
<1> QED BY <1>1, <1>3, <1>4a, <1>4b, <1>5

LEMMA BuildSteps ==
  ASSUME TypesInv, NEW t \in Tasks, UNCHANGED corpora,
         \/ BuildCopies(t) \/ RagRenames(t)
         \/ EmbedReads(t) \/ EmbedSkips(t) \/ EmbedDeletes(t) \/ EmbedAdds(t)
  PROVE  TypesInv'
<1>0. JobFormed(job[t]) /\ "rag" \in Files
  BY JobsFormed DEF Files
<1> USE DEF JobFormed, Idling, Creating, Updating, Deleting, Filtering, Ingesting, Building,
       Generating, Training, Evaluating, Exporting, Importing
<1>1. CASE BuildCopies(t)
  <2>1. PICK included \in SUBSET Chunks : Carries(t, "opened", "opened", "rag", included)
    BY <1>1, ReadTyped DEF BuildCopies, TypesInv
  <2>2. Moved(t, "opened", "rag", included, job[t].arg)
    BY <2>1, CarriesIs, JobsShaped DEF TypesInv
  <2>3. JobFormed(job'[t])
    BY <1>1, <2>2 DEF BuildCopies, Moved, JobIs
  <2>4. FilesTyped' /\ DataTyped'
    BY <1>1, <2>2, FilesKept, StaysOnly, DirOnlyTyped DEF BuildCopies, TypesInv, filevars, Moved
  <2> QED BY <1>1, <2>2, <2>3, <2>4, DataStepTyped DEF BuildCopies
<1>2. CASE RagRenames(t)
  <2>1. Moved(t, "embed", "rag", job[t].data, job[t].arg) /\ job[t].at = "written" /\ job[t].file = "rag"
    BY <1>2, CarriesIs, JobsShaped DEF RagRenames, TypesInv
  <2>2. JobFormed(job'[t])
    BY <1>0, <2>1 DEF Moved, JobIs
  <2>3. FilesTyped'
    BY <1>0, <1>2, RenamesTyped DEF RagRenames, TypesInv
  <2>4. DataTyped'
    BY <1>2, <2>1 DEF RagRenames, TypesInv, DataTyped, storevars, Moved
  <2> QED BY <1>2, <2>1, <2>2, <2>3, <2>4, DataStepTyped DEF RagRenames
<1>3. CASE EmbedReads(t)
  <2>1. PICK included \in SUBSET Chunks : Carries(t, "embed", "delete", "none", included)
    BY <1>3, ReadTyped DEF EmbedReads, TypesInv
  <2>2. Moved(t, "delete", "none", included, job[t].arg) /\ job[t].at = "embed"
    BY <2>1, CarriesIs, JobsShaped DEF TypesInv
  <2>3. JobFormed(job'[t])
    BY <1>0, <1>3, <2>2 DEF EmbedReads, Moved, JobIs
  <2>4. FilesTyped' /\ DataTyped'
    BY <1>3, <2>2, FilesKept, StaysOnly, DirOnlyTyped DEF EmbedReads, TypesInv, filevars, Moved
  <2> QED BY <1>3, <2>2, <2>3, <2>4, DataStepTyped DEF EmbedReads
<1>4. CASE EmbedSkips(t)
  <2>1. FilesTyped' /\ DataTyped'
    BY <1>4, FilesKept, StaysOnly, DirOnlyTyped DEF EmbedSkips, TypesInv, filevars, Ends
  <2> QED BY <1>4, <2>1, DataEndTyped DEF EmbedSkips
<1>5. CASE EmbedDeletes(t)
  <2>1. Moved(t, "add", job[t].file, job[t].data, job[t].arg) /\ job[t].at = "delete"
    BY <1>5, GoesIs, JobsShaped DEF EmbedDeletes, TypesInv
  <2>2. JobFormed(job'[t])
    BY <1>0, <2>1 DEF Moved, JobIs
  <2>3. FilesTyped'
    BY <1>5, FilesKept DEF EmbedDeletes, TypesInv
  <2>4. index' \in (SUBSET Chunks) \cup {Absent}
    BY <1>5 DEF EmbedDeletes, TypesInv, DataTyped
  <2>5. DataTyped'
    BY <1>5, <2>1, <2>4 DEF EmbedDeletes, MakesDirs, TypesInv, DataTyped, Moved
  <2> QED BY <1>5, <2>1, <2>2, <2>3, <2>5, DataStepTyped DEF EmbedDeletes
<1>6. CASE EmbedAdds(t)
  <2>1. FilesTyped'
    BY <1>6, FilesKept DEF EmbedAdds, TypesInv, filevars
  <2>2. job[t].data \in SUBSET Chunks
    BY <1>0, <1>6 DEF EmbedAdds
  <2>3. index' \in (SUBSET Chunks) \cup {Absent}
    BY <1>6, <2>2 DEF EmbedAdds, TypesInv, DataTyped, Rows
  <2>4. DataTyped'
    BY <1>6, <2>3 DEF EmbedAdds, TypesInv, DataTyped, Ends, filevars, storevars
  <2> QED BY <1>6, <2>1, <2>4, DataEndTyped DEF EmbedAdds
<1> QED BY <1>1, <1>2, <1>3, <1>4, <1>5, <1>6

LEMMA PairSteps ==
  ASSUME TypesInv, NEW t \in Tasks, UNCHANGED corpora,
         \/ \E ps, held \in SUBSET Pairs : Synthesizes(t, ps, held)
         \/ (\E q \in Requests : Downloads(t, q)) \/ SftRenames(t) \/ EvalRenames(t)
  PROVE  TypesInv'
<1>0. JobFormed(job[t]) /\ "sft" \in Files /\ "eval" \in Files
  BY JobsFormed DEF Files
<1> USE DEF JobFormed, Idling, Creating, Updating, Deleting, Filtering, Ingesting, Building,
       Generating, Training, Evaluating, Exporting, Importing
<1>1. ASSUME NEW ps \in SUBSET Pairs, NEW held \in SUBSET Pairs, Synthesizes(t, ps, held) PROVE TypesInv'
  <2>1. /\ Moved(t, "open", "sft", Split(ps, held, "synth"), job[t].arg)
        /\ job[t].at = "work" /\ job[t].op = "generate"
    BY <1>1, CarriesIs, JobsShaped DEF Synthesizes, TypesInv
  <2>2. job[t].arg \in SeededConfigs
    BY <1>0, <2>1
  <2>3. SplitBy("generate", Split(ps, held, "synth"), job[t].arg.seed)
    BY <1>1 DEF Synthesizes, SplitBy, Origins
  <2>4. Generating(job'[t])
    BY <2>1, <2>2, <2>3 DEF Moved, JobIs, Generators
  <2>5. FilesTyped' /\ DataTyped'
    BY <1>1, <2>1, FilesKept, StaysOnly, DirOnlyTyped DEF Synthesizes, TypesInv, filevars, Moved
  <2> QED BY <2>1, <2>4, <2>5, DataStepTyped
<1>2. ASSUME NEW q \in Requests, Downloads(t, q) PROVE TypesInv'
  <2> DEFINE ps == Drawn[q][job[t].arg.seed]
             held == HeldOut[q][job[t].arg.seed]
  <2>1. /\ Moved(t, "open", "sft", Split(ps, held, q), job[t].arg)
        /\ job[t].at = "work" /\ job[t].op = "import_hf"
    BY <1>2, CarriesIs, JobsShaped DEF Downloads, Carries, TypesInv
  <2>2. job[t].arg \in SeededConfigs
    BY <1>0, <2>1
  <2>3. ps \in SUBSET Pairs /\ held \in SUBSET ps
    BY <2>2, DrawnIs DEF SeededConfigs
  <2>4. SplitBy("import_hf", Split(ps, held, q), job[t].arg.seed)
    <3>1. q \in Origins
      BY DEF Origins
    <3> QED BY <2>3, <3>1 DEF SplitBy
  <2> HIDE DEF ps, held
  <2>5. Generating(job'[t])
    BY <2>1, <2>2, <2>4 DEF Moved, JobIs, Generators
  <2>6. FilesTyped' /\ DataTyped'
    BY <1>2, <2>1, FilesKept, StaysOnly, DirOnlyTyped DEF Downloads, TypesInv, filevars, Moved
  <2> QED BY <2>1, <2>5, <2>6, DataStepTyped
<1>3. CASE SftRenames(t)
  <2>1. Moved(t, "open", "eval", job[t].data, job[t].arg) /\ job[t].at = "written" /\ job[t].file = "sft"
    BY <1>3, CarriesIs, JobsShaped DEF SftRenames, TypesInv
  <2>2. JobFormed(job'[t])
    BY <1>0, <2>1 DEF Moved, JobIs
  <2>3. FilesTyped'
    BY <1>0, <1>3, RenamesTyped DEF SftRenames, TypesInv
  <2>4. DataTyped'
    BY <1>3, <2>1 DEF SftRenames, TypesInv, DataTyped, storevars, Moved
  <2> QED BY <2>1, <2>2, <2>3, <2>4, DataStepTyped
<1>4. CASE EvalRenames(t)
  <2>1. FilesTyped'
    BY <1>0, <1>4, RenamesTyped DEF EvalRenames, TypesInv
  <2>2. DataTyped'
    BY <1>4 DEF EvalRenames, TypesInv, DataTyped, Ends, storevars
  <2> QED BY <1>4, <2>1, <2>2, DataEndTyped DEF EvalRenames
<1> QED BY <1>1, <1>2, <1>3, <1>4

LEMMA UseSteps ==
  ASSUME TypesInv, NEW t \in Tasks, UNCHANGED corpora,
         \/ TrainLoads(t) \/ (\E p \in Pairs, fails \in BOOLEAN : EvalScores(t, p, fails))
         \/ EvalGathers(t) \/ EvalReports(t)
  PROVE  TypesInv'
<1>0. JobFormed(job[t])
  BY JobsFormed
<1> USE DEF JobFormed, Idling, Creating, Updating, Deleting, Filtering, Ingesting, Building,
       Generating, Training, Evaluating, Exporting, Importing
<1>1. CASE TrainLoads(t)
  <2>1. FilesTyped'
    BY <1>1, FilesKept DEF TrainLoads, TypesInv, filevars
  <2>2. FileTyped(disk["sft"], "sft")
    BY DEF TypesInv, FilesTyped, Files
  <2>3. disk["sft"].data \in PairFiles \cup {Torn}
    BY <1>1, <2>2 DEF FileTyped, Held, TrainLoads, Present
  <2> DEFINE ok == "pairs" \in calm
             from == IF disk["sft"].data = Torn THEN "nothing" ELSE disk["sft"].data.from
  <2>4. PICK ps \in IF disk["sft"].data = Torn THEN SUBSET Pairs ELSE {disk["sft"].data.pairs} :
          trained' = [pairs |-> ps, calm |-> ok, from |-> from]
    BY <1>1 DEF TrainLoads
  <2>5. ps \in SUBSET Pairs /\ from \in {"nothing"} \cup Origins /\ ok \in BOOLEAN
    BY <2>3, <2>4 DEF PairFiles
  <2> HIDE DEF ok, from
  <2>6. trained' \in [pairs : SUBSET Pairs, from : {"nothing"} \cup Origins, calm : BOOLEAN]
    BY <2>4, <2>5
  <2>7. DataTyped'
    BY <1>1, <2>6 DEF TrainLoads, TypesInv, DataTyped, Ends, storevars, filevars
  <2> QED BY <1>1, <2>1, <2>7, DataEndTyped DEF TrainLoads
<1>2. ASSUME NEW p \in Pairs, NEW fails \in BOOLEAN, EvalScores(t, p, fails) PROVE TypesInv'
  <2>1. job[t].at = "score"
    BY <1>2 DEF EvalScores
  <2>2. Evaluating(job[t])
    BY <1>0, <2>1
  <2> DEFINE d == job[t].data \ {p}
             a == [missed |-> job[t].arg.missed \cup (IF Retrievable(p) /\ ~fails THEN {} ELSE {p}),
                   failed |-> job[t].arg.failed \cup (IF fails THEN {p} ELSE {})]
  <2>3. job' = [job EXCEPT ![t].data = d, ![t].arg = a]
    BY <1>2 DEF EvalScores
  <2>4. d \in SUBSET Pairs /\ a \in [missed : SUBSET Pairs, failed : SUBSET Pairs]
    BY <2>2
  <2> HIDE DEF d, a
  <2>5. Moved(t, job[t].at, job[t].file, d, a)
    BY <1>2, <2>3, ScoreIs, JobsShaped DEF EvalScores, TypesInv
  <2>6. JobFormed(job'[t])
    BY <2>1, <2>2, <2>4, <2>5 DEF Moved, JobIs
  <2>7. FilesTyped' /\ DataTyped'
    BY <1>2, <2>5, FilesKept, StaysOnly, DirOnlyTyped DEF EvalScores, TypesInv, filevars, Moved
  <2> QED BY <2>5, <2>6, <2>7, DataStepTyped
<1>3. CASE EvalGathers(t)
  <2>1. Moved(t, "report", job[t].file, job[t].data, job[t].arg) /\ job[t].at = "score"
    BY <1>3, GoesIs, JobsShaped DEF EvalGathers, TypesInv
  <2>2. JobFormed(job'[t])
    BY <1>0, <2>1 DEF Moved, JobIs
  <2>3. FilesTyped' /\ DataTyped'
    BY <1>3, <2>1, FilesKept, StaysOnly, DirOnlyTyped DEF EvalGathers, TypesInv, filevars, Moved
  <2> QED BY <2>1, <2>2, <2>3, DataStepTyped
<1>4. CASE EvalReports(t)
  <2>1. FilesTyped'
    BY <1>4, FilesKept DEF EvalReports, TypesInv
  <2>2. DataTyped'
    BY <1>4, MakesDirsOnly, DirOnlyTyped DEF EvalReports, TypesInv, Ends
  <2> QED BY <1>4, <2>1, <2>2, DataEndTyped DEF EvalReports
<1> QED BY <1>1, <1>2, <1>3, <1>4

LEMMA DataTypedSteps ==
  ASSUME TypesInv, NEW t \in Tasks, DataStep(t), UNCHANGED corpora
  PROVE  TypesInv'
<1>1. ASSUME NEW kept \in {{}, Chunks}, IngestBegins(t, kept) PROVE TypesInv'
  BY <1>1, BeginsTyped DEF IngestBegins, JobFormed, Ingesting
<1>2. CASE BuildBegins(t)
  BY <1>2, BeginsTyped DEF BuildBegins, JobFormed, Building
<1>3. CASE GenerateBegins(t)
  <2>1. PICK included : Begins(t, Job("generate", "get", "none", included, Absent))
    BY <1>3 DEF GenerateBegins
  <2> QED BY <1>3, <2>1, BeginsTyped DEF GenerateBegins, JobFormed, Generating, Generators
<1>4. CASE ImportHfBegins(t)
  BY <1>4, BeginsTyped DEF ImportHfBegins, JobFormed, Generating, Generators
<1>5. CASE TrainBegins(t)
  BY <1>5, BeginsTyped DEF TrainBegins, JobFormed, Training
<1>6. CASE EvalLoads(t)
  <2> DEFINE r(ps) == IF disk["eval"].data # Torn /\ disk["eval"].data.from \in Requests THEN {} ELSE ps
             a == [missed |-> {}, failed |-> {}]
  <2>1. PICK ps \in IF disk["eval"].data = Torn THEN SUBSET Pairs ELSE {disk["eval"].data.pairs} :
          Begins(t, Job("eval", "score", "none", r(ps), a))
    BY <1>6 DEF EvalLoads
  <2>2. FileTyped(disk["eval"], "eval")
    BY DEF TypesInv, FilesTyped, Files
  <2>3. disk["eval"].data \in PairFiles \cup {Torn}
    BY <1>6, <2>2 DEF FileTyped, Held, EvalLoads, Present
  <2>4. r(ps) \in SUBSET Pairs /\ a \in [missed : SUBSET Pairs, failed : SUBSET Pairs]
    BY <2>1, <2>3 DEF PairFiles
  <2> HIDE DEF r, a
  <2>5. PICK d : d = r(ps)
    OBVIOUS
  <2>6. Begins(t, Job("eval", "score", "none", d, a)) /\ d \in SUBSET Pairs
    BY <2>1, <2>4, <2>5
  <2>7. ASSUME NEW j, j.op = "eval", j.at = "score", j.file = "none", j.data = d, j.arg = a PROVE JobFormed(j)
    BY <2>4, <2>6, <2>7 DEF JobFormed, Evaluating
  <2>8. UNCHANGED <<filevars, storevars, datavars, corpora>>
    BY <1>6 DEF EvalLoads
  <2> QED BY <2>6, <2>7, <2>8, BeginsTyped
<1>7. CASE \E ids \in (SUBSET Chunks) \ {{}}, include \in BOOLEAN :
             FilterOpens(t, [ids |-> ids, include |-> include])
  BY <1>7, FilterOpensTyped
<1> QED
  BY <1>1, <1>2, <1>3, <1>4, <1>5, <1>6, <1>7, SwapSteps, ChunkSteps, BuildSteps, PairSteps, UseSteps
  DEF DataStep

---------------------------------------------------------------------------
(* The corpora, and the whole                                              *)

\* A step that changes one field of one corpus.
LEMMA CorpusField ==
  ASSUME CorporaTyped, NEW k \in Names, NEW c \in CorpusTypes, corpora' = [corpora EXCEPT ![k] = c]
  PROVE  CorporaTyped' /\ corpora'[k] = c /\ \A n \in Names \ {k} : corpora'[n] = corpora[n]
BY DEF CorporaTyped

CorpusIs(c, d, m, r, s, e, st, ca) ==
  /\ c.dir = d /\ c.manifest = m /\ c.rag = r /\ c.sft = s /\ c.eval = e /\ c.store = st /\ c.calm = ca

\* The corpora a step of t leaves as they were.
CorporaRest(k) == \A n \in Names \ {k} : corpora'[n] = corpora[n]

LEMMA SetDir ==
  ASSUME CorporaTyped, NEW k \in Names, corpora' = [corpora EXCEPT ![k].dir = TRUE]
  PROVE  /\ CorporaTyped' /\ CorporaRest(k) /\ corpora'[k].dir
         /\ corpora'[k].manifest = corpora[k].manifest /\ corpora'[k].rag = corpora[k].rag
         /\ corpora'[k].sft = corpora[k].sft /\ corpora'[k].eval = corpora[k].eval
         /\ corpora'[k].store = corpora[k].store /\ corpora'[k].calm = corpora[k].calm
<1>1. PICK y : y = TRUE
  OBVIOUS
<1> DEFINE c == [corpora[k] EXCEPT !.dir = y]
<1>2. corpora[k] \in CorpusTypes
  BY DEF CorporaTyped
<1>3. c \in CorpusTypes
  BY <1>1, <1>2 DEF CorpusTypes
<1>4. CorpusIs(c, y, corpora[k].manifest, corpora[k].rag, corpora[k].sft, corpora[k].eval, corpora[k].store,
               corpora[k].calm)
  BY <1>2 DEF CorpusTypes, CorpusIs
<1>5. corpora' = [corpora EXCEPT ![k] = c]
  BY <1>1
<1> HIDE DEF c
<1> QED BY <1>1, <1>3, <1>4, <1>5, CorpusField DEF CorpusIs, CorporaRest

LEMMA SetManifest ==
  ASSUME CorporaTyped, NEW k \in Names, NEW m \in {"absent", "torn", "whole"},
         corpora' = [corpora EXCEPT ![k].manifest = m]
  PROVE  /\ CorporaTyped' /\ CorporaRest(k) /\ corpora'[k].manifest = m
         /\ corpora'[k].dir = corpora[k].dir /\ corpora'[k].rag = corpora[k].rag
         /\ corpora'[k].sft = corpora[k].sft /\ corpora'[k].eval = corpora[k].eval
         /\ corpora'[k].store = corpora[k].store /\ corpora'[k].calm = corpora[k].calm
<1> DEFINE c == [corpora[k] EXCEPT !.manifest = m]
<1>2. corpora[k] \in CorpusTypes
  BY DEF CorporaTyped
<1>3. c \in CorpusTypes
  BY <1>2 DEF CorpusTypes
<1>4. CorpusIs(c, corpora[k].dir, m, corpora[k].rag, corpora[k].sft, corpora[k].eval, corpora[k].store,
               corpora[k].calm)
  BY <1>2 DEF CorpusTypes, CorpusIs
<1>5. corpora' = [corpora EXCEPT ![k] = c]
  OBVIOUS
<1> HIDE DEF c
<1>6. CorporaTyped' /\ corpora'[k] = c /\ CorporaRest(k)
  BY <1>3, <1>5, CorpusField DEF CorporaRest
<1> QED BY <1>4, <1>6 DEF CorpusIs

LEMMA SetListed ==
  ASSUME CorporaTyped, NEW k \in Names, NEW ca \in SUBSET {"current", "index", "pairs"},
         corpora' = [corpora EXCEPT ![k].manifest = "whole", ![k].calm = ca]
  PROVE  /\ CorporaTyped' /\ CorporaRest(k) /\ corpora'[k].manifest = "whole" /\ corpora'[k].calm = ca
         /\ corpora'[k].dir = corpora[k].dir /\ corpora'[k].rag = corpora[k].rag
         /\ corpora'[k].sft = corpora[k].sft /\ corpora'[k].eval = corpora[k].eval
         /\ corpora'[k].store = corpora[k].store
<1> DEFINE c1 == [corpora[k] EXCEPT !.manifest = "whole"]
           c == [c1 EXCEPT !.calm = ca]
<1>2. corpora[k] \in CorpusTypes
  BY DEF CorporaTyped
<1>3. c1 \in CorpusTypes
  BY <1>2 DEF CorpusTypes
<1>4. CorpusIs(c1, corpora[k].dir, "whole", corpora[k].rag, corpora[k].sft, corpora[k].eval, corpora[k].store,
               corpora[k].calm)
  BY <1>2 DEF CorpusTypes, CorpusIs
<1>5. corpora' = [corpora EXCEPT ![k] = c]
  OBVIOUS
<1> HIDE DEF c1
<1>6. c \in CorpusTypes
  BY <1>3 DEF CorpusTypes
<1>7. CorpusIs(c, c1.dir, c1.manifest, c1.rag, c1.sft, c1.eval, c1.store, ca)
  BY <1>3 DEF CorpusTypes, CorpusIs
<1> HIDE DEF c
<1> QED BY <1>4, <1>5, <1>6, <1>7, CorpusField DEF CorpusIs, CorporaRest

LEMMA SetStore ==
  ASSUME CorporaTyped, NEW k \in Names, NEW st \in (SUBSET Chunks) \cup {Absent},
         corpora' = [corpora EXCEPT ![k].store = st]
  PROVE  /\ CorporaTyped' /\ CorporaRest(k) /\ corpora'[k].store = st
         /\ corpora'[k].dir = corpora[k].dir /\ corpora'[k].manifest = corpora[k].manifest
         /\ corpora'[k].rag = corpora[k].rag
         /\ corpora'[k].sft = corpora[k].sft /\ corpora'[k].eval = corpora[k].eval
         /\ corpora'[k].calm = corpora[k].calm
<1> DEFINE c == [corpora[k] EXCEPT !.store = st]
<1>2. corpora[k] \in CorpusTypes
  BY DEF CorporaTyped
<1>3. c \in CorpusTypes
  BY <1>2 DEF CorpusTypes
<1>4. CorpusIs(c, corpora[k].dir, corpora[k].manifest, corpora[k].rag, corpora[k].sft, corpora[k].eval, st,
               corpora[k].calm)
  BY <1>2 DEF CorpusTypes, CorpusIs
<1>5. corpora' = [corpora EXCEPT ![k] = c]
  OBVIOUS
<1> HIDE DEF c
<1>6. CorporaTyped' /\ corpora'[k] = c /\ CorporaRest(k)
  BY <1>3, <1>5, CorpusField DEF CorporaRest
<1> QED BY <1>4, <1>6 DEF CorpusIs

\* One of the copied files.
LEMMA SetCopy ==
  ASSUME CorporaTyped, NEW k \in Names, NEW f \in {"rag", "sft", "eval"}, NEW d,
         f = "rag" => d \in (SUBSET Chunks) \cup {Absent, Torn},
         f # "rag" => d \in PairFiles \cup {Absent, Torn},
         corpora' = [corpora EXCEPT ![k][f] = d]
  PROVE  /\ CorporaTyped' /\ CorporaRest(k) /\ corpora'[k][f] = d
         /\ \A g \in {"rag", "sft", "eval"} \ {f} : corpora'[k][g] = corpora[k][g]
         /\ corpora'[k].dir = corpora[k].dir /\ corpora'[k].manifest = corpora[k].manifest
         /\ corpora'[k].store = corpora[k].store /\ corpora'[k].calm = corpora[k].calm
<1> DEFINE c == [corpora[k] EXCEPT ![f] = d]
<1>2. corpora[k] \in CorpusTypes
  BY DEF CorporaTyped
<1>3. c \in CorpusTypes
  BY <1>2 DEF CorpusTypes
<1>4. /\ c[f] = d /\ \A g \in {"rag", "sft", "eval"} \ {f} : c[g] = corpora[k][g]
      /\ c.dir = corpora[k].dir /\ c.manifest = corpora[k].manifest
      /\ c.store = corpora[k].store /\ c.calm = corpora[k].calm
  BY <1>2 DEF CorpusTypes
<1>5. corpora' = [corpora EXCEPT ![k] = c]
  OBVIOUS
<1> HIDE DEF c
<1> QED BY <1>3, <1>4, <1>5, CorpusField DEF CorporaRest

---------------------------------------------------------------------------
\* What an export copies of a file.
Copied(f) ==
  IF f # "rag" /\ disk[f].data # Torn THEN PairFile(disk[f].data.pairs, "corpus") ELSE disk[f].data

LEMMA CopiedTyped ==
  ASSUME FilesTyped, NEW f \in {"rag", "sft", "eval"}, Present(f)
  PROVE  /\ f = "rag" => Copied(f) \in (SUBSET Chunks) \cup {Absent, Torn}
         /\ f # "rag" => Copied(f) \in PairFiles \cup {Absent, Torn}
<1>1. disk[f].data \in Held(f)
  BY DEF FilesTyped, FileTyped, Files
<1> QED BY <1>1 DEF Held, Copied, Present, PairFile, PairFiles, Origins

LEMMA ExportSteps ==
  ASSUME TypesInv, NEW t \in Tasks,
         \/ ExportMakesDir(t) \/ ExportCopies(t) \/ ExportCopiesStore(t)
         \/ ExportOpensManifest(t) \/ ExportWritesManifest(t)
  PROVE  TypesInv'
<1>0. JobFormed(job[t])
  BY JobsFormed
<1>a. FilesTyped' /\ UNCHANGED <<dir, storevars, datavars>>
  BY FilesKept DEF ExportMakesDir, ExportCopies, ExportCopiesStore, ExportOpensManifest,
     ExportWritesManifest, TypesInv, filevars
<1> USE DEF JobFormed, Idling, Creating, Updating, Deleting, Filtering, Ingesting, Building,
       Generating, Training, Evaluating, Exporting, Importing
<1>b. ASSUME NEW at, NEW file, NEW d, NEW a, Moved(t, at, file, d, a), JobFormed(job'[t]), CorporaTyped'
      PROVE TypesInv'
  <2>1. JobsTyped' /\ raced' = raced
    BY <1>b, MovedTyped DEF TypesInv, Moved
  <2>2. DataTyped'
    BY <1>a, <2>1, StaysOnly, DirOnlyTyped DEF TypesInv
  <2> QED BY <1>a, <1>b, <2>1, <2>2 DEF TypesInv
<1>1. CASE ExportMakesDir(t)
  <2>1. Moved(t, "copy", job[t].file, job[t].data, job[t].arg) /\ job[t].at = "mkdir"
    BY <1>1, GoesIs, JobsShaped DEF ExportMakesDir, TypesInv
  <2>2. JobFormed(job'[t]) /\ job[t].arg \in Names
    BY <1>0, <2>1 DEF Moved, JobIs
  <2>3. CorporaTyped'
    BY <1>1, <2>2, SetDir DEF ExportMakesDir, TypesInv
  <2> QED BY <1>b, <2>1, <2>2, <2>3
<1>2. CASE ExportCopies(t)
  <2>1. /\ Moved(t, "copy", NextFile(job[t].file), Absent, job[t].arg) /\ job[t].at = "copy"
        /\ job[t].op = "export" /\ job[t].file # "store"
    BY <1>2, CarriesIs, JobsShaped DEF ExportCopies, TypesInv
  <2>2. job[t].arg \in Names /\ job[t].file \in {"rag", "sft", "eval"}
    BY <1>0, <2>1
  <2>3. JobFormed(job'[t])
    BY <2>1, <2>2 DEF Moved, JobIs, NextFile
  <2>4. CorporaTyped'
    <3>1. CASE Present(job[t].file)
      <4>1. corpora' = [corpora EXCEPT ![job[t].arg][job[t].file] = Copied(job[t].file)]
        BY <1>2, <3>1 DEF ExportCopies, Copied
      <4>2. FilesTyped /\ CorporaTyped
        BY DEF TypesInv
      <4>3. /\ job[t].file = "rag" => Copied(job[t].file) \in (SUBSET Chunks) \cup {Absent, Torn}
            /\ job[t].file # "rag" => Copied(job[t].file) \in PairFiles \cup {Absent, Torn}
        BY <2>2, <3>1, <4>2, CopiedTyped
      <4> QED BY <2>2, <4>1, <4>2, <4>3, SetCopy
    <3>2. CASE ~Present(job[t].file)
      BY <1>2, <3>2 DEF ExportCopies, TypesInv, CorporaTyped
    <3> QED BY <3>1, <3>2
  <2> QED BY <1>b, <2>1, <2>3, <2>4
<1>3. CASE ExportCopiesStore(t)
  <2>1. Moved(t, "manifest", job[t].file, job[t].data, job[t].arg) /\ job[t].at = "copy" /\ job[t].op = "export"
        /\ job[t].file = "store"
    BY <1>3, GoesIs, JobsShaped DEF ExportCopiesStore, TypesInv
  <2>2. JobFormed(job'[t]) /\ job[t].arg \in Names
    BY <1>0, <2>1 DEF Moved, JobIs
  <2>3. CopiedOver(index, Absent) \in (SUBSET Chunks) \cup {Absent}
    BY DEF CopiedOver, TypesInv, DataTyped
  <2>4. CorporaTyped'
    BY <1>3, <2>2, <2>3, SetStore DEF ExportCopiesStore, TypesInv
  <2> QED BY <1>b, <2>1, <2>2, <2>4
<1>4. CASE ExportOpensManifest(t)
  <2>1. Moved(t, "manifest_opened", job[t].file, job[t].data, job[t].arg) /\ job[t].at = "manifest"
    BY <1>4, GoesIs, JobsShaped DEF ExportOpensManifest, TypesInv
  <2>2. JobFormed(job'[t]) /\ job[t].arg \in Names
    BY <1>0, <2>1 DEF Moved, JobIs
  <2>4. CorporaTyped'
    BY <1>4, <2>2, SetManifest DEF ExportOpensManifest, TypesInv
  <2> QED BY <1>b, <2>1, <2>2, <2>4
<1>5. CASE ExportWritesManifest(t)
  <2>1. job[t].arg \in Names
    BY <1>0, <1>5 DEF ExportWritesManifest
  <2> DEFINE ca == IF job[t].alone THEN calm ELSE {}
  <2>2. ca \in SUBSET {"current", "index", "pairs"}
    BY DEF TypesInv, DataTyped
  <2>3. corpora' = [corpora EXCEPT ![job[t].arg].manifest = "whole", ![job[t].arg].calm = ca] /\ Ends(t)
    BY <1>5 DEF ExportWritesManifest
  <2> HIDE DEF ca
  <2>4. CorporaTyped'
    BY <2>1, <2>2, <2>3, SetListed DEF TypesInv
  <2>5. JobsTyped' /\ raced' = raced
    BY <2>3, EndsDone, DoneTyped DEF TypesInv, Ends
  <2>6. DataTyped'
    BY <1>a, <2>5, StaysOnly, DirOnlyTyped DEF TypesInv
  <2> QED BY <1>a, <2>4, <2>5, <2>6 DEF TypesInv
<1> QED BY <1>1, <1>2, <1>3, <1>4, <1>5

LEMMA FollowingIs ==
  ASSUME NEW t \in Tasks, job[t].file \in {"rag", "sft", "eval"}
  PROVE  /\ FollowingFile(t) \in {"sft", "eval", "store"}
         /\ FollowingFile(t) \in {"sft", "eval"} => job[t].arg.include_sft
         /\ job[t].arg.include_sft => FollowingFile(t) = NextFile(job[t].file)
         /\ ~job[t].arg.include_sft => FollowingFile(t) = "store"
         /\ job[t].file = "rag" => NextFile(job[t].file) = "sft"
         /\ job[t].file = "sft" => NextFile(job[t].file) = "eval"
         /\ job[t].file = "eval" => NextFile(job[t].file) = "store"
BY DEF FollowingFile, NextFile

LEMMA CorpusHeld ==
  ASSUME CorporaTyped, NEW k \in Names, NEW f \in {"rag", "sft", "eval"}
  PROVE  corpora[k][f] \in Held(f)
<1>1. corpora[k] \in CorpusTypes
  BY DEF CorporaTyped
<1> QED BY <1>1 DEF CorpusTypes, Held

LEMMA ImportSteps ==
  ASSUME TypesInv, NEW t \in Tasks,
         ImportOpens(t) \/ ImportSkips(t) \/ ImportWrites(t) \/ ImportCopiesStore(t)
  PROVE  TypesInv'
<1>0. JobFormed(job[t])
  BY JobsFormed
<1> USE DEF JobFormed, Idling, Creating, Updating, Deleting, Filtering, Ingesting, Building,
       Generating, Training, Evaluating, Exporting, Importing
<1>1. CASE ImportOpens(t)
  <2>1. /\ Moved(t, "copying", job[t].file, job[t].data, job[t].arg) /\ job[t].at = "copy"
        /\ job[t].op = "import" /\ job[t].file # "store"
    BY <1>1, GoesIs, JobsShaped DEF ImportOpens, TypesInv
  <2>2. job[t].file \in {"rag", "sft", "eval"} /\ job[t].arg \in [name : Names, include_sft : BOOLEAN]
        /\ (job[t].file \in {"sft", "eval"} => job[t].arg.include_sft)
    BY <1>0, <2>1
  <2>3. JobFormed(job'[t])
    BY <2>1, <2>2 DEF Moved, JobIs
  <2>4. FilesTyped'
    BY <1>1, <2>2, OpensTyped DEF ImportOpens, TypesInv, Files
  <2>5. DataTyped'
    <3>1. UNCHANGED <<told, reseeded>> /\ dir' \in BOOLEAN /\ deserted' \in BOOLEAN
      BY <1>1 DEF ImportOpens, MakesDirs, storevars, TypesInv, DataTyped
    <3>2. calm' \subseteq calm /\ UNCHANGED <<index, trained, flags>>
      BY <1>1 DEF ImportOpens
    <3> QED BY <2>1, <3>1, <3>2 DEF Moved, TypesInv, DataTyped
  <2>6. corpora' = corpora
    BY <1>1 DEF ImportOpens
  <2> QED BY <2>1, <2>3, <2>4, <2>5, <2>6, DataStepTyped
<1>2. CASE ImportSkips(t)
  <2>1. /\ Moved(t, "copy", FollowingFile(t), Absent, job[t].arg) /\ job[t].at = "copy"
        /\ job[t].op = "import" /\ job[t].file # "store"
    BY <1>2, CarriesIs, JobsShaped DEF ImportSkips, TypesInv
  <2>2. job[t].file \in {"rag", "sft", "eval"} /\ job[t].arg \in [name : Names, include_sft : BOOLEAN]
    BY <1>0, <2>1
  <2>3. JobFormed(job'[t])
    BY <2>1, <2>2, FollowingIs DEF Moved, JobIs
  <2>4. FilesTyped' /\ DataTyped' /\ corpora' = corpora
    BY <1>2, <2>1, FilesKept, StaysOnly, DirOnlyTyped DEF ImportSkips, TypesInv, filevars, Moved
  <2> QED BY <2>1, <2>3, <2>4, DataStepTyped
<1>3. CASE ImportWrites(t)
  <2>1. Moved(t, "copy", FollowingFile(t), Absent, job[t].arg) /\ job[t].at = "copying"
    BY <1>3, CarriesIs, JobsShaped DEF ImportWrites, TypesInv
  <2>2. job[t].op = "import"
        /\ job[t].file \in {"rag", "sft", "eval"} /\ job[t].arg \in [name : Names, include_sft : BOOLEAN]
    BY <1>0, <2>1
  <2>3. JobFormed(job'[t])
    BY <2>1, <2>2, FollowingIs DEF Moved, JobIs
  <2>4. corpora[job[t].arg.name][job[t].file] \in Held(job[t].file)
    BY <2>2, CorpusHeld DEF TypesInv
  <2>5. FilesTyped'
    BY <1>3, <2>2, <2>4, WritesTyped DEF ImportWrites, TypesInv, Files
  <2>6. DataTyped' /\ corpora' = corpora
    BY <1>3, <2>1, StaysOnly, DirOnlyTyped DEF ImportWrites, TypesInv, Moved
  <2> QED BY <2>1, <2>3, <2>5, <2>6, DataStepTyped
<1>4. CASE ImportCopiesStore(t)
  <2>1. job[t].op = "import"
    BY <1>4 DEF ImportCopiesStore
  <2>2. job[t].arg.name \in Names
    <3>1. job[t].arg \in [name : Names, include_sft : BOOLEAN]
      BY <1>0, <2>1 DEF Generators
    <3> QED BY <3>1
  <2>3. corpora[job[t].arg.name] \in CorpusTypes
    BY <2>2 DEF TypesInv, CorporaTyped
  <2>4. index' \in (SUBSET Chunks) \cup {Absent}
    <3>1. corpora[job[t].arg.name].store \in (SUBSET Chunks) \cup {Absent}
      BY <2>3 DEF CorpusTypes
    <3>2. index' = CopiedOver(corpora[job[t].arg.name].store, index)
      BY <1>4 DEF ImportCopiesStore
    <3>3. index \in (SUBSET Chunks) \cup {Absent}
      BY DEF TypesInv, DataTyped
    <3> QED BY <3>1, <3>2, <3>3 DEF CopiedOver
  <2>5. calm' \subseteq {"current", "index", "pairs"}
    BY <1>4 DEF ImportCopiesStore, TypesInv, DataTyped
  <2>6. DataTyped'
    BY <1>4, <2>4, <2>5 DEF ImportCopiesStore, MakesDirs, Ends, TypesInv, DataTyped
  <2>7. FilesTyped'
    BY <1>4, FilesKept DEF ImportCopiesStore, TypesInv
  <2> QED BY <1>4, <2>6, <2>7, DataEndTyped DEF ImportCopiesStore
<1> QED BY <1>1, <1>2, <1>3, <1>4

LEMMA CorpusTyped ==
  ASSUME TypesInv, NEW t \in Tasks, CorpusStep(t)
  PROVE  TypesInv'
<1>1. ASSUME NEW k \in Names, ExportBegins(t, k) PROVE TypesInv'
  BY <1>1, BeginsTyped DEF ExportBegins, JobFormed, Exporting
<1>2. ASSUME NEW k \in Names, NEW include_sft \in BOOLEAN, ImportBegins(t, k, include_sft) PROVE TypesInv'
  <2>1. [name |-> k, include_sft |-> include_sft] \in [name : Names, include_sft : BOOLEAN]
    OBVIOUS
  <2>2. PICK a \in [name : Names, include_sft : BOOLEAN] : Begins(t, Job("import", "copy", "rag", Absent, a))
    BY <1>2, <2>1 DEF ImportBegins
  <2>3. ASSUME NEW j, j.op = "import", j.at = "copy", j.file = "rag", j.data = Absent, j.arg = a
        PROVE JobFormed(j)
    BY <2>3 DEF JobFormed, Importing
  <2>4. UNCHANGED <<filevars, storevars, datavars, corpora>>
    BY <1>2 DEF ImportBegins
  <2> QED BY <2>2, <2>3, <2>4, BeginsTyped
<1> QED BY <1>1, <1>2, ExportSteps, ImportSteps DEF CorpusStep

LEMMA BreaksTyped ==
  ASSUME TypesInv, NEW t \in Tasks, BreaksOff(t)
  PROVE  TypesInv'
<1>1. FilesTyped'
  BY LeavesTyped DEF BreaksOff, TypesInv
<1>2. DataTyped'
  BY DEF BreaksOff, TypesInv, DataTyped, Ends, datavars
<1> QED BY <1>1, <1>2, DataEndTyped DEF BreaksOff

---------------------------------------------------------------------------
LEMMA FileIs ==
  ASSUME NEW d
  PROVE  IsFile(File(d)) /\ File(d).data = d /\ File(d).open = {} /\ ~File(d).shared /\ ~File(d).cut
         /\ File(d).shared \in BOOLEAN /\ File(d).cut \in BOOLEAN
<1>1. File(d) = [data |-> d, open |-> NoFile.open, shared |-> NoFile.shared, cut |-> NoFile.cut]
  BY NoFileIs DEF File, IsFile
<1>2. FileRecord(File(d), d, NoFile.open, NoFile.shared, NoFile.cut)
  BY <1>1, RecordIs
<1> QED BY <1>2, NoFileIs DEF FileRecord

FirstSeed == CHOOSE s \in Seeds : TRUE

LEMMA FirstSeedIs == FirstSeed \in Seeds
BY StoreAssumption DEF FirstSeed

FirstRequest == CHOOSE q \in Requests : TRUE

\* What it draws and holds out.
FirstDrawn == Drawn[FirstRequest][FirstSeed]
FirstHeld == HeldOut[FirstRequest][FirstSeed]

LEMMA FirstRequestIs ==
  FirstRequest \in Requests /\ FirstDrawn \in SUBSET Pairs /\ FirstHeld \in SUBSET FirstDrawn
<1>1. FirstRequest \in Requests
  BY DatasetsAssumption DEF FirstRequest
<1> QED BY <1>1, FirstSeedIs, DrawnIs DEF FirstDrawn, FirstHeld

\* Where the pairs of a prepared project come from.
FirstOrigin(stage) == IF stage = "generated" THEN "synth" ELSE FirstRequest

\* What a project starts from.
Beginning(stage) ==
  LET paired == stage \in {"generated", "downloaded"}
      split == Split(FirstDrawn, FirstHeld, FirstOrigin(stage))
  IN /\ dir <=> stage # "none"
     /\ told \in Configs /\ (paired => told.seed = FirstSeed)
     /\ disk["toml"] \in {File(told), NoFile} /\ (dir => disk["toml"] = File(told))
     /\ disk["chunks"] \in {File(Chunks), NoFile}
     /\ disk["rag"] \in {File(Chunks), NoFile}
     /\ disk["sft"] \in {File(split.sft), NoFile}
     /\ disk["eval"] \in {File(split.eval), NoFile}
     /\ flags = Chunks
     /\ \/ index = Chunks /\ disk["rag"] = File(Chunks) /\ disk["chunks"] = File(Chunks)
        \/ index = Absent /\ calm = {}
     /\ calm \subseteq {"current", "index", "pairs"} /\ ("current" \in calm => "index" \in calm)
     /\ "pairs" \in calm => paired /\ disk["sft"] = File(split.sft) /\ disk["eval"] = File(split.eval)
     /\ calm # {} => dir

LEMMA InitIs ==
  ASSUME Init
  PROVE  /\ \E stage \in Stages : Beginning(stage)
         /\ disk = [f \in Files |-> disk[f]] /\ dir \in BOOLEAN
<1>1. PICK stage \in Stages : InitProject(stage, FirstRequest, FirstSeed)
  BY DEF Init, FirstSeed, FirstRequest
<1>2. disk = [f \in Files |-> disk[f]] /\ dir \in BOOLEAN
  BY <1>1 DEF InitProject, Files
<1>3. told \in Configs /\ (stage \in {"generated", "downloaded"} => told.seed = FirstSeed)
  BY <1>1, FirstSeedIs DEF InitProject, Fresh, Configs
<1>4. Beginning(stage)
  BY <1>1, <1>3 DEF InitProject, Beginning, Stages, FirstDrawn, FirstHeld, FirstOrigin
<1> QED BY <1>2, <1>4

LEMMA ExportedTyped ==
  /\ Exported(FirstRequest, FirstSeed) \in CorpusTypes /\ ExportedBare \in CorpusTypes /\ NoCorpus \in CorpusTypes
<1>1. NoCorpus \in CorpusTypes
  BY DEF NoCorpus, CorpusTypes
<1> DEFINE split == Split(FirstDrawn, FirstHeld, "corpus")
<1>2. split \in Parts
  BY FirstRequestIs, SplitTyped DEF Origins
<1>3. split.sft \in PairFiles /\ split.eval \in PairFiles
  BY <1>2 DEF Parts
<1>4. Exported(FirstRequest, FirstSeed) \in CorpusTypes
  BY <1>3 DEF Exported, CorpusTypes, FirstDrawn, FirstHeld
<1>5. ExportedBare \in CorpusTypes
  <2>1. PICK y : y = TRUE
    OBVIOUS
  <2> DEFINE c1 == [NoCorpus EXCEPT !.dir = y]
             c2 == [c1 EXCEPT !.manifest = "whole"]
             c3 == [c2 EXCEPT !.rag = Chunks]
             c4 == [c3 EXCEPT !.store = Chunks]
             c5 == [c4 EXCEPT !.calm = {"index"}]
  <2>2. c1 \in CorpusTypes
    BY <1>1, <2>1 DEF CorpusTypes
  <2>3. ExportedBare = c5
    BY <2>1 DEF ExportedBare
  <2> HIDE DEF c1
  <2>4. c2 \in CorpusTypes
    BY <2>2 DEF CorpusTypes
  <2> HIDE DEF c2
  <2>5. c3 \in CorpusTypes
    BY <2>4 DEF CorpusTypes
  <2> HIDE DEF c3
  <2>6. c4 \in CorpusTypes
    BY <2>5 DEF CorpusTypes
  <2> HIDE DEF c4
  <2>7. c5 \in CorpusTypes
    BY <2>6 DEF CorpusTypes
  <2> QED BY <2>3, <2>7
<1> QED BY <1>1, <1>4, <1>5

LEMMA TypesInit == ASSUME Init PROVE TypesInv
<1>1. PICK stage \in Stages : Beginning(stage)
  BY InitIs
<1> DEFINE from == FirstOrigin(stage)
           split == Split(FirstDrawn, FirstHeld, from)
<1>2. split.sft \in PairFiles /\ split.eval \in PairFiles
  <2>1. split \in Parts
    BY FirstRequestIs, SplitTyped DEF FirstOrigin, Origins
  <2> QED BY <2>1 DEF Parts
<1>3. ASSUME NEW f \in Files PROVE IsFile(disk[f]) /\ disk[f].shared \in BOOLEAN /\ disk[f].cut \in BOOLEAN
                                   /\ FileTyped(disk[f], f)
  <2>1. PICK d \in Held(f) : disk[f] = File(d) \/ disk[f] = NoFile
    <3> HIDE DEF from
    <3>1. disk["toml"] \in {File(told), NoFile} /\ told \in Configs
      BY <1>1 DEF Beginning
    <3>2. disk["chunks"] \in {File(Chunks), NoFile} /\ disk["rag"] \in {File(Chunks), NoFile}
      BY <1>1 DEF Beginning
    <3>3. disk["sft"] \in {File(split.sft), NoFile} /\ disk["eval"] \in {File(split.eval), NoFile}
      BY <1>1 DEF Beginning, from
    <3> HIDE DEF split
    <3> QED BY <1>2, <3>1, <3>2, <3>3 DEF Held, Files
  <2> QED BY <2>1, FileIs, NoFileIs, HeldSentinels DEF FileTyped
<1>4. FilesTyped
  <2>1. tmp = [f \in Files |-> NoFile]
    BY DEF Init
  <2> QED BY <1>3, <2>1, InitIs, NoFileIs, HeldSentinels DEF FilesTyped, FilesShaped, FileTyped
<1>5. DataTyped
  <2>1. trained \in [pairs : SUBSET Pairs, from : {"nothing"} \cup Origins, calm : BOOLEAN]
    BY DEF Init, Untrained
  <2> QED BY <1>1, <2>1, InitIs DEF Init, DataTyped, Beginning
<1>6. CorporaTyped
  <2>1. \/ corpora \in [Names -> {Exported(FirstRequest, FirstSeed), ExportedBare}]
        \/ corpora \in [Names -> {NoCorpus}]
    BY DEF Init, FirstSeed, FirstRequest
  <2> QED BY <2>1, ExportedTyped DEF CorporaTyped
<1>7. JobsTyped
  BY DEF Init, Idle, Job, JobsTyped, JobTyped, IsJob, JobFormed, Idling
<1> QED BY <1>4, <1>5, <1>6, <1>7 DEF TypesInv

LEMMA TypesStep == TypesInv /\ [Next]_vars => TypesInv'
<1> SUFFICES ASSUME TypesInv, [Next]_vars PROVE TypesInv'
  OBVIOUS
<1>1. ASSUME NEW t \in Tasks, Step(t) PROVE TypesInv'
  BY <1>1, StoreTyped, DeletesTyped, DataTypedSteps, CorpusTyped, BreaksTyped DEF Step
<1>2. CASE UNCHANGED vars
  BY <1>2 DEF vars, filevars, storevars, datavars, TypesInv, FilesTyped, FilesShaped, FileTyped, DataTyped,
     CorporaTyped, JobsTyped
<1> QED BY <1>1, <1>2 DEF Next

\* Every file, job, corpus and flag has its type in every state, and a job's
\* step, file and data are those its operation can be at (store.rs, chunks.rs,
\* synth_import.rs, export.rs, import.rs, each handler from its first line on).
THEOREM TypesInvariant == Spec => []TypesInv
<1>1. Init => TypesInv
  BY TypesInit
<1> QED BY <1>1, TypesStep, PTL DEF Spec

OpsInv == ops \in 0..MaxOps

\* The type invariant of the composed module: whatever a handler, a crash or a
\* rival does, each file holds what its writers write, whole, torn or nothing.
THEOREM FolderTypes == Spec => []TypeOK
<1>1. Init => OpsInv
  BY OpsAssumption DEF Init, OpsInv
<1>2. OpsInv /\ [Next]_vars => OpsInv'
  BY OpsAssumption DEF Next, OpsInv, vars
<1>3. TypesInv /\ OpsInv => TypeOK
  <2> SUFFICES ASSUME TypesInv, OpsInv PROVE TypeOK
    OBVIOUS
  <2>1. \A f \in Files : disk[f].data \in Held(f) /\ disk[f].open \subseteq Tasks /\ tmp[f].open \subseteq Tasks
    BY DEF TypesInv, FilesTyped, FileTyped
  <2>2. \A t \in Tasks : job[t].op \in DOMAIN Writes
    <3> SUFFICES ASSUME NEW t \in Tasks PROVE job[t].op \in DOMAIN Writes
      OBVIOUS
    <3> QED BY JobsFormed DEF JobFormed, Idling, Creating, Updating, Deleting, Filtering, Ingesting, Building,
       Generating, Training, Evaluating, Exporting, Importing, Generators, Writes
  <2>3. FilesTypeOK
    BY <2>1, <2>2 DEF FilesTypeOK, TypesInv, DataTyped
  <2>4. StoreTypeOK
    BY <2>1 DEF StoreTypeOK, TypesInv, DataTyped, Held, Files
  <2>5. DatasetsTypeOK
    BY <2>1 DEF DatasetsTypeOK, TypesInv, DataTyped, Held, Files
  <2>6. CorporaTypeOK
    BY DEF CorporaTypeOK, TypesInv, CorporaTyped, CorpusTypes
  <2> QED BY <2>3, <2>4, <2>5, <2>6 DEF TypeOK, OpsInv
<1>4. Spec => []OpsInv
  BY <1>1, <1>2, PTL DEF Spec
<1> QED BY <1>3, <1>4, TypesInvariant, PTL

---------------------------------------------------------------------------
(* What kind of step it is                                                 *)

Early == {"get", "config", "config_opened"}

\* The four ways a step of t moves the jobs: it begins an operation, carries it
\* on, ends it, or ends a delete, which forgives the races of its past.
Starts(t) ==
  \E op \in DOMAIN Writes : \E at, file, d, a :
    Begun(t, op, at, file, d, a) /\ (op \in Generators => at = "get")

GoesOn(t) ==
  \E at, file, d, a :
    /\ Moved(t, at, file, d, a) /\ job[t].op # "none"
    /\ job[t].op \in Generators /\ job[t].at \notin Early => at \notin Early

Vanishes(t) ==
  /\ job[t].op = "delete" /\ Shaped' /\ Rest(t)
  /\ job'[t].op = "none" /\ job'[t].at = "idle" /\ job'[t].file = "none" /\ job'[t].alone
  /\ raced' = {g \in raced : \E u \in Tasks \ {t} : g \in ToWrite(u)}

Kind(t) == Starts(t) \/ GoesOn(t) \/ (Done(t) /\ job[t].op # "none") \/ Vanishes(t)

LEMMA OpsAre ==
  {"create", "set_synth_model", "persist_last_run_id", "delete", "filter", "ingest", "build", "generate",
   "import_hf", "train", "eval", "export", "import"} \subseteq DOMAIN Writes
BY DEF Writes

LEMMA StartsIs ==
  ASSUME TypesInv, NEW t \in Tasks, NEW op \in DOMAIN Writes, NEW at, NEW file, NEW d, NEW a,
         Begins(t, Job(op, at, file, d, a)), op \in Generators => at = "get"
  PROVE  Kind(t)
BY JobBegun DEF Kind, Starts

LEMMA CarriesKind ==
  ASSUME TypesInv, NEW t \in Tasks, NEW at, NEW file, NEW d, NEW a, Moved(t, at, file, d, a),
         job[t].op # "none", at \notin Early
  PROVE  Kind(t)
BY DEF Kind, GoesOn

LEMMA GoesKind ==
  ASSUME TypesInv, NEW t \in Tasks, NEW from, NEW to, Goes(t, from, to), from # "idle", to \notin Early
  PROVE  Kind(t)
<1>1. Moved(t, to, job[t].file, job[t].data, job[t].arg) /\ job[t].at = from
  BY GoesIs, JobsShaped DEF TypesInv
<1>2. job[t].op # "none"
  BY <1>1, JobsFormed DEF JobFormed, Idling, Creating, Updating, Deleting, Filtering, Ingesting, Building,
     Generating, Training, Evaluating, Exporting, Importing, Generators
<1> QED BY <1>1, <1>2, CarriesKind

LEMMA CarriesOnKind ==
  ASSUME TypesInv, NEW t \in Tasks, NEW from, NEW to, NEW file, NEW d, Carries(t, from, to, file, d),
         from # "idle", to \notin Early
  PROVE  Kind(t)
<1>1. Moved(t, to, file, d, job[t].arg) /\ job[t].at = from
  BY CarriesIs, JobsShaped DEF TypesInv
<1>2. job[t].op # "none"
  BY <1>1, JobsFormed DEF JobFormed, Idling, Creating, Updating, Deleting, Filtering, Ingesting, Building,
     Generating, Training, Evaluating, Exporting, Importing, Generators
<1> QED BY <1>1, <1>2, CarriesKind

LEMMA EndsKind ==
  ASSUME TypesInv, NEW t \in Tasks, Ends(t), job[t].op # "none" \/ job[t].at # "idle"
  PROVE  Kind(t)
<1>1. Done(t)
  BY EndsDone DEF TypesInv
<1>2. job[t].op # "none"
  BY JobsFormed DEF JobFormed, Idling, Creating, Updating, Deleting, Filtering, Ingesting, Building,
     Generating, Training, Evaluating, Exporting, Importing, Generators
<1> QED BY <1>1, <1>2 DEF Kind

LEMMA StoreKind ==
  ASSUME TypesInv, NEW t \in Tasks, StoreStep(t)
  PROVE  Kind(t)
<1>0. JobFormed(job[t])
  BY JobsFormed
<1> USE DEF JobFormed, Idling, Creating, Updating, Deleting, Filtering, Ingesting, Building,
     Generating, Training, Evaluating, Exporting, Importing
<1>1. CASE CreateChecks(t)
  BY <1>1, OpsAre, StartsIs DEF CreateChecks, Generators
<1>2. CASE CreateMakesDirs(t)
  <2>1. Moved(t, "config", job[t].file, job[t].data, Fresh) /\ job[t].at = "dirs"
    BY <1>2, PatchIs, JobsShaped DEF CreateMakesDirs, TypesInv
  <2>2. job[t].op = "create"
    BY <1>0, <2>1 DEF Generators
  <2> QED BY <2>1, <2>2 DEF Kind, GoesOn, Generators
<1>3. ASSUME NEW op \in {"set_synth_model", "persist_last_run_id"}, UpdateBegins(t, op) PROVE Kind(t)
  BY <1>3, OpsAre, StartsIs DEF UpdateBegins, Generators
<1>p. ASSUME NEW field, NEW value, Patches(t, field, value), job[t].op # "none" PROVE Kind(t)
  <2> DEFINE c == [disk["toml"].data EXCEPT ![field] = value]
  <2>1. Moved(t, "config", job[t].file, job[t].data, c) /\ job[t].at = "get"
    BY <1>p, PatchIs, JobsShaped DEF Patches, Gets, TypesInv
  <2> HIDE DEF c
  <2> QED BY <1>p, <2>1 DEF Kind, GoesOn, Early
<1>4. CASE UpdatePatches(t)
  BY <1>4, <1>p DEF UpdatePatches
<1>5. ASSUME NEW s \in Seeds, SeedExplicit(t, s) \/ SeedFresh(t, s) PROVE Kind(t)
  BY <1>5, <1>p DEF SeedExplicit, SeedFresh
<1>6. CASE SeedStored(t)
  <2>1. Moved(t, "work", job[t].file, job[t].data, disk["toml"].data)
    BY <1>6, PatchIs, JobsShaped DEF SeedStored, TypesInv
  <2> QED BY <1>6, <2>1 DEF SeedStored, Kind, GoesOn, Early
<1>7. CASE ConfigOpens(t)
  <2>1. Moved(t, "config_opened", job[t].file, job[t].data, job[t].arg) /\ job[t].at = "config"
    BY <1>7, GoesIs, JobsShaped DEF ConfigOpens, TypesInv
  <2>2. job[t].op # "none"
    BY <1>0, <2>1 DEF Generators
  <2> QED BY <2>1, <2>2 DEF Kind, GoesOn, Early
<1>8. CASE ConfigWrites(t)
  <2>1. CASE Goes(t, "config_opened", "work")
    BY <2>1, GoesKind DEF Early
  <2>2. CASE Ends(t)
    BY <1>8, <2>2, EndsKind DEF ConfigWrites
  <2> QED BY <1>8, <2>1, <2>2 DEF ConfigWrites
<1> QED BY <1>1, <1>2, <1>3, <1>4, <1>5, <1>6, <1>7, <1>8 DEF StoreStep

LEMMA DeletesKind ==
  ASSUME TypesInv, NEW t \in Tasks, Deletes(t)
  PROVE  Kind(t)
<1>1. CASE DeleteChecks(t)
  BY <1>1, OpsAre, StartsIs DEF DeleteChecks, Generators
<1>2. CASE DeleteRemovesSome(t)
  BY <1>2, GoesKind DEF DeleteRemovesSome, Early
<1>3. CASE DeleteRemovesDir(t)
  <2>1. /\ Shaped' /\ Rest(t)
        /\ job'[t].op = "none" /\ job'[t].at = "idle" /\ job'[t].file = "none" /\ job'[t].alone
    BY <1>3, EndsIs, JobsShaped DEF DeleteRemovesDir, TypesInv
  <2>2. job[t].op = "delete"
    BY <1>3, JobsFormed DEF DeleteRemovesDir, JobFormed, Idling, Creating, Updating, Deleting, Filtering,
       Ingesting, Building,
     Generating, Training, Evaluating, Exporting, Importing, Generators
  <2> QED BY <1>3, <2>1, <2>2 DEF DeleteRemovesDir, Kind, Vanishes
<1> QED BY <1>1, <1>2, <1>3 DEF Deletes

LEMMA DataKind ==
  ASSUME TypesInv, NEW t \in Tasks, DataStep(t)
  PROVE  Kind(t)
<1> USE DEF Early
<1>1. CASE SwapBegins(t) \/ WritesLines(t)
  BY <1>1, GoesKind DEF SwapBegins, WritesLines
<1>2. ASSUME NEW arg, FilterOpens(t, arg) PROVE Kind(t)
  BY <1>2, OpsAre, StartsIs DEF FilterOpens, Generators
<1>3. CASE \E kept \in {{}, Chunks} : IngestBegins(t, kept)
  BY <1>3, OpsAre, StartsIs DEF IngestBegins, Generators
<1>4. ASSUME NEW kept, IngestRetries(t, kept) \/ IngestRenamesTwice(t, kept) PROVE Kind(t)
  <2>1. Moved(t, "open", job[t].file, kept, "retry") /\ job[t].op = "ingest"
    BY <1>4, AgainIs, JobsShaped DEF IngestRetries, IngestRenamesTwice, TypesInv
  <2> QED BY <2>1, CarriesKind
<1>5. CASE FilterRenames(t) \/ IngestRenames(t) \/ IngestKeepsNothing(t)
  BY <1>5, EndsKind DEF FilterRenames, IngestRenames, IngestKeepsNothing, ChunksRename
<1>6. CASE BuildBegins(t)
  BY <1>6, OpsAre, StartsIs DEF BuildBegins, Generators
<1>7. CASE BuildCopies(t) \/ RagRenames(t) \/ EmbedReads(t)
  BY <1>7, CarriesOnKind DEF BuildCopies, RagRenames, EmbedReads
<1>8. CASE EmbedSkips(t) \/ EmbedAdds(t)
  BY <1>8, EndsKind DEF EmbedSkips, EmbedAdds
<1>9. CASE EmbedDeletes(t)
  BY <1>9, GoesKind DEF EmbedDeletes
<1>10. CASE GenerateBegins(t)
  BY <1>10, OpsAre, StartsIs DEF GenerateBegins, Generators
<1>11. CASE ImportHfBegins(t)
  BY <1>11, OpsAre, StartsIs DEF ImportHfBegins, Generators
<1>12. CASE \/ \E ps, held \in SUBSET Pairs : Synthesizes(t, ps, held)
             \/ (\E q \in Requests : Downloads(t, q)) \/ SftRenames(t)
  <2>1. PICK from, file, d : \/ from = "work" /\ Carries(t, from, "open", file, d)
                             \/ from = "written" /\ Carries(t, from, "open", file, d)
    BY <1>12, DownloadsIs DEF Synthesizes, SftRenames
  <2> QED BY <2>1, CarriesOnKind
<1>13. CASE EvalRenames(t) \/ TrainLoads(t) \/ EvalReports(t)
  BY <1>13, EndsKind DEF EvalRenames, TrainLoads, EvalReports
<1>14. CASE TrainBegins(t)
  BY <1>14, OpsAre, StartsIs DEF TrainBegins, Generators
<1>15. CASE EvalLoads(t)
  <2>1. PICK d, a : Begins(t, Job("eval", "score", "none", d, a))
    BY <1>15 DEF EvalLoads
  <2> QED BY <2>1, OpsAre, StartsIs DEF Generators
<1>16. ASSUME NEW p, NEW fails, EvalScores(t, p, fails) PROVE Kind(t)
  <2>1. PICK d, a : job' = [job EXCEPT ![t].data = d, ![t].arg = a]
    BY <1>16 DEF EvalScores
  <2>2. Moved(t, job[t].at, job[t].file, d, a) /\ job[t].at = "score"
    BY <1>16, <2>1, ScoreIs, JobsShaped DEF EvalScores, TypesInv
  <2>3. job[t].op # "none"
    BY <2>2, JobsFormed DEF JobFormed, Idling, Creating, Updating, Deleting, Filtering, Ingesting, Building,
     Generating, Training, Evaluating, Exporting, Importing, Generators
  <2> QED BY <2>2, <2>3, CarriesKind
<1>17. CASE EvalGathers(t)
  BY <1>17, GoesKind DEF EvalGathers
<1> QED
  BY <1>1, <1>2, <1>3, <1>4, <1>5, <1>6, <1>7, <1>8, <1>9, <1>10, <1>11, <1>12, <1>13, <1>14, <1>15,
     <1>16, <1>17 DEF DataStep

LEMMA CorpusKind ==
  ASSUME TypesInv, NEW t \in Tasks, CorpusStep(t)
  PROVE  Kind(t)
<1> USE DEF Early
<1>1. ASSUME NEW k, ExportBegins(t, k) PROVE Kind(t)
  BY <1>1, OpsAre, StartsIs DEF ExportBegins, Generators
<1>2. CASE ExportMakesDir(t) \/ ExportCopiesStore(t) \/ ExportOpensManifest(t) \/ ImportOpens(t)
  BY <1>2, GoesKind DEF ExportMakesDir, ExportCopiesStore, ExportOpensManifest, ImportOpens
<1>3. CASE ExportCopies(t) \/ ImportSkips(t) \/ ImportWrites(t)
  BY <1>3, CarriesOnKind DEF ExportCopies, ImportSkips, ImportWrites
<1>4. CASE ExportWritesManifest(t) \/ ImportCopiesStore(t)
  BY <1>4, EndsKind DEF ExportWritesManifest, ImportCopiesStore
<1>5. ASSUME NEW k, NEW include_sft, ImportBegins(t, k, include_sft) PROVE Kind(t)
  BY <1>5, OpsAre, StartsIs DEF ImportBegins, Generators
<1> QED BY <1>1, <1>2, <1>3, <1>4, <1>5 DEF CorpusStep

LEMMA StepKind ==
  ASSUME TypesInv, NEW t \in Tasks, Step(t)
  PROVE  Kind(t)
<1>1. CASE BreaksOff(t)
  BY <1>1, EndsKind DEF BreaksOff
<1> QED BY <1>1, StoreKind, DeletesKind, DataKind, CorpusKind DEF Step

---------------------------------------------------------------------------
(* Who writes beside whom                                                  *)

RacedInv ==
  \A g \in {"toml", "chunks"} \ raced, u, v \in Tasks : g \in ToWrite(u) /\ g \in ToWrite(v) => u = v

AloneInv ==
  \A t, u \in Tasks : t # u /\ job[t].alone =>
    /\ ToWrite(t) \cap ToWrite(u) = {}
    /\ ToWrite(t) \cap Reads[job[u].op] = {}
    /\ Reads[job[t].op] \cap ToWrite(u) = {}

WritersInv == RacedInv /\ AloneInv

LEMMA ToWriteIs ==
  ASSUME NEW t, job[t].op \notin Generators \/ job[t].at \in Early
  PROVE  ToWrite(t) = Writes[job[t].op]
BY DEF ToWrite, Generators, Early

LEMMA NoneWrites == Writes["none"] = {} /\ Reads["none"] = {}
BY DEF Writes, Reads

LEMMA WritersKept ==
  ASSUME TypesInv, WritersInv, NEW t \in Tasks, Kind(t)
  PROVE  WritersInv'
<1>1. CASE Starts(t)
  <2>0. PICK op \in DOMAIN Writes :
          \E at, file, d, a : Begun(t, op, at, file, d, a) /\ (op \in Generators => at = "get")
    BY <1>1 DEF Starts
  <2>1. PICK at, file, d, a : Begun(t, op, at, file, d, a) /\ (op \in Generators => at = "get")
    BY <2>0
  <2>2. ToWrite(t)' = Writes[op] /\ job'[t].op = op
    BY <2>1 DEF Begun, ToWrite, Generators
  <2>3. ToWrite(t) = {}
    BY <2>1, NoneWrites, ToWriteIs DEF Begun, Generators
  <2>4. \A u \in Tasks \ {t} : ToWrite(u)' = ToWrite(u) /\ job'[u].op = job[u].op
    BY <2>1 DEF Begun, ToWrite
  <2>5. RacedInv'
    <3> SUFFICES ASSUME NEW g \in {"toml", "chunks"}, g \notin raced', NEW u \in Tasks, NEW v \in Tasks,
                        g \in ToWrite(u)', g \in ToWrite(v)'
                 PROVE u = v
      BY DEF RacedInv
    <3>1. raced' = raced \cup ({"toml", "chunks"} \cap Writes[op] \cap UNION {ToWrite(w) : w \in Tasks \ {t}})
      BY <2>1 DEF Begun
    <3>2. g \notin raced
      BY <3>1
    <3>3. g \in Writes[op] => \A w \in Tasks \ {t} : g \notin ToWrite(w)
      BY <3>1
    <3> QED BY <2>2, <2>4, <3>2, <3>3 DEF WritersInv, RacedInv
  <2>6. ASSUME NEW u \in Tasks, NEW v \in Tasks, u # v, job'[u].alone
        PROVE /\ ToWrite(u)' \cap ToWrite(v)' = {}
              /\ ToWrite(u)' \cap Reads[job'[v].op] = {}
              /\ Reads[job'[u].op] \cap ToWrite(v)' = {}
    <3>1. CASE u = t
      <4>1. v \notin Rivals(t, op)
        BY <2>1, <2>6, <3>1 DEF Begun
      <4>2. ToWrite(v) \cap (Writes[op] \cup Reads[op]) = {} /\ Writes[op] \cap Reads[job[v].op] = {}
        BY <2>6, <3>1, <4>1 DEF Rivals
      <4> QED BY <2>2, <2>4, <2>6, <3>1, <4>2
    <3>2. CASE v = t
      <4>1. u \notin Rivals(t, op)
        BY <2>1, <2>6, <3>2 DEF Begun
      <4>2. ToWrite(u) \cap (Writes[op] \cup Reads[op]) = {} /\ Writes[op] \cap Reads[job[u].op] = {}
        BY <2>6, <3>2, <4>1 DEF Rivals
      <4> QED BY <2>2, <2>4, <2>6, <3>2, <4>2
    <3>3. CASE u # t /\ v # t
      <4>1. job[u].alone
        BY <2>1, <2>6, <3>3 DEF Begun
      <4> QED BY <2>4, <2>6, <3>3, <4>1 DEF WritersInv, AloneInv
    <3> QED BY <3>1, <3>2, <3>3
  <2> QED BY <2>5, <2>6 DEF WritersInv, AloneInv
<1>2. ASSUME Rest(t), ToWrite(t)' \subseteq ToWrite(t), Reads[job'[t].op] \subseteq Reads[job[t].op],
             \A g \in {"toml", "chunks"} : g \in raced => g \in raced' \/ \A w \in Tasks \ {t} : g \notin ToWrite(w),
             (job'[t].alone => job[t].alone) \/ job'[t].op = "none"
      PROVE WritersInv'
  <2>1. \A u \in Tasks \ {t} : ToWrite(u)' = ToWrite(u) /\ job'[u] = job[u]
    BY <1>2 DEF Rest, ToWrite
  <2>2. RacedInv'
    <3> SUFFICES ASSUME NEW g \in {"toml", "chunks"}, g \notin raced', NEW u \in Tasks, NEW v \in Tasks,
                        g \in ToWrite(u)', g \in ToWrite(v)'
                 PROVE u = v
      BY DEF RacedInv
    <3> QED BY <1>2, <2>1 DEF WritersInv, RacedInv
  <2>3. job'[t].op = "none" => ToWrite(t)' = {} /\ Reads[job'[t].op] = {}
    BY NoneWrites DEF ToWrite
  <2>4. AloneInv'
    <3> SUFFICES ASSUME NEW u \in Tasks, NEW v \in Tasks, u # v, job'[u].alone
                 PROVE /\ ToWrite(u)' \cap ToWrite(v)' = {}
                       /\ ToWrite(u)' \cap Reads[job'[v].op] = {}
                       /\ Reads[job'[u].op] \cap ToWrite(v)' = {}
      BY DEF AloneInv
    <3>1. CASE u = t /\ job'[t].op = "none"
      BY <2>3, <3>1
    <3>2. CASE job[u].alone
      <4>1. /\ ToWrite(u) \cap ToWrite(v) = {} /\ ToWrite(u) \cap Reads[job[v].op] = {}
            /\ Reads[job[u].op] \cap ToWrite(v) = {}
        BY <3>2 DEF WritersInv, AloneInv
      <4> QED BY <1>2, <2>1, <4>1
    <3> QED BY <1>2, <2>1, <3>1, <3>2
  <2> QED BY <2>2, <2>4 DEF WritersInv
<1>3. CASE GoesOn(t)
  <2>1. PICK at, file, d, a :
          /\ Moved(t, at, file, d, a) /\ job[t].op # "none"
          /\ job[t].op \in Generators /\ job[t].at \notin Early => at \notin Early
    BY <1>3 DEF GoesOn
  <2>2. job'[t].op = job[t].op /\ job'[t].at = at /\ job'[t].alone = job[t].alone /\ raced' = raced /\ Rest(t)
    BY <2>1 DEF Moved, JobIs
  <2>3. ToWrite(t)' \subseteq ToWrite(t)
    <3>1. CASE job[t].op \in Generators
      BY <2>1, <2>2, <3>1 DEF ToWrite, Generators, Early, Writes
    <3>2. CASE job[t].op \notin Generators
      BY <2>2, <3>2 DEF ToWrite, Generators
    <3> QED BY <3>1, <3>2
  <2> QED BY <1>2, <2>2, <2>3
<1>4. CASE Done(t) \/ Vanishes(t)
  <2>1. Rest(t) /\ job'[t].op = "none"
    BY <1>4 DEF Done, Vanishes
  <2>2. ToWrite(t)' = {} /\ Reads[job'[t].op] = {}
    BY <2>1, NoneWrites DEF ToWrite
  <2>3. \A g \in {"toml", "chunks"} : g \in raced => g \in raced' \/ \A w \in Tasks \ {t} : g \notin ToWrite(w)
    BY <1>4 DEF Done, Vanishes
  <2> QED BY <1>2, <2>1, <2>2, <2>3
<1> QED BY <1>1, <1>3, <1>4 DEF Kind

LEMMA NoneToWrite ==
  ASSUME TypesInv, NEW t \in Tasks, job[t].op = "none"
  PROVE  ToWrite(t) = {} /\ Reads[job[t].op] = {}
BY NoneWrites DEF ToWrite

LEMMA WritersInit == ASSUME Init PROVE WritersInv
<1>1. \A t \in Tasks : job[t].op = "none"
  BY DEF Init, Idle, Job
<1>2. \A t \in Tasks : ToWrite(t) = {} /\ Reads[job[t].op] = {}
  BY <1>1, TypesInit, NoneToWrite
<1> QED BY <1>2 DEF WritersInv, RacedInv, AloneInv

\* The steps at which a task has a file open.
OpenAts == {"opened", "copying", "config_opened"}

---------------------------------------------------------------------------
(* What a step of t does to the files                                      *)

Untouched(t) ==
  /\ disk' = disk /\ tmp' = tmp
  /\ job[t].at \in OpenAts => job'[t].at = job[t].at /\ job'[t].file = job[t].file

SwapStarted(t, f) ==
  /\ job'[t].file = f /\ job'[t].at = "opened" /\ job[t].at \notin OpenAts
  /\ disk' = disk /\ TmpRest(f) /\ OpenedBy(tmp'[f], tmp[f], t)

SwapFilled(t, f) ==
  /\ job[t].file = f /\ job[t].at = "opened" /\ job'[t].at = "written"
  /\ \E d : SwapWritten(t, f, d)

InPlace(j, f) == (j.at = "copying" /\ j.file = f) \/ (j.at = "config_opened" /\ f = "toml")

PlaceStarted(t, f) ==
  /\ InPlace(job'[t], f) /\ job[t].at \notin OpenAts
  /\ f = "toml" => job[t].at = "config"
  /\ f # "toml" => job[t].file = f
  /\ tmp' = tmp /\ DiskRest(f) /\ OpenedBy(disk'[f], disk[f], t)

PlaceFilled(t, f) ==
  /\ InPlace(job[t], f) /\ job'[t].at \notin OpenAts
  /\ \E d : PlaceWritten(t, f, d)

SwapEnded(t, f) ==
  /\ job[t].file = f /\ job[t].at = "written" /\ job'[t].at \notin OpenAts
  /\ TmpRest(f) /\ tmp'[f] = NoFile /\ DiskRest(f) /\ disk'[f] \in {tmp[f], disk[f]}

LeftAll(t) ==
  /\ job'[t].at \notin OpenAts
  /\ \A f \in Files : LeftBy(disk'[f], disk[f], t) /\ LeftBy(tmp'[f], tmp[f], t)

Removed(t) ==
  /\ job[t].op = "delete" /\ job'[t].at \notin OpenAts
  /\ \A f \in Files : disk'[f] \in {disk[f], NoFile} /\ tmp'[f] \in {tmp[f], NoFile}

FilesStep(t) ==
  \/ Untouched(t) \/ LeftAll(t) \/ Removed(t)
  \/ \E f \in Files : \/ SwapStarted(t, f) \/ SwapFilled(t, f) \/ PlaceStarted(t, f)
                      \/ PlaceFilled(t, f) \/ SwapEnded(t, f)

LEMMA IdleAt == ASSUME TypesInv, NEW t \in Tasks, job[t].op = "none" PROVE job[t].at = "idle"
BY JobsFormed DEF JobFormed, Idling, Creating, Updating, Deleting, Filtering, Ingesting, Building,
     Generating, Training, Evaluating, Exporting, Importing, Generators

LEMMA StoreFiles ==
  ASSUME TypesInv, NEW t \in Tasks, StoreStep(t)
  PROVE  FilesStep(t)
<1>0. JobFormed(job[t]) /\ "toml" \in Files
  BY JobsFormed DEF Files
<1>1. CASE CreateChecks(t)
  BY <1>1, IdleAt DEF CreateChecks, Begins, filevars, FilesStep, Untouched, OpenAts
<1>2. CASE CreateMakesDirs(t)
  BY <1>2 DEF CreateMakesDirs, FilesStep, Untouched, OpenAts
<1>3. ASSUME NEW op \in {"set_synth_model", "persist_last_run_id"}, UpdateBegins(t, op) PROVE FilesStep(t)
  BY <1>3, IdleAt DEF UpdateBegins, Begins, filevars, FilesStep, Untouched, OpenAts
<1>p. ASSUME NEW field, NEW value, Patches(t, field, value) PROVE FilesStep(t)
  BY <1>p DEF Patches, Gets, filevars, FilesStep, Untouched, OpenAts
<1>4. CASE UpdatePatches(t)
  BY <1>4, <1>p DEF UpdatePatches
<1>5. ASSUME NEW s \in Seeds, SeedExplicit(t, s) \/ SeedFresh(t, s) PROVE FilesStep(t)
  BY <1>5, <1>p DEF SeedExplicit, SeedFresh
<1>6. CASE SeedStored(t)
  BY <1>6 DEF SeedStored, Gets, filevars, FilesStep, Untouched, OpenAts
<1>7. CASE ConfigOpens(t)
  <2>1. Moved(t, "config_opened", job[t].file, job[t].data, job[t].arg) /\ job[t].at = "config"
    BY <1>7, GoesIs, JobsShaped DEF ConfigOpens, TypesInv
  <2>2. tmp' = tmp /\ DiskRest("toml") /\ OpenedBy(disk'["toml"], disk["toml"], t)
    BY <1>7, <1>0, PlaceOpensIs DEF ConfigOpens, TypesInv, FilesTyped
  <2> QED BY <1>0, <2>1, <2>2 DEF Moved, JobIs, FilesStep, PlaceStarted, InPlace, OpenAts
<1>8. CASE ConfigWrites(t)
  <2>1. PlaceWritten(t, "toml", job[t].arg) /\ job[t].at = "config_opened"
    BY <1>8, <1>0, PlaceWritesIs DEF ConfigWrites, TypesInv, FilesTyped
  <2>2. job'[t].at \in {"work", "idle"}
    <3>1. CASE Goes(t, "config_opened", "work")
      BY <3>1, GoesIs, JobsShaped DEF TypesInv, Moved, JobIs
    <3>2. CASE Ends(t)
      BY <3>2, EndsDone DEF TypesInv, Done
    <3> QED BY <1>8, <3>1, <3>2 DEF ConfigWrites
  <2> QED BY <1>0, <2>1, <2>2 DEF FilesStep, PlaceFilled, InPlace, OpenAts
<1> QED BY <1>1, <1>2, <1>3, <1>4, <1>5, <1>6, <1>7, <1>8 DEF StoreStep

LEMMA DeletesFiles ==
  ASSUME TypesInv, NEW t \in Tasks, Deletes(t)
  PROVE  FilesStep(t)
<1>0. JobFormed(job[t])
  BY JobsFormed
<1>1. CASE DeleteChecks(t)
  BY <1>1, IdleAt DEF DeleteChecks, Begins, filevars, FilesStep, Untouched, OpenAts
<1>2. CASE DeleteRemovesSome(t)
  <2>1. Moved(t, "rmdir", job[t].file, job[t].data, job[t].arg) /\ job[t].at = "remove"
    BY <1>2, GoesIs, JobsShaped DEF DeleteRemovesSome, TypesInv
  <2>2. job[t].op = "delete"
    BY <1>0, <2>1 DEF JobFormed, Idling, Creating, Updating, Deleting, Filtering, Ingesting, Building,
     Generating, Training, Evaluating, Exporting, Importing, Generators
  <2>3. PICK gone : disk' = [f \in Files |-> IF f \in gone THEN NoFile ELSE disk[f]]
    BY <1>2 DEF DeleteRemovesSome
  <2>4. \A f \in Files : disk'[f] \in {disk[f], NoFile} /\ tmp'[f] \in {tmp[f], NoFile}
    BY <1>2, <2>3 DEF DeleteRemovesSome
  <2> QED BY <2>1, <2>2, <2>4 DEF Moved, JobIs, FilesStep, Removed, OpenAts
<1>3. CASE DeleteRemovesDir(t)
  <2>1. job'[t].at = "idle"
    BY <1>3, EndsIs, JobsShaped DEF DeleteRemovesDir, TypesInv
  <2>2. job[t].op = "delete"
    BY <1>0, <1>3 DEF DeleteRemovesDir, JobFormed, Idling, Creating, Updating, Deleting, Filtering,
       Ingesting, Building,
     Generating, Training, Evaluating, Exporting, Importing, Generators
  <2> QED BY <1>3, <2>1, <2>2 DEF DeleteRemovesDir, FilesStep, Removed, OpenAts
<1> QED BY <1>1, <1>2, <1>3 DEF Deletes

\* Steps that do not touch the files.
LEMMA QuietFiles ==
  ASSUME TypesInv, NEW t \in Tasks, UNCHANGED <<disk, tmp>>,
         \/ \E from, to : Goes(t, from, to) /\ from \notin OpenAts
         \/ \E from, to, file, d : Carries(t, from, to, file, d) /\ from \notin OpenAts
         \/ job[t].at \notin OpenAts
         \/ \E j : Begins(t, j)
  PROVE  FilesStep(t)
<1>1. job[t].at \notin OpenAts
  BY IdleAt DEF Goes, Carries, Begins, OpenAts
<1> QED BY <1>1 DEF FilesStep, Untouched

LEMMA EndedAt == ASSUME TypesInv, NEW t \in Tasks, Ends(t) PROVE job'[t].at = "idle"
BY EndsDone DEF TypesInv, Done

LEMMA DataFiles ==
  ASSUME TypesInv, NEW t \in Tasks, DataStep(t)
  PROVE  FilesStep(t)
<1>0. JobFormed(job[t]) /\ {"chunks", "rag", "sft", "eval"} \subseteq Files /\ FilesShaped
  BY JobsFormed DEF Files, TypesInv, FilesTyped
<1>1. CASE SwapBegins(t)
  <2>1. Moved(t, "opened", job[t].file, job[t].data, job[t].arg) /\ job[t].at = "open"
    BY <1>1, GoesIs, JobsShaped DEF SwapBegins, TypesInv
  <2>2. job[t].file \in Files
    BY <1>0, <2>1 DEF JobFormed, Idling, Creating, Updating, Deleting, Filtering, Ingesting, Building,
     Generating, Training, Evaluating, Exporting, Importing, Generators
  <2>3. disk' = disk /\ TmpRest(job[t].file) /\ OpenedBy(tmp'[job[t].file], tmp[job[t].file], t)
    BY <1>0, <1>1, <2>2, SwapOpensIs DEF SwapBegins
  <2> QED BY <2>1, <2>2, <2>3 DEF Moved, JobIs, FilesStep, SwapStarted, OpenAts
<1>2. CASE WritesLines(t)
  <2>1. Moved(t, "written", job[t].file, job[t].data, job[t].arg) /\ job[t].at = "opened"
    BY <1>2, GoesIs, JobsShaped DEF WritesLines, TypesInv
  <2>2. job[t].file \in Files
    BY <1>0, <2>1 DEF JobFormed, Idling, Creating, Updating, Deleting, Filtering, Ingesting, Building,
     Generating, Training, Evaluating, Exporting, Importing, Generators
  <2>3. PICK d : SwapWritten(t, job[t].file, d)
    BY <1>0, <1>2, <2>2, SwapWritesIs DEF WritesLines
  <2> QED BY <2>1, <2>2, <2>3 DEF Moved, JobIs, FilesStep, SwapFilled
<1>3. ASSUME NEW arg, FilterOpens(t, arg) PROVE FilesStep(t)
  <2>1. PICK d : Begins(t, Job("filter", "opened", "chunks", d, arg))
    BY <1>3 DEF FilterOpens
  <2>2. Begun(t, "filter", "opened", "chunks", d, arg)
    BY <2>1, JobBegun
  <2>3. disk' = disk /\ TmpRest("chunks") /\ OpenedBy(tmp'["chunks"], tmp["chunks"], t)
    BY <1>0, <1>3, SwapOpensIs DEF FilterOpens
  <2>4. job[t].at = "idle"
    BY <2>2, IdleAt DEF Begun
  <2> QED BY <1>0, <2>2, <2>3, <2>4 DEF Begun, FilesStep, SwapStarted, OpenAts
<1>4. CASE (\E kept \in {{}, Chunks} : IngestBegins(t, kept)) \/ BuildBegins(t) \/ GenerateBegins(t)
           \/ ImportHfBegins(t) \/ TrainBegins(t) \/ EvalLoads(t)
  BY <1>4, QuietFiles DEF IngestBegins, BuildBegins, GenerateBegins, ImportHfBegins, TrainBegins, EvalLoads,
     filevars
<1>5. ASSUME NEW kept, IngestRetries(t, kept) PROVE FilesStep(t)
  <2>1. Moved(t, "open", job[t].file, kept, "retry")
    BY <1>5, AgainIs, JobsShaped DEF IngestRetries, TypesInv
  <2>2. \A f \in Files : LeftBy(disk'[f], disk[f], t) /\ LeftBy(tmp'[f], tmp[f], t)
    BY <1>0, <1>5, LeavesFilesIs DEF IngestRetries
  <2> QED BY <2>1, <2>2 DEF Moved, JobIs, FilesStep, LeftAll, OpenAts
<1>6. ASSUME NEW f \in {"chunks", "rag", "sft", "eval"}, job[t].file = f, job[t].at = "written",
             job'[t].at \notin OpenAts, SwapRenames(f) \/ SwapDiscards(f)
      PROVE  FilesStep(t)
  <2>1. TmpRest(f) /\ tmp'[f] = NoFile /\ DiskRest(f) /\ disk'[f] \in {tmp[f], disk[f]}
    BY <1>0, <1>6, SwapRenamesIs, SwapDiscardsIs DEF DiskRest
  <2> QED BY <1>0, <1>6, <2>1 DEF FilesStep, SwapEnded
<1>7. CASE FilterRenames(t) \/ IngestRenames(t)
  BY <1>6, <1>7, EndedAt DEF FilterRenames, IngestRenames, ChunksRename, OpenAts
<1>7a. ASSUME NEW kept, IngestRenamesTwice(t, kept) PROVE FilesStep(t)
  <2>1. Moved(t, "open", job[t].file, kept, "retry")
    BY <1>7a, AgainIs, JobsShaped DEF IngestRenamesTwice, TypesInv
  <2> QED BY <1>6, <1>7a, <2>1 DEF IngestRenamesTwice, ChunksRename, Moved, JobIs, OpenAts
<1>8. CASE IngestKeepsNothing(t)
  <2>1. job[t].file = "chunks"
    BY <1>0, <1>8 DEF IngestKeepsNothing, JobFormed, Idling, Creating, Updating, Deleting, Filtering,
       Ingesting, Building,
     Generating, Training, Evaluating, Exporting, Importing, Generators
  <2> QED BY <1>6, <1>8, <2>1, EndedAt DEF IngestKeepsNothing, OpenAts
<1>9. CASE BuildCopies(t)
  <2>1. PICK d : Carries(t, "opened", "opened", "rag", d)
    BY <1>9 DEF BuildCopies
  <2>2. Moved(t, "opened", "rag", d, job[t].arg) /\ job[t].at = "opened"
    BY <2>1, CarriesIs, JobsShaped DEF TypesInv
  <2> QED BY <1>9, <2>2 DEF BuildCopies, Moved, JobIs, FilesStep, Untouched, filevars
<1>10. CASE RagRenames(t)
  <2>1. Moved(t, "embed", "rag", job[t].data, job[t].arg) /\ job[t].at = "written"
    BY <1>10, CarriesIs, JobsShaped DEF RagRenames, TypesInv
  <2> QED BY <1>6, <1>10, <2>1 DEF RagRenames, Moved, JobIs, OpenAts
<1>11. CASE SftRenames(t)
  <2>1. Moved(t, "open", "eval", job[t].data, job[t].arg) /\ job[t].at = "written"
    BY <1>11, CarriesIs, JobsShaped DEF SftRenames, TypesInv
  <2> QED BY <1>6, <1>11, <2>1 DEF SftRenames, Moved, JobIs, OpenAts
<1>12. CASE EvalRenames(t)
  BY <1>6, <1>12, EndedAt DEF EvalRenames, OpenAts
<1>13. CASE EmbedReads(t) \/ EmbedSkips(t) \/ EmbedDeletes(t) \/ EmbedAdds(t)
  <2>1. job[t].at \in {"embed", "delete", "add"}
    BY <1>13 DEF EmbedReads, EmbedSkips, EmbedDeletes, EmbedAdds, Carries, Goes
  <2>2. UNCHANGED <<disk, tmp>>
    BY <1>13 DEF EmbedReads, EmbedSkips, EmbedDeletes, EmbedAdds, filevars
  <2>3. job[t].at \notin OpenAts
    BY <2>1 DEF OpenAts
  <2> QED BY <2>2, <2>3, QuietFiles
<1>14. CASE (\E ps, held \in SUBSET Pairs : Synthesizes(t, ps, held)) \/ (\E q \in Requests : Downloads(t, q))
  BY <1>14, QuietFiles DEF Synthesizes, Downloads, OpenAts, filevars
<1>15. CASE TrainLoads(t) \/ (\E p \in Pairs, fails \in BOOLEAN : EvalScores(t, p, fails))
            \/ EvalGathers(t) \/ EvalReports(t)
  <2>1. job[t].at \in {"train", "score", "report"}
    BY <1>15 DEF TrainLoads, EvalScores, EvalGathers, EvalReports, Goes
  <2>2. UNCHANGED <<disk, tmp>>
    BY <1>15 DEF TrainLoads, EvalScores, EvalGathers, EvalReports, filevars
  <2>3. job[t].at \notin OpenAts
    BY <2>1 DEF OpenAts
  <2> QED BY <2>2, <2>3, QuietFiles
<1> QED
  BY <1>1, <1>2, <1>3, <1>4, <1>5, <1>7, <1>7a, <1>8, <1>9, <1>10, <1>11, <1>12, <1>13, <1>14, <1>15 DEF DataStep

LEMMA CorpusFiles ==
  ASSUME TypesInv, NEW t \in Tasks, CorpusStep(t)
  PROVE  FilesStep(t)
<1>0. JobFormed(job[t]) /\ {"rag", "sft", "eval"} \subseteq Files /\ FilesShaped
  BY JobsFormed DEF Files, TypesInv, FilesTyped
<1>1. CASE (\E k \in Names : ExportBegins(t, k))
           \/ (\E k \in Names, include_sft \in BOOLEAN : ImportBegins(t, k, include_sft))
  BY <1>1, QuietFiles DEF ExportBegins, ImportBegins, filevars
<1>2. CASE ExportMakesDir(t) \/ ExportCopies(t) \/ ExportCopiesStore(t) \/ ExportOpensManifest(t)
  BY <1>2, QuietFiles DEF ExportMakesDir, ExportCopies, ExportCopiesStore, ExportOpensManifest, OpenAts,
     filevars
<1>3. CASE ExportWritesManifest(t) \/ ImportSkips(t) \/ ImportCopiesStore(t)
  BY <1>3, QuietFiles DEF ExportWritesManifest, ImportSkips, ImportCopiesStore, OpenAts, filevars
<1>4. CASE ImportOpens(t)
  <2>1. /\ Moved(t, "copying", job[t].file, job[t].data, job[t].arg) /\ job[t].at = "copy"
        /\ job[t].op = "import" /\ job[t].file # "store"
    BY <1>4, GoesIs, JobsShaped DEF ImportOpens, TypesInv
  <2>2. job[t].file \in {"rag", "sft", "eval"}
    BY <1>0, <2>1 DEF JobFormed, Idling, Creating, Updating, Deleting, Filtering, Ingesting, Building,
     Generating, Training, Evaluating, Exporting, Importing, Generators
  <2>3. tmp' = tmp /\ DiskRest(job[t].file) /\ OpenedBy(disk'[job[t].file], disk[job[t].file], t)
    BY <1>0, <1>4, <2>2, PlaceOpensIs DEF ImportOpens
  <2> QED BY <1>0, <2>1, <2>2, <2>3 DEF Moved, JobIs, FilesStep, PlaceStarted, InPlace, OpenAts
<1>5. CASE ImportWrites(t)
  <2>1. Moved(t, "copy", FollowingFile(t), Absent, job[t].arg) /\ job[t].at = "copying"
    BY <1>5, CarriesIs, JobsShaped DEF ImportWrites, TypesInv
  <2>2. job[t].file \in {"rag", "sft", "eval"}
    BY <1>0, <2>1 DEF JobFormed, Idling, Creating, Updating, Deleting, Filtering, Ingesting, Building,
     Generating, Training, Evaluating, Exporting, Importing, Generators
  <2>3. PICK d : PlaceWritten(t, job[t].file, d)
    BY <1>0, <1>5, <2>2, PlaceWritesIs DEF ImportWrites
  <2> QED BY <1>0, <2>1, <2>2, <2>3 DEF Moved, JobIs, FilesStep, PlaceFilled, InPlace, OpenAts
<1> QED BY <1>1, <1>2, <1>3, <1>4, <1>5 DEF CorpusStep

LEMMA StepFiles ==
  ASSUME TypesInv, NEW t \in Tasks, Step(t)
  PROVE  FilesStep(t)
<1>1. CASE BreaksOff(t)
  <2>1. \A f \in Files : LeftBy(disk'[f], disk[f], t) /\ LeftBy(tmp'[f], tmp[f], t)
    BY <1>1, LeavesFilesIs DEF BreaksOff, TypesInv, FilesTyped
  <2> QED BY <1>1, <2>1, EndedAt DEF BreaksOff, FilesStep, LeftAll, OpenAts
<1> QED BY <1>1, StoreFiles, DeletesFiles, DataFiles, CorpusFiles DEF Step

---------------------------------------------------------------------------
(* Who has a file open                                                     *)

HandlesInv ==
  \A f \in Files, u \in Tasks :
    /\ u \in tmp[f].open => job[u].at = "opened" /\ job[u].file = f
    /\ u \in disk[f].open => (job[u].at = "opened" /\ job[u].file = f) \/ InPlace(job[u], f)
    /\ u \notin tmp[f].open \cap disk[f].open

\* The other tasks are where they were.
LEMMA OthersKept ==
  ASSUME TypesInv, NEW t \in Tasks, Kind(t), NEW u \in Tasks \ {t}
  PROVE  /\ job'[u].op = job[u].op /\ job'[u].at = job[u].at /\ job'[u].file = job[u].file
         /\ job'[u].data = job[u].data /\ job'[u].arg = job[u].arg
         /\ ToWrite(u)' = ToWrite(u)
         /\ job'[u].alone => job[u].alone
<1>1. /\ job'[u].op = job[u].op /\ job'[u].at = job[u].at /\ job'[u].file = job[u].file
      /\ job'[u].data = job[u].data /\ job'[u].arg = job[u].arg
      /\ job'[u].alone => job[u].alone
  BY DEF Kind, Starts, GoesOn, Vanishes, Begun, Moved, Done, Rest
<1> QED BY <1>1 DEF ToWrite

LEMMA HandlesOf ==
  ASSUME HandlesInv, NEW t \in Tasks, NEW f \in Files
  PROVE  /\ t \in tmp[f].open => job[t].at = "opened" /\ job[t].file = f
         /\ t \in disk[f].open => job[t].at \in OpenAts
         /\ job[t].at \notin OpenAts => t \notin tmp[f].open /\ t \notin disk[f].open
BY DEF HandlesInv, OpenAts, InPlace

LEMMA HandlesKept ==
  ASSUME TypesInv, HandlesInv, NEW t \in Tasks, Kind(t), FilesStep(t)
  PROVE  HandlesInv'
<1> SUFFICES ASSUME NEW f \in Files, NEW u \in Tasks
             PROVE /\ u \in tmp'[f].open => job'[u].at = "opened" /\ job'[u].file = f
                   /\ u \in disk'[f].open => (job'[u].at = "opened" /\ job'[u].file = f) \/ InPlace(job'[u], f)
                   /\ u \notin tmp'[f].open \cap disk'[f].open
  BY DEF HandlesInv, InPlace
<1>0. /\ u \in tmp[f].open => job[u].at = "opened" /\ job[u].file = f
      /\ u \in disk[f].open => (job[u].at = "opened" /\ job[u].file = f) \/ InPlace(job[u], f)
      /\ u \notin tmp[f].open \cap disk[f].open
  BY DEF HandlesInv
<1>1. CASE u # t
  <2>1. u \in tmp'[f].open => u \in tmp[f].open
    BY <1>1, NoFileIs
    DEF FilesStep, Untouched, LeftAll, Removed, SwapStarted, SwapFilled, PlaceStarted, PlaceFilled, SwapEnded,
        TmpRest, OpenedBy, SwapWritten, PlaceWritten, WrittenBy, LeftBy
  <2>2. u \in disk'[f].open => u \in disk[f].open \/ u \in tmp[f].open
    BY <1>1, NoFileIs
    DEF FilesStep, Untouched, LeftAll, Removed, SwapStarted, SwapFilled, PlaceStarted, PlaceFilled, SwapEnded,
        DiskRest, OpenedBy, SwapWritten, PlaceWritten, WrittenBy, LeftBy
  <2>3. u \in disk'[f].open /\ u \notin disk[f].open => u \notin tmp'[f].open
    BY <1>1, NoFileIs
    DEF FilesStep, Untouched, LeftAll, Removed, SwapStarted, SwapFilled, PlaceStarted, PlaceFilled, SwapEnded,
        DiskRest, TmpRest, OpenedBy, SwapWritten, PlaceWritten, WrittenBy, LeftBy
  <2> QED BY <1>0, <1>1, <2>1, <2>2, <2>3, OthersKept DEF InPlace
<1>2. CASE u = t
  <2>0. job[t].at \notin OpenAts => t \notin tmp[f].open /\ t \notin disk[f].open
    BY HandlesOf
  <2>1. CASE Untouched(t)
    BY <1>0, <1>2, <2>1 DEF Untouched, InPlace, OpenAts
  <2>2. CASE LeftAll(t)
    BY <1>2, <2>2 DEF LeftAll, LeftBy
  <2>3. CASE Removed(t)
    <3>1. job[t].at \notin OpenAts
      BY <2>3, JobsFormed DEF Removed, OpenAts, JobFormed, Idling, Creating, Updating, Deleting, Filtering,
         Ingesting, Building,
         Generating, Training, Evaluating, Exporting, Importing, Generators
    <3> QED BY <1>2, <2>0, <2>3, <3>1, NoFileIs DEF Removed
  <2>4. ASSUME NEW g \in Files, SwapStarted(t, g)
        PROVE (t \in tmp'[f].open => job'[t].at = "opened" /\ job'[t].file = f) /\ t \notin disk'[f].open
    BY <2>0, <2>4 DEF SwapStarted, TmpRest, OpenedBy
  <2>5. ASSUME NEW g \in Files, SwapFilled(t, g) PROVE t \notin tmp'[f].open /\ t \notin disk'[f].open
    <3>1. \A h \in Files \ {g} : t \notin tmp[h].open /\ t \notin disk[h].open
      BY <2>5 DEF SwapFilled, HandlesInv, InPlace
    <3>2. t \notin tmp[g].open \cap disk[g].open
      BY DEF HandlesInv
    <3>3. PICK d : SwapWritten(t, g, d)
      BY <2>5 DEF SwapFilled
    <3>4. t \notin tmp'[g].open /\ t \notin disk'[g].open
      BY <3>2, <3>3 DEF SwapWritten, WrittenBy
    <3>5. \A h \in Files \ {g} : tmp'[h] = tmp[h] /\ disk'[h] = disk[h]
      BY <3>3 DEF SwapWritten, TmpRest, DiskRest
    <3> QED BY <3>1, <3>4, <3>5
  <2>6. ASSUME NEW g \in Files, PlaceStarted(t, g)
        PROVE t \notin tmp'[f].open /\ (t \in disk'[f].open => InPlace(job'[t], f))
    BY <2>0, <2>6 DEF PlaceStarted, DiskRest, OpenedBy
  <2>7. ASSUME NEW g \in Files, PlaceFilled(t, g) PROVE t \notin tmp'[f].open /\ t \notin disk'[f].open
    BY <1>0, <1>2, <2>7 DEF PlaceFilled, PlaceWritten, DiskRest, WrittenBy, InPlace
  <2>8. ASSUME NEW g \in Files, SwapEnded(t, g) PROVE t \notin tmp'[f].open /\ t \notin disk'[f].open
    <3>1. \A h \in Files : t \notin tmp[h].open /\ t \notin disk[h].open
      BY <2>8, HandlesOf DEF SwapEnded, OpenAts
    <3> QED BY <2>8, <3>1, NoFileIs DEF SwapEnded, TmpRest, DiskRest
  <2> QED BY <1>2, <2>1, <2>2, <2>3, <2>4, <2>5, <2>6, <2>7, <2>8 DEF FilesStep
<1> QED BY <1>1, <1>2

LEMMA HandlesInit == ASSUME Init PROVE HandlesInv
<1>1. \A f \in Files : disk[f].open = {}
  <2> SUFFICES ASSUME NEW f \in Files PROVE disk[f].open = {}
    OBVIOUS
  <2>1. PICK stage \in Stages : Beginning(stage)
    BY InitIs
  <2>2. \E d : disk[f] = File(d) \/ disk[f] = NoFile
    BY <2>1 DEF Beginning, Files
  <2> QED BY <2>2, FileIs, NoFileIs
<1>2. \A f \in Files : tmp[f].open = {}
  BY NoFileIs DEF Init
<1> QED BY <1>1, <1>2 DEF HandlesInv

---------------------------------------------------------------------------
(* What a step leaves as it is                                             *)

\* The files a step of t may concern.
Concerns(t, f) ==
  \/ job[t].op = "delete" \/ job[t].file = f \/ job'[t].file = f
  \/ f = "toml" /\ job[t].at \in {"config", "config_opened"}

LEMMA FileFrame ==
  ASSUME TypesInv, TypesInv', HandlesInv, NEW t \in Tasks, FilesStep(t), NEW f \in Files, ~Concerns(t, f)
  PROVE  disk'[f] = disk[f] /\ tmp'[f] = tmp[f]
<1>1. CASE LeftAll(t)
  <2>1. t \notin disk[f].open /\ t \notin tmp[f].open
    BY DEF HandlesInv, Concerns, InPlace
  <2>2. /\ IsFile(disk'[f]) /\ IsFile(disk[f]) /\ disk'[f].cut \in BOOLEAN /\ disk[f].cut \in BOOLEAN
        /\ IsFile(tmp'[f]) /\ IsFile(tmp[f]) /\ tmp'[f].cut \in BOOLEAN /\ tmp[f].cut \in BOOLEAN
    BY DEF TypesInv, FilesTyped, FilesShaped
  <2>3. LeftBy(disk'[f], disk[f], t) /\ LeftBy(tmp'[f], tmp[f], t)
    BY <1>1 DEF LeftAll
  <2>4. disk'[f].cut = disk[f].cut /\ tmp'[f].cut = tmp[f].cut
    BY <2>1, <2>2, <2>3 DEF LeftBy
  <2> QED BY <2>1, <2>2, <2>3, <2>4 DEF LeftBy, IsFile
<1>2. CASE ~LeftAll(t)
  BY <1>2 DEF FilesStep, Untouched, Removed, SwapStarted, SwapFilled, PlaceStarted, PlaceFilled, SwapEnded,
        TmpRest, DiskRest, SwapWritten, PlaceWritten, InPlace, Concerns
<1> QED BY <1>1, <1>2
=============================================================================
