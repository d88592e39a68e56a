---------------------------- MODULE ProjectFiles ----------------------------
(***************************************************************************)
(* The files of one project directory and the two ways its writers write   *)
(* them: through a temporary file with a fixed name that is renamed over   *)
(* the old one, and in place.  A rename does not close the handles others  *)
(* hold on the temporary: what they write next lands in the visible file.  *)
(*                                                                         *)
(* Nothing locks a project: the agent's turns, the desktop's commands and  *)
(* the training driver operate on it side by side.                         *)
(***************************************************************************)
EXTENDS Integers, FiniteSets

CONSTANTS
  Tasks,   \* operations in flight: tool calls, commands, the training driver
  Absent,  \* no such file
  Torn     \* cut short, or the writing of several writers overlaid

Files == {"toml", "chunks", "rag", "sft", "eval"}

ASSUME FilesAssumption == Absent # Torn

VARIABLES
  dir,   \* the project's directory exists
  disk,  \* its files
  tmp,   \* the temporary beside each
  job,   \* what each task is doing
  raced  \* history: of "toml" and "chunks", those two writers of which overlapped

filevars == <<dir, disk, tmp>>

\* What a file holds, who has it open for writing, whether two ever had it
\* open at once, and whether a writer left it before it was done.
NoFile == [data |-> Absent, open |-> {}, shared |-> FALSE, cut |-> FALSE]

\* File n once t has opened it for writing, which truncates it.
Truncated(n, t) ==
  [data |-> Torn, open |-> n.open \cup {t}, shared |-> n.open # {}, cut |-> FALSE]

\* File n once t has written d and closed it.  Over a file others had open too
\* the result is as long as the longest and as whole as luck has it.
Written(n, t, d) ==
  {[n EXCEPT !.data = x, !.open = @ \ {t}] : x \in {d} \cup (IF n.shared THEN {Torn} ELSE {})}

Left(n, t) ==
  [n EXCEPT !.open = @ \ {t}, !.cut = @ \/ t \in n.open]

Present(f) == disk[f].data # Absent

---------------------------------------------------------------------------
\* File::create(x.tmp)
SwapOpens(t, f) ==
  /\ tmp' = [tmp EXCEPT ![f] = Truncated(@, t)]
  /\ UNCHANGED disk

\* The lines go where the handle leads: to the temporary, to the visible file
\* if another task has renamed it since, or to a file that has no name any more.
SwapWrites(t, f, d) ==
  IF t \in tmp[f].open
  THEN /\ \E n \in Written(tmp[f], t, d) : tmp' = [tmp EXCEPT ![f] = n]
       /\ UNCHANGED disk
  ELSE IF t \in disk[f].open
  THEN /\ \E n \in Written(disk[f], t, d) : disk' = [disk EXCEPT ![f] = n]
       /\ UNCHANGED tmp
  ELSE UNCHANGED <<disk, tmp>>

\* fs::rename(x.tmp, x); it fails if another task has renamed the temporary.
SwapRenames(f) ==
  /\ tmp[f].data # Absent
  /\ disk' = [disk EXCEPT ![f] = tmp[f]]
  /\ tmp' = [tmp EXCEPT ![f] = NoFile]

SwapDiscards(f) ==
  /\ tmp' = [tmp EXCEPT ![f] = NoFile]
  /\ UNCHANGED disk

\* fs::write, fs::copy: the file itself is truncated.
PlaceOpens(t, f) ==
  /\ disk' = [disk EXCEPT ![f] = Truncated(@, t)]
  /\ UNCHANGED tmp

PlaceWrites(t, f, d) ==
  /\ IF t \in disk[f].open
     THEN \E n \in Written(disk[f], t, d) : disk' = [disk EXCEPT ![f] = n]
     ELSE UNCHANGED disk
  /\ UNCHANGED tmp

\* t goes away: an error return, a timeout, the end of the process.
LeavesFiles(t) ==
  /\ disk' = [f \in Files |-> Left(disk[f], t)]
  /\ tmp' = [f \in Files |-> Left(tmp[f], t)]

\* What a reader that skips malformed lines gets from a file of items.
Readings(f, items) ==
  IF disk[f].data = Absent THEN {{}}
  ELSE IF disk[f].data = Torn THEN SUBSET items
  ELSE {disk[f].data}

---------------------------------------------------------------------------
(* Operations                                                              *)

\* What an operation writes, and what it reads besides.
Writes ==
  [none |-> {}, create |-> {"toml"}, set_synth_model |-> {"toml"}, persist_last_run_id |-> {"toml"},
   delete |-> {"toml", "chunks", "prepared", "pairs"}, filter |-> {"chunks"}, ingest |-> {"chunks"},
   build |-> {"prepared"}, generate |-> {"toml", "pairs"}, import_hf |-> {"toml", "pairs"},
   train |-> {}, eval |-> {}, export |-> {"corpus"}, import |-> {"prepared", "pairs"}]

Reads ==
  [op \in DOMAIN Writes |->
     CASE op = "build" -> {"chunks"} [] op = "eval" -> {"pairs", "prepared"}
       [] op = "export" -> {"prepared", "pairs"} [] op = "import" -> {"corpus"} [] OTHER -> {}]

\* An operation at a step of its own, on a file, with what it carries and what
\* it was asked.
Job(op, at, file, data, arg) ==
  [op |-> op, at |-> at, file |-> file, data |-> data, arg |-> arg, alone |-> TRUE]

Idle == Job("none", "idle", "none", Absent, Absent)

\* What t still has to write: a generator is done with project.toml when it
\* has its seed.
ToWrite(t) ==
  IF job[t].op \in {"generate", "import_hf"} /\ job[t].at \notin {"get", "config", "config_opened"}
  THEN {"pairs"} ELSE Writes[job[t].op]

Rivals(t, op) ==
  {u \in Tasks \ {t} : \/ ToWrite(u) \cap (Writes[op] \cup Reads[op]) # {}
                       \/ Writes[op] \cap Reads[job[u].op] # {}}

\* t begins operation j; alone will tell whether another one that concerns the
\* same files ran at any time while it did.
Begins(t, j) ==
  /\ job[t].op = "none"
  /\ job' = [u \in Tasks |->
               IF u = t THEN [j EXCEPT !.alone = Rivals(t, j.op) = {}]
               ELSE IF u \in Rivals(t, j.op) THEN [job[u] EXCEPT !.alone = FALSE] ELSE job[u]]
  /\ raced' = raced \cup
       ({"toml", "chunks"} \cap Writes[j.op] \cap UNION {ToWrite(u) : u \in Tasks \ {t}})

\* t goes from one step to the next.
Goes(t, from, to) ==
  /\ job[t].at = from
  /\ job' = [job EXCEPT ![t].at = to]
  /\ UNCHANGED raced

Carries(t, from, to, file, d) ==
  /\ job[t].at = from
  /\ job' = [job EXCEPT ![t].at = to, ![t].file = file, ![t].data = d]
  /\ UNCHANGED raced

Ends(t) ==
  /\ job' = [job EXCEPT ![t] = Idle]
  /\ UNCHANGED raced

FilesTypeOK ==
  /\ dir \in BOOLEAN
  /\ \A f \in Files : disk[f].open \subseteq Tasks /\ tmp[f].open \subseteq Tasks
  /\ \A t \in Tasks : job[t].op \in DOMAIN Writes
  /\ raced \subseteq {"toml", "chunks"}
=============================================================================
