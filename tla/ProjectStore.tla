---------------------------- MODULE ProjectStore ----------------------------
(***************************************************************************)
(* A project's directory and project.toml (crates/orchestrator/src/project *)
(* /store.rs), and the three writers that read it, change one field and    *)
(* write all of it back, in place: resolve_seed of the generators, the     *)
(* desktop's set_project_synth_model, and the training driver's            *)
(* persist_last_run_id.                                                    *)
(***************************************************************************)
EXTENDS ProjectFiles

CONSTANTS
  Seeds,  \* split seeds
  NoSeed

VARIABLES
  told,      \* history: each field as the last completed update of it left it
  reseeded,  \* history: an explicit seed replaced another
  deserted   \* history: a create or a delete was broken off, or an operation
             \* that makes directories ran where the project was gone

storevars == <<told, reseeded, deserted>>

Fresh == [seed |-> NoSeed, synth_model |-> FALSE, last_run_id |-> FALSE]

Configs == [seed : Seeds \cup {NoSeed}, synth_model : BOOLEAN, last_run_id : BOOLEAN]

\* There is a seed to split by, and no configuration is like no file or a torn one.
ASSUME StoreAssumption == Seeds # {} /\ NoSeed \notin Seeds /\ {Absent, Torn} \cap Configs = {}

StoreTypeOK ==
  /\ disk["toml"].data \in Configs \cup {Absent, Torn}
  /\ told \in Configs /\ reseeded \in BOOLEAN /\ deserted \in BOOLEAN

---------------------------------------------------------------------------
(* list, create, delete                                                    *)

\* Whether the file parses is not looked at.
Listed == dir /\ Present("toml")

CreateChecks(t) ==
  /\ ~dir
  /\ Begins(t, Job("create", "dirs", "none", Absent, Absent))
  /\ UNCHANGED <<filevars, storevars>>

\* The directories and agent.log; project.toml comes last.
CreateMakesDirs(t) ==
  /\ job[t].at = "dirs"
  /\ job' = [job EXCEPT ![t].at = "config", ![t].arg = Fresh]
  /\ dir' = TRUE /\ deserted' = (dir /\ deserted)
  /\ UNCHANGED <<disk, tmp, raced, told, reseeded>>

DeleteChecks(t) ==
  /\ dir
  /\ Begins(t, Job("delete", "remove", "none", Absent, Absent))
  /\ UNCHANGED <<filevars, storevars>>

\* remove_dir_all takes the entries one by one; project.toml may be the first,
\* or the last.
DeleteRemovesSome(t) ==
  /\ Goes(t, "remove", "rmdir")
  /\ \E gone \in {{}, {"toml"}, Files \ {"toml"}, Files} :
       disk' = [f \in Files |-> IF f \in gone THEN NoFile ELSE disk[f]]
  /\ UNCHANGED <<dir, tmp, storevars>>

\* A mutated form: the directory itself is left.
DeleteRemovesFiles(t) ==
  /\ job[t].at = "rmdir"
  /\ UNCHANGED dir
  /\ disk' = [f \in Files |-> NoFile] /\ tmp' = [f \in Files |-> NoFile]
  /\ job' = [job EXCEPT ![t] = Idle] /\ raced' = {}
  /\ reseeded' = FALSE /\ deserted' = FALSE
  /\ UNCHANGED told

DeleteRemovesDir(t) ==
  /\ job[t].at = "rmdir"
  /\ dir' = FALSE
  /\ disk' = [f \in Files |-> NoFile] /\ tmp' = [f \in Files |-> NoFile]
  /\ job' = [job EXCEPT ![t] = Idle]
  /\ raced' = {g \in raced : \E u \in Tasks \ {t} : g \in ToWrite(u)}
  /\ reseeded' = FALSE /\ deserted' = FALSE
  /\ UNCHANGED told

---------------------------------------------------------------------------
(* The read-modify-write of project.toml                                   *)

UpdateBegins(t, op) ==
  /\ Begins(t, Job(op, "get", "none", Absent, Absent))
  /\ UNCHANGED <<filevars, storevars>>

\* ProjectStore::get: a file that is missing or does not parse is an error.
Gets(t) ==
  /\ job[t].at = "get" /\ disk["toml"].data \in Configs

Patches(t, field, value) ==
  /\ Gets(t)
  /\ job' = [job EXCEPT ![t].at = "config", ![t].arg = [disk["toml"].data EXCEPT ![field] = value]]
  /\ UNCHANGED <<filevars, raced, told, deserted>>

\* set_project_synth_model, persist_last_run_id
UpdatePatches(t) ==
  /\ job[t].op \in {"set_synth_model", "persist_last_run_id"}
  /\ Patches(t, IF job[t].op = "set_synth_model" THEN "synth_model" ELSE "last_run_id", TRUE)
  /\ UNCHANGED reseeded

\* resolve_seed: an explicit seed, else the stored one, else a fresh one.
SeedExplicit(t, s) ==
  /\ job[t].op \in {"generate", "import_hf"}
  /\ Patches(t, "seed", s)
  /\ reseeded' = (reseeded \/ disk["toml"].data.seed \notin {NoSeed, s})

SeedStored(t) ==
  /\ job[t].op \in {"generate", "import_hf"}
  /\ Gets(t) /\ disk["toml"].data.seed # NoSeed
  /\ job' = [job EXCEPT ![t].at = "work", ![t].arg = disk["toml"].data]
  /\ UNCHANGED <<filevars, raced, storevars>>

\* A mutated form: a fresh seed every time, whatever is stored.
SeedAlwaysFresh(t, s) ==
  /\ job[t].op \in {"generate", "import_hf"}
  /\ Patches(t, "seed", s)
  /\ UNCHANGED reseeded

SeedFresh(t, s) ==
  /\ job[t].op \in {"generate", "import_hf"}
  /\ Gets(t) /\ disk["toml"].data.seed = NoSeed
  /\ Patches(t, "seed", s)
  /\ UNCHANGED reseeded

\* write_config: fs::write needs the directory.
ConfigOpens(t) ==
  /\ Goes(t, "config", "config_opened")
  /\ dir
  /\ PlaceOpens(t, "toml")
  /\ UNCHANGED <<dir, storevars>>

Field(op) ==
  CASE op = "set_synth_model" -> "synth_model" [] op = "persist_last_run_id" -> "last_run_id"
    [] OTHER -> "seed"

\* The generators go on, the others are done.
ConfigWrites(t) ==
  /\ job[t].at = "config_opened"
  /\ PlaceWrites(t, "toml", job[t].arg)
  /\ told' = IF job[t].op = "create" THEN Fresh
             ELSE [told EXCEPT ![Field(job[t].op)] = job[t].arg[Field(job[t].op)]]
  /\ IF job[t].op \in {"generate", "import_hf"} THEN Goes(t, "config_opened", "work") ELSE Ends(t)
  /\ UNCHANGED <<dir, reseeded, deserted>>

---------------------------------------------------------------------------
StoreStep(t) ==
  \/ CreateChecks(t) \/ CreateMakesDirs(t)
  \/ \E op \in {"set_synth_model", "persist_last_run_id"} : UpdateBegins(t, op)
  \/ UpdatePatches(t)
  \/ \E s \in Seeds : SeedExplicit(t, s) \/ SeedFresh(t, s)
  \/ SeedStored(t) \/ ConfigOpens(t) \/ ConfigWrites(t)

DeleteStep(t) == DeleteChecks(t) \/ DeleteRemovesSome(t)
=============================================================================
