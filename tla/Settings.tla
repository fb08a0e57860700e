------------------------------ MODULE Settings ------------------------------
(***************************************************************************)
(* federated_lssvm/solver_selection.py: what a program makes of a flag, an *)
(* environment variable and its default.                                   *)
(***************************************************************************)
CONSTANTS
  Unset,       \* no flag given, no variable set
  Datasets,    \* the names --dataset may have, SUPPORTED_DATASETS ...
  DefaultDataset, \* ... and the one without it
  Roots        \* names of --models-root, "models" among them

ASSUME SettingsAssumption ==
  /\ DefaultDataset \in Datasets /\ "models" \in Roots
  /\ Unset \notin Datasets \cup Roots \cup {"iid", "dirichlet"}

Partitions == {"iid", "dirichlet"}

(* The flag, else the variable, else the default. *)
Resolve(flag, variable, default) ==
  IF flag # Unset THEN flag ELSE IF variable # Unset THEN variable ELSE default

DatasetName(flag, env)   == Resolve(flag, env.dataset, DefaultDataset)
PartitionName(flag, env) == Resolve(flag, env.partition, "iid")
ModelsRoot(flag, env)    == Resolve(flag, env.root, "models")

(* run_parallel.sh looks for the flag alone. *)
ShellModelsRoot(flag) == Resolve(flag, Unset, "models")
=============================================================================
