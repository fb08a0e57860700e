---------------------------- MODULE SharedContext ----------------------------
(***************************************************************************)
(* The life of the shared CKKS context and of the checkpoints under        *)
(* models/k=N/: federated_lssvm.worker (--prepare-context, --workers) and  *)
(* federated_lssvm.train, run in sequence by config/run_parallel.sh or     *)
(* train alone, each of which may be killed between any two file writes.   *)
(*                                                                         *)
(* A file's content is Absent, Torn (truncated by an open that no complete *)
(* write followed) or the identity of the secret key of the process that   *)
(* wrote it.  Only the marker's and security.txt's readability matters     *)
(* otherwise: every run here is the same command, so depth and security    *)
(* level are those of the run.                                             *)
(*                                                                         *)
(* An operator named Defect... is not part of the program: it is the       *)
(* definition that follows it with a plausible mistake in it, with which   *)
(* the property that guards against the mistake is seen to fail.           *)
(***************************************************************************)
EXTENDS Integers, Sequences, FiniteSets

CONSTANTS
  NClasses,    \* one-vs-rest problems: class_0 .. class_(NClasses-1)
  NClients,    \* k, the federated clients per class
  Security,    \* the --security level of the command, "128" or "notset"
  Commands,    \* the programs the user starts: "prepare" is run_parallel.sh,
               \* which goes on to the pool and to train; "train" is train alone
  KillPoints,  \* where an interruption may strike (see Place)
  MaxFaults    \* bound on interruptions and worker failures in a behaviour

ASSUME ContextAssumption ==
  /\ NClasses \in Nat \ {0} /\ NClients \in Nat \ {0}
  /\ Security \in {"128", "notset"}
  /\ Commands \subseteq {"prepare", "train"}
  /\ KillPoints \subseteq {"context", "global", "secondary", "solve"}
  /\ MaxFaults \in Nat

Classes  == 0 .. NClasses - 1
Baseline == NClients                       \* the index of class_c/baseline
Task     == Classes \X (0 .. NClients)     \* <<class, client or Baseline>>

Key     == Nat \ {0}
Absent  == 0
Torn    == -1
NoKey   == 0
Content == {Absent, Torn} \cup Key

(* Files of a class directory, in the order each writer writes them. *)
ContextFiles ==
  <<"cryptocontext", "public_key", "secret_key", "marker", "security">>
DefectGlobalFiles ==
  <<"cryptocontext", "secret_key", "bias", "weights", "phi_mean", "threshold",
    "public_key", "mode", "security", "checkpoint">>
GlobalFiles ==
  <<"cryptocontext", "secret_key", "bias", "weights", "public_key", "mode",
    "security", "checkpoint", "phi_mean", "threshold">>
Files == {"cryptocontext", "public_key", "secret_key", "marker", "security",
          "bias", "weights", "mode", "checkpoint", "phi_mean", "threshold"}

VARIABLES
  disk,       \* class directory -> file -> Content
  bias,       \* task -> content of its bias.bin checkpoint
  weights,    \* task -> content of its weights.bin checkpoint
  proc,       \* the program that runs now
  at,         \* where it is
  key,        \* the secret key it holds in memory
  cls,        \* the class directory it is working on
  pos, open,  \* the file of the current save it is at, and whether truncated
  task,       \* what the process has done with each sub-problem
  acc,        \* keys of the ciphertexts gathered for FedAvg in this class
  generated,  \* how many keys were ever generated
  outcome,    \* how the last run ended
  faults      \* interruptions and failures so far

procVars == <<proc, at, key, cls, pos, open, task, acc>>
ckptVars == <<bias, weights>>
vars == <<disk, bias, weights, procVars, generated, outcome, faults>>

(* The files the save in progress writes; a truncated one is among them. *)
Saving == at \in {"context", "global"}
Order  == IF at = "context" THEN ContextFiles ELSE GlobalFiles
OpenInOrder == open => Saving /\ pos <= Len(Order)

ProcType ==
  /\ proc \in {"none", "prepare", "pool", "train"}
  /\ at \in {"start", "class", "context", "solve", "global"}
  /\ key \in {NoKey} \cup Key
  /\ cls \in Classes
  /\ pos \in 1 .. Len(GlobalFiles) + 1
  /\ open \in BOOLEAN
  /\ task \in [Task -> {"todo", "saving", "done", "failed"}]
  /\ acc \in SUBSET ({NoKey} \cup Key)

StoreType ==
  /\ disk \in [Classes -> [Files -> Content]]
  /\ bias \in [Task -> {Absent} \cup Key]
  /\ weights \in [Task -> {Absent} \cup Key]
  /\ generated \in Nat

TypeOK ==
  /\ ProcType /\ StoreType /\ OpenInOrder
  /\ outcome \in {"none", "running", "done", "refused", "unloadable",
                  "failed", "killed"}
  /\ faults \in 0 .. MaxFaults

Init ==
  /\ disk = [c \in Classes |-> [f \in Files |-> Absent]]
  /\ bias = [t \in Task |-> Absent] /\ weights = [t \in Task |-> Absent]
  /\ proc = "none" /\ at = "start" /\ key = NoKey /\ cls = 0
  /\ pos = 1 /\ open = FALSE /\ acc = {}
  /\ task = [t \in Task |-> "todo"]
  /\ generated = 0 /\ outcome = "none" /\ faults = 0

-----------------------------------------------------------------------------
(* What the programs read from disk. *)

Whole(c, f) == disk[c][f] \in Key

(* read_security_marker: a missing file reads "notset", a truncated one "". *)
SecurityRead(c) == CASE disk[c]["security"] = Absent -> "notset"
                     [] disk[c]["security"] = Torn   -> ""
                     [] OTHER                        -> Security

(* _class_context_exists and the security comparison made beside it. *)
DefectExistsByFile(c) == disk[c]["cryptocontext"] # Absent
DefectSharedName(c) == Whole(c, "marker") /\ disk[c]["checkpoint"] = Absent
ContextExists(c) == Whole(c, "marker")
Matches(c)       == ContextExists(c) /\ SecurityRead(c) = Security

(* The asserts of _load_class_context. *)
Loadable(c) == \A f \in {"cryptocontext", "public_key", "secret_key"} :
                 Whole(c, f)

DefectNoContextGlob == \A t \in Task : weights[t] = Absent
DefectNoCheck == TRUE

(* assert_safe_to_create_context: the globs look at these files only. *)
SafeToCreate ==
  /\ \A c \in Classes : disk[c]["cryptocontext"] = Absent
  /\ \A t \in Task : weights[t] = Absent

(* train.main picks the first directory whose three files exist. *)
Usable == {c \in Classes :
             /\ \A f \in {"cryptocontext", "public_key", "secret_key"} :
                  disk[c][f] # Absent
             /\ Matches(c)}
IsExistingDir(c) == c \in Usable /\ \A d \in Usable : c <= d

(* federated_lssvm.infer only reads, class by class and file by file, beside *)
(* whatever else runs.  It opens phi_mean.npy of a class first and raises    *)
(* without it; these it opens later and goes on with a default when one is   *)
(* missing: a threshold of 0.0, no metadata to compare, no public key, and   *)
(* the slots of "notset".                                                    *)
CanScore(c) == Whole(c, "phi_mean")
Optional == {"threshold", "checkpoint", "public_key", "security"}

-----------------------------------------------------------------------------
(* Starting, ending and moving on. *)

Goto(p, a, c) == /\ proc' = p /\ at' = a /\ cls' = c
                 /\ pos' = 1 /\ open' = FALSE

Launch(p) == /\ Goto(p, "start", 0) /\ key' = NoKey /\ acc' = {}
             /\ task' = [t \in Task |-> "todo"]

(* The process is gone and no other follows it. *)
End(how) == Launch("none") /\ outcome' = how

(* The user runs config/run_parallel.sh, or train alone. *)
Run(p) == /\ proc = "none"
          /\ Launch(p) /\ outcome' = "running"
          /\ UNCHANGED <<disk, ckptVars, generated, faults>>

FreshKey == /\ SafeToCreate
            /\ generated' = generated + 1 /\ key' = generated'

-----------------------------------------------------------------------------
(* worker --prepare-context *)

PrepareReuse ==
  /\ proc = "prepare" /\ at = "start" /\ Matches(0)
  /\ Launch("pool")
  /\ UNCHANGED <<disk, ckptVars, generated, outcome, faults>>

PrepareFresh ==
  /\ proc = "prepare" /\ at = "start" /\ ~Matches(0)
  /\ FreshKey /\ Goto("prepare", "context", 0)
  /\ UNCHANGED <<disk, ckptVars, task, acc, outcome, faults>>

PrepareRefuse ==
  /\ proc = "prepare" /\ at = "start" /\ ~Matches(0) /\ ~SafeToCreate
  /\ End("refused")
  /\ UNCHANGED <<disk, ckptVars, generated, faults>>

-----------------------------------------------------------------------------
(* _save_class_context and save_global_checkpoint: every file is opened,   *)
(* which truncates it, and then written.                                   *)

OpenFile ==
  /\ Saving /\ pos <= Len(Order) /\ ~open
  /\ disk' = [disk EXCEPT ![cls][Order[pos]] = Torn]
  /\ open' = TRUE
  /\ UNCHANGED <<ckptVars, proc, at, key, cls, pos, task, acc, generated,
                 outcome, faults>>

CloseFile ==
  /\ Saving /\ open
  /\ disk' = [disk EXCEPT ![cls][Order[pos]] = key]
  /\ open' = FALSE /\ pos' = pos + 1
  /\ UNCHANGED <<ckptVars, proc, at, key, cls, task, acc, generated,
                 outcome, faults>>

Saved(where) == at = where /\ pos > Len(Order)

(* --prepare-context is done, run_parallel.sh starts the fork pool. *)
PrepareDone ==
  /\ proc = "prepare" /\ Saved("context")
  /\ Launch("pool")
  /\ UNCHANGED <<disk, ckptVars, generated, outcome, faults>>

-----------------------------------------------------------------------------
(* worker --workers=W.  The shards are disjoint; here any set of tasks may *)
(* be in flight at once (module ForkPool has the shards and the workers).  *)

PoolLoad ==
  /\ proc = "pool" /\ at = "start" /\ Matches(0) /\ Loadable(0)
  /\ key' = disk[0]["secret_key"] /\ Goto("pool", "solve", 0)
  /\ UNCHANGED <<disk, ckptVars, task, acc, generated, outcome, faults>>

PoolDie ==
  /\ proc = "pool" /\ at = "start" /\ ~(Matches(0) /\ Loadable(0))
  /\ End(IF Matches(0) THEN "unloadable" ELSE "refused")
  /\ UNCHANGED <<disk, ckptVars, generated, faults>>

(* A worker dies of an exception: its sub-problem stays as it was left. *)
WorkerFails(t) ==
  /\ proc = "pool" /\ at = "solve" /\ task[t] \in {"todo", "saving"}
  /\ "solve" \in KillPoints /\ faults < MaxFaults
  /\ task' = [task EXCEPT ![t] = "failed"] /\ faults' = faults + 1
  /\ UNCHANGED <<disk, ckptVars, proc, at, key, cls, pos, open, acc,
                 generated, outcome>>

(* The parent has reaped every worker; its exit code decides what follows. *)
PoolSucceeds ==
  /\ proc = "pool" /\ at = "solve" /\ \A t \in Task : task[t] = "done"
  /\ Launch("train")
  /\ UNCHANGED <<disk, ckptVars, generated, outcome, faults>>

(* What is still to do is the rest of the failed workers' shards. *)
PoolFails ==
  /\ proc = "pool" /\ at = "solve" /\ \A t \in Task : task[t] # "saving"
  /\ \E t \in Task : task[t] = "failed"
  /\ End("failed")
  /\ UNCHANGED <<disk, ckptVars, generated, faults>>

-----------------------------------------------------------------------------
(* solve_client_checkpointed, in a worker or in train's serial loop.       *)
(* Whether a stored pair decrypts to finite numbers is left open: such a   *)
(* pair may be resumed from, and may be computed again.                    *)

MayTake(t) ==
  /\ at = "solve"
  /\ proc = "train" => /\ t[1] = cls
                       /\ \A i \in 0 .. t[2] - 1 : task[<<cls, i>>] = "done"

Gather(t, keys) ==
  acc' = IF proc = "train" /\ t[2] # Baseline THEN acc \cup keys ELSE acc

CtsExist(t) == bias[t] # Absent /\ weights[t] # Absent

Resume(t) ==
  /\ MayTake(t) /\ task[t] = "todo" /\ CtsExist(t)
  /\ task' = [task EXCEPT ![t] = "done"]
  /\ Gather(t, {bias[t], weights[t]})
  /\ UNCHANGED <<disk, ckptVars, proc, at, key, cls, pos, open, generated,
                 outcome, faults>>

DefectRemovesFirst(t) ==
  /\ MayTake(t) /\ task[t] = "todo"
  /\ bias' = [bias EXCEPT ![t] = key] /\ weights' = [weights EXCEPT ![t] = Absent]
  /\ task' = [task EXCEPT ![t] = "saving"]
  /\ UNCHANGED <<disk, proc, at, key, cls, pos, open, acc, generated,
                 outcome, faults>>

(* _save_cts: each of the two files is replaced atomically, bias first. *)
SaveBias(t) ==
  /\ MayTake(t) /\ task[t] = "todo"
  /\ bias' = [bias EXCEPT ![t] = key]
  /\ task' = [task EXCEPT ![t] = "saving"]
  /\ UNCHANGED <<disk, weights, proc, at, key, cls, pos, open, acc, generated,
                 outcome, faults>>

SaveWeights(t) ==
  /\ MayTake(t) /\ task[t] = "saving"
  /\ weights' = [weights EXCEPT ![t] = key]
  /\ task' = [task EXCEPT ![t] = "done"]
  /\ Gather(t, {key})
  /\ UNCHANGED <<disk, bias, proc, at, key, cls, pos, open, generated,
                 outcome, faults>>

-----------------------------------------------------------------------------
(* federated_lssvm.train *)

TrainLoad(c) ==
  /\ proc = "train" /\ at = "start" /\ IsExistingDir(c) /\ Loadable(c)
  /\ key' = disk[c]["secret_key"] /\ Goto("train", "class", 0)
  /\ UNCHANGED <<disk, ckptVars, task, acc, generated, outcome, faults>>

TrainUnloadable(c) ==
  /\ proc = "train" /\ at = "start" /\ IsExistingDir(c) /\ ~Loadable(c)
  /\ End("unloadable")
  /\ UNCHANGED <<disk, ckptVars, generated, faults>>

TrainFresh ==
  /\ proc = "train" /\ at = "start" /\ Usable = {}
  /\ FreshKey /\ Goto("train", "class", 0)
  /\ UNCHANGED <<disk, ckptVars, task, acc, outcome, faults>>

TrainRefuse ==
  /\ proc = "train" /\ at = "start" /\ Usable = {} /\ ~SafeToCreate
  /\ End("refused")
  /\ UNCHANGED <<disk, ckptVars, generated, faults>>

(* The class directory gets the context unless its marker is there. *)
BeginClass ==
  /\ proc = "train" /\ at = "class"
  /\ Goto("train", IF ContextExists(cls) THEN "solve" ELSE "context", cls)
  /\ acc' = {}
  /\ UNCHANGED <<disk, ckptVars, key, task, generated, outcome, faults>>

TrainSavedContext ==
  /\ proc = "train" /\ Saved("context")
  /\ Goto("train", "solve", cls)
  /\ UNCHANGED <<disk, ckptVars, key, task, acc, generated, outcome, faults>>

(* Aggregated, evaluated, baseline solved: the global model is written. *)
BeginGlobal ==
  /\ proc = "train" /\ at = "solve"
  /\ \A i \in 0 .. NClients : task[<<cls, i>>] = "done"
  /\ Goto("train", "global", cls)
  /\ UNCHANGED <<disk, ckptVars, key, task, acc, generated, outcome, faults>>

NextClass ==
  /\ proc = "train" /\ Saved("global") /\ cls + 1 \in Classes
  /\ Goto("train", "class", cls + 1)
  /\ UNCHANGED <<disk, ckptVars, key, task, acc, generated, outcome, faults>>

TrainDone ==
  /\ proc = "train" /\ Saved("global") /\ cls + 1 \notin Classes
  /\ End("done")
  /\ UNCHANGED <<disk, ckptVars, generated, faults>>

-----------------------------------------------------------------------------
(* Preemption: the process and everything it holds is gone. *)

Place == IF ~Saving THEN "solve" ELSE IF cls = 0 THEN at ELSE "secondary"

Kill == /\ proc # "none" /\ Place \in KillPoints /\ faults < MaxFaults
        /\ End("killed") /\ faults' = faults + 1
        /\ UNCHANGED <<disk, ckptVars, generated>>

Prepare == PrepareReuse \/ PrepareFresh \/ PrepareRefuse \/ PrepareDone
Pool    == PoolLoad \/ PoolDie \/ PoolSucceeds \/ PoolFails
Solve   == \E t \in Task : Resume(t) \/ SaveBias(t) \/ SaveWeights(t)
Train   == \/ \E c \in Classes : TrainLoad(c) \/ TrainUnloadable(c)
           \/ TrainFresh \/ TrainRefuse \/ BeginClass \/ TrainSavedContext
           \/ BeginGlobal \/ NextClass \/ TrainDone
Step    == Prepare \/ OpenFile \/ CloseFile \/ Pool \/ Solve \/ Train

Start == \E p \in Commands : Run(p)

Next == \/ Start
        \/ Step
        \/ \E t \in Task : WorkerFails(t)
        \/ Kill

Spec == Init /\ [][Next]_vars

(* The machine runs the process it was given, and the user runs the command *)
(* again when it has ended.  Nothing obliges a fault to happen.             *)
FairSpec == Spec /\ WF_vars(Step) /\ WF_vars(Start)

-----------------------------------------------------------------------------
(* Properties *)

OnDisk == (UNION {{disk[c][f] : f \in Files} : c \in Classes})
            \cup {bias[t] : t \in Task} \cup {weights[t] : t \in Task}
Owners == OnDisk \cap Key

(* Every complete artifact under models/k=N/ belongs to one secret key: no  *)
(* rerun after an interruption ever mixes key generations, which is what    *)
(* assert_safe_to_create_context is there for.                              *)
OneKey == \A j, k \in Owners : j = k

(* The ciphertexts FedAvg adds up are all under the key that train holds    *)
(* and decrypts with, whichever process computed them and in which run.     *)
AggregateUnderOneKey == acc \subseteq {key}

(* What makes OneKey inductive.  A process in the middle of its work holds  *)
(* a key, and everything complete on disk is under that key; and whatever   *)
(* is on disk, some cryptocontext.bin is there too, complete or torn, so    *)
(* that SafeToCreate only lets a fresh key into an empty directory tree.    *)
Under(k) ==
  /\ \A c \in Classes, f \in Files : disk[c][f] \in {Absent, Torn, k}
  /\ \A t \in Task : bias[t] \in {Absent, k} /\ weights[t] \in {Absent, k}
Empty ==
  /\ \A c \in Classes, f \in Files : disk[c][f] = Absent
  /\ \A t \in Task : bias[t] = Absent /\ weights[t] = Absent
SomeContextFile == \E c \in Classes : disk[c]["cryptocontext"] # Absent

OneOwner == Empty \/ \E k \in 1 .. generated : Under(k)
Anchored == Empty \/ SomeContextFile
HoldsKey == IF at = "start" THEN key = NoKey /\ acc = {}
            ELSE key \in 1 .. generated /\ Under(key)
Working ==
  /\ Saving /\ (open \/ pos > 1) => disk[cls]["cryptocontext"] # Absent
  /\ at = "solve" => SomeContextFile
Agreement == OneOwner /\ AggregateUnderOneKey /\ Anchored /\ HoldsKey /\ Working
KeyInv == TypeOK /\ Agreement

(* When a run reports success, every class directory holds the complete     *)
(* context and global model that infer.py and later runs read, and every    *)
(* client and baseline checkpoint is there.                                 *)
Complete(c) ==
  /\ \A f \in Files : Whole(c, f)
  /\ \A i \in 0 .. NClients : bias[<<c, i>>] \in Key /\ weights[<<c, i>>] \in Key
DoneIsComplete == outcome = "done" => \A c \in Classes : Complete(c)

(* infer.py reads one file after the other while other runs write.  From    *)
(* the moment it finds phi_mean.npy of a class, it never misses a file of   *)
(* that class that it would do without, but the threshold; and it never     *)
(* misses the threshold of an earlier class.  So the metadata that lets it  *)
(* refuse a foreign model are always looked at, and the 0.0 it takes for a  *)
(* missing threshold can only be that of a class whose successor was not    *)
(* there yet: an inference that begins when the last class is readable can  *)
(* take it for the last class alone.                                        *)
InferReadsItsModel ==
  \A c \in Classes :
    [](CanScore(c) =>
         [](/\ \A f \in Optional \ {"threshold"} : disk[c][f] # Absent
            /\ \A d \in 0 .. c - 1 : disk[d]["threshold"] # Absent))

(* What makes these two inductive.  The running process has really written  *)
(* what its position says: the files of the save before pos, the            *)
(* checkpoints of the sub-problems it is through with, and, in train's      *)
(* loop, everything of the classes before cls.                              *)
Written == Saving => \A i \in 1 .. pos - 1 : Whole(cls, Order[i])
Checkpointed ==
  \A t \in Task : /\ task[t] \in {"saving", "done"} => bias[t] \in Key
                  /\ task[t] = "done" => weights[t] \in Key
InLoop ==
  /\ at = "global" \/ cls > 0 => proc = "train" /\ at # "start"
  /\ proc = "train" /\ at # "start" => \A c \in 0 .. cls - 1 : Complete(c)
  /\ proc = "train" /\ at \in {"solve", "global"} => Whole(cls, "marker")
  /\ at = "global" => \A i \in 0 .. NClients : task[<<cls, i>>] = "done"
Ended == outcome = "done" => proc = "none" /\ at = "start"
Progress == Written /\ Checkpointed /\ InLoop /\ Ended /\ DoneIsComplete

(* And what the disk looks like after any number of interruptions: class    *)
(* directories are filled one after the other and a file that a later one   *)
(* rests on is never missing; a marker once complete stays so, and while    *)
(* the first one is not complete a new context meets an empty tree.         *)
Layered ==
  \A c \in Classes : disk[c]["phi_mean"] # Absent =>
    /\ \A f \in {"checkpoint", "public_key", "security"} : disk[c][f] # Absent
    /\ \A b \in 0 .. c - 1 : disk[b]["threshold"] # Absent
FirstOpens ==
  /\ \A c \in Classes \ {0} :
       disk[c]["cryptocontext"] # Absent => Whole(0, "marker")
  /\ at = "context" /\ pos <= 4 => ~Whole(cls, "marker")
  /\ cls = 0 /\ (at = "class" \/ (at = "context" /\ pos = 1 /\ ~open)) =>
       Whole(0, "marker") \/ Empty
TreeInv == KeyInv /\ Progress /\ Layered /\ FirstOpens

(* The promise of module KeyCustody, under this mapping: one owner for ever,*)
(* and a checkpoint once complete stays complete.                           *)
Custody == INSTANCE KeyCustody
             WITH owners <- Owners,
                  saved  <- {t \in Task : bias[t] \in Key /\ weights[t] \in Key}
KeepsCustody == Custody!CustodySpec

(* run_parallel.sh: "rerunning the same command resumes from checkpoints".  *)
(* However often it is interrupted, the command run again in the end gets   *)
(* through, unless class_0, which every program starts from, was left with  *)
(* its context begun and not complete: that tree stays as it is for ever.   *)
Damaged == /\ disk[0]["cryptocontext"] # Absent
           /\ \E i \in DOMAIN ContextFiles : ~Whole(0, ContextFiles[i])
RerunGetsThrough == []<>(outcome = "done") \/ <>[]Damaged

(* Checkpoints without a readable secret key are lost work: while one       *)
(* exists some directory holds the key.                                     *)
CheckpointsReadable ==
  (\E t \in Task : weights[t] \in Key)
     => (key # NoKey \/ \E c \in Classes : Whole(c, "secret_key"))
=============================================================================
