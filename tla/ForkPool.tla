------------------------------ MODULE ForkPool ------------------------------
(***************************************************************************)
(* worker --workers=W: the parent forks one child per shard of the task    *)
(* list, each child solves its shard into the shared checkpoints, and the  *)
(* parent reaps them all and turns their exit statuses into its own.       *)
(* Children may die, the parent may die or fail to fork, which leaves the  *)
(* children it has without a parent, and the user runs the command again;  *)
(* an orphan and a child of the next run may then be at the same task.      *)
(*                                                                         *)
(* Operators named Defect... are plausible mistakes, not the program.      *)
(***************************************************************************)
EXTENDS Integers

CONSTANTS
  NClasses, NClients,   \* the problem, as in SharedContext
  NWorkers,             \* --workers
  Faults,               \* what may go wrong: "child" (a child dies), "fork"
                        \* (os.fork raises), "parent" (the parent alone is
                        \* killed), "machine" (everything is), "name" (a
                        \* rival renames the file a child has written)
  MaxFaults, MaxRaces,  \* bounds on faults, and on those of kind "name", which
                        \* come on top of the fault that makes a rival
  MaxPools              \* bound on the runs of the command

ASSUME PoolAssumption ==
  /\ NClasses \in Nat \ {0} /\ NClients \in Nat \ {0}
  /\ NWorkers \in Nat \ {0}
  /\ Faults \subseteq {"child", "fork", "parent", "machine", "name"}
  /\ MaxFaults \in Nat /\ MaxRaces \in Nat /\ MaxPools \in Nat \ {0}

Baseline == NClients
Task     == (0 .. NClasses - 1) \X (0 .. NClients)   \* <<class, client>>

(* task_list: every client of every class, then every class's baseline. *)
Slot == 0 .. NClasses * (NClients + 1) - 1
Clients == NClasses * NClients
TaskAt(n) == IF n < Clients THEN <<n \div NClients, n % NClients>>
                            ELSE <<n - Clients, Baseline>>

(* tasks[i::W], and two ways to get it wrong: tasks[i+W::W] and tasks[i:]. *)
DefectLateStart(i) == {n \in Slot : n > i /\ n % NWorkers = i}
DefectTail(i)      == {n \in Slot : n >= i}
Worker   == 0 .. NWorkers - 1
Shard(i) == {n \in Slot : n % NWorkers = i}
NoTask   == -1

Pool  == 1 .. MaxPools
Child == Pool \X Worker

VARIABLES
  pool,     \* the number of the current run
  parent,   \* "fork", "wait", "exited" or "gone"
  forked,   \* how many children it has forked
  failed,   \* the workers it found failed
  rc,       \* the exit code of the current run, -1 while there is none
  child,    \* "none", "running", "ok" or "dead" (zombies), "reaped"
  todo,     \* the part of its shard each child has not come to yet
  now,      \* the task each child is solving
  saved,    \* the checkpoint of each task: "none", "bad" (not finite), "good"
  faults,
  died,     \* the workers of the current run that died (observed only)
  orphaned  \* whether a parent ever ended before its children (observed only)

parentVars == <<pool, parent, forked, failed, rc, orphaned>>
childVars  == <<child, todo, now, died>>
vars == <<parentVars, childVars, saved, faults>>

TypeOK ==
  /\ pool \in Pool /\ parent \in {"fork", "wait", "exited", "gone"}
  /\ forked \in 0 .. NWorkers /\ (parent = "fork" => forked < NWorkers)
  /\ failed \in SUBSET Worker
  /\ rc \in {-1, 0, 1}
  /\ child \in [Child -> {"none", "running", "ok", "dead", "reaped"}]
  /\ todo \in [Child -> SUBSET Slot] /\ now \in [Child -> Slot \cup {NoTask}]
  /\ saved \in [Task -> {"none", "bad", "good"}]
  /\ faults \in 0 .. MaxFaults + MaxRaces /\ died \in SUBSET Worker /\ orphaned \in BOOLEAN

Init ==
  /\ pool = 1 /\ parent = "fork" /\ forked = 0 /\ failed = {} /\ rc = -1
  /\ child = [c \in Child |-> "none"] /\ todo = [c \in Child |-> {}]
  /\ now = [c \in Child |-> NoTask]
  /\ saved = [t \in Task |-> "none"] /\ faults = 0
  /\ died = {} /\ orphaned = FALSE

Fault(kind) ==
  /\ kind \in Faults
  /\ faults < (IF kind = "name" THEN MaxFaults + MaxRaces ELSE MaxFaults)
  /\ faults' = faults + 1

-----------------------------------------------------------------------------
(* The parent. *)

Fork ==
  /\ parent = "fork"
  /\ child' = [child EXCEPT ![<<pool, forked>>] = "running"]
  /\ todo' = [todo EXCEPT ![<<pool, forked>>] = Shard(forked)]
  /\ forked' = forked + 1
  /\ parent' = IF forked' = NWorkers THEN "wait" ELSE "fork"
  /\ UNCHANGED <<pool, failed, rc, now, died, saved, faults, orphaned>>

(* An OSError of os.fork ends the parent; nobody waits for the children. *)
ForkRaises ==
  /\ parent = "fork" /\ Fault("fork")
  /\ parent' = "exited" /\ rc' = 1 /\ orphaned' = TRUE
  /\ UNCHANGED <<pool, forked, failed, childVars, saved>>

Ours(i) == <<pool, i>>

DefectReap(i) ==
  /\ parent = "wait" /\ child[Ours(i)] \in {"ok", "dead"}
  /\ child' = [child EXCEPT ![Ours(i)] = "reaped"]
  /\ UNCHANGED <<parentVars, todo, now, died, saved, faults>>

(* os.waitpid(-1, 0) returns some child that has ended. *)
Reap(i) ==
  /\ parent = "wait" /\ child[Ours(i)] \in {"ok", "dead"}
  /\ failed' = IF child[Ours(i)] = "dead" THEN failed \cup {i} ELSE failed
  /\ child' = [child EXCEPT ![Ours(i)] = "reaped"]
  /\ UNCHANGED <<pool, parent, forked, rc, todo, now, died, saved, faults,
                 orphaned>>

DefectReturn ==
  /\ parent = "wait" /\ \E i \in Worker : child[Ours(i)] = "reaped"
  /\ parent' = "exited" /\ rc' = IF failed = {} THEN 0 ELSE 1
  /\ UNCHANGED <<pool, forked, failed, childVars, saved, faults, orphaned>>

DefectWaitsForSuccess ==
  /\ parent = "wait" /\ \A i \in Worker : child[Ours(i)] = "reaped"
  /\ failed = {}
  /\ parent' = "exited" /\ rc' = 0
  /\ UNCHANGED <<pool, forked, failed, childVars, saved, faults, orphaned>>

Return ==
  /\ parent = "wait" /\ \A i \in Worker : child[Ours(i)] = "reaped"
  /\ parent' = "exited" /\ rc' = IF failed = {} THEN 0 ELSE 1
  /\ UNCHANGED <<pool, forked, failed, childVars, saved, faults, orphaned>>

(* The user runs the command again after a run that did not succeed. *)
Rerun ==
  /\ parent \in {"exited", "gone"} /\ rc # 0 /\ pool < MaxPools
  /\ pool' = pool + 1 /\ parent' = "fork" /\ forked' = 0 /\ failed' = {}
  /\ rc' = -1 /\ died' = {}
  /\ UNCHANGED <<child, todo, now, saved, faults, orphaned>>

-----------------------------------------------------------------------------
(* A child: run_shard. *)

(* The child has come to slot n, the first of those still ahead of it. *)
ComesTo(c, n) == /\ child[c] = "running" /\ now[c] = NoTask
                 /\ n \in todo[c] /\ \A m \in todo[c] : n <= m
                 /\ todo' = [todo EXCEPT ![c] = @ \ {n}]

(* A task with a finite checkpoint is resumed, which changes nothing. *)
Skip(c, n) ==
  /\ ComesTo(c, n) /\ saved[TaskAt(n)] = "good"
  /\ UNCHANGED <<parentVars, child, now, died, saved, faults>>

Begin(c, n) ==
  /\ ComesTo(c, n) /\ saved[TaskAt(n)] # "good"
  /\ now' = [now EXCEPT ![c] = n]
  /\ UNCHANGED <<parentVars, child, died, saved, faults>>

(* The solve is saved, whether or not it came out finite. *)
Save(c) ==
  /\ child[c] = "running" /\ now[c] # NoTask
  /\ \E how \in {"bad", "good"} : saved' = [saved EXCEPT ![TaskAt(now[c])] = how]
  /\ now' = [now EXCEPT ![c] = NoTask]
  /\ UNCHANGED <<parentVars, child, todo, died, faults>>

ChildDone(c) ==
  /\ child[c] = "running" /\ now[c] = NoTask /\ todo[c] = {}
  /\ child' = [child EXCEPT ![c] = "ok"]
  /\ UNCHANGED <<parentVars, todo, now, died, saved, faults>>

(* A child ends with a status that is not 0, whatever it was doing. *)
Dies(c) ==
  /\ child[c] = "running"
  /\ child' = [child EXCEPT ![c] = "dead"]
  /\ died' = IF c[1] = pool THEN died \cup {c[2]} ELSE died
  /\ todo' = [todo EXCEPT ![c] = {}] /\ now' = [now EXCEPT ![c] = NoTask]
  /\ UNCHANGED <<parentVars, saved>>

(* An exception of its own (os._exit(1)) or a signal. *)
ChildDies(c) == Dies(c) /\ Fault("child")

(* The temporary names of _save_cts are the same for everybody: a rival at *)
(* the same task renames the file of both, and os.replace raises           *)
(* FileNotFoundError in the child that comes second.                       *)
Rivals(c, d) == /\ c # d /\ now[c] # NoTask /\ now[d] # NoTask
                /\ TaskAt(now[c]) = TaskAt(now[d])
SaveRaises(c) ==
  /\ \E d \in Child : Rivals(c, d)
  /\ Dies(c) /\ Fault("name")

-----------------------------------------------------------------------------
(* Kills from outside. *)

ParentKilled ==
  /\ parent \in {"fork", "wait"} /\ Fault("parent")
  /\ parent' = "gone" /\ orphaned' = TRUE
  /\ UNCHANGED <<pool, forked, failed, rc, childVars, saved>>

MachineDies ==
  /\ parent \in {"fork", "wait"} /\ Fault("machine")
  /\ parent' = "gone"
  /\ child' = [c \in Child |-> IF child[c] = "none" THEN "none" ELSE "reaped"]
  /\ todo' = [c \in Child |-> {}] /\ now' = [c \in Child |-> NoTask]
  /\ UNCHANGED <<pool, forked, failed, rc, died, saved, orphaned>>

Parent   == Fork \/ (\E i \in Worker : Reap(i)) \/ Return \/ Rerun
Work(c)  == \/ \E n \in Slot : Skip(c, n) \/ Begin(c, n)
            \/ Save(c) \/ ChildDone(c)
Next == \/ Parent \/ \E c \in Child : Work(c) \/ ChildDies(c) \/ SaveRaises(c)
        \/ ForkRaises \/ ParentKilled \/ MachineDies

Spec == Init /\ [][Next]_vars
FairSpec == Spec /\ WF_vars(Parent) /\ \A c \in Child : WF_vars(Work(c))

-----------------------------------------------------------------------------
(* Properties *)

(* Exit code 0 lets run_parallel.sh go on to the finalize pass: by then     *)
(* every task of the list has a checkpoint, whichever of the runs saved it. *)
SuccessIsComplete == rc = 0 => \A t \in Task : saved[t] # "none"

(* Unless os.fork failed or the parent alone was killed, no child outlives  *)
(* its parent: whoever runs the command again is alone with the checkpoints.*)
NobodyLeftBehind ==
  ~orphaned /\ parent \in {"exited", "gone"} =>
    \A c \in Child : child[c] # "running"

(* Unless children were orphaned, no two live processes ever solve the same *)
(* task into the same files.                                                *)
OneSolver ==
  ~orphaned => \A c, d \in Child : ~Rivals(c, d)

(* A parent that has waited for its workers blames those that died and no  *)
(* other, in whatever order they ended and whatever orphans do; and every  *)
(* task of a worker that it does not blame has a checkpoint.               *)
BlamesTheDead ==
  parent = "exited" /\ forked = NWorkers =>
    /\ failed = died
    /\ \A i \in Worker \ failed : \A n \in Shard(i) : saved[TaskAt(n)] # "none"

(* The parent never waits for ever, and a user who reruns the command gets  *)
(* a complete set of checkpoints once the faults are over.                  *)
EndsComplete == <>(rc = 0)
=============================================================================
