------------------------------ MODULE Campaign ------------------------------
(***************************************************************************)
(* config/run_campaign.sh: the runs of a list of configurations, one after *)
(* the other, all in the same tree models/k=N/ when they have the same k,  *)
(* each followed by a move of what it left there into the configuration's  *)
(* own directory of results.  A run is config/run_parallel.sh, which may   *)
(* fail in any phase; a move may fail on an entry; everything may be killed *)
(* anywhere, and the user starts the campaign again until every            *)
(* configuration is done.                                                  *)
(*                                                                         *)
(* Operators named Defect... are plausible mistakes, not the program.      *)
(***************************************************************************)
EXTENDS RunReport, Settings, Sequences

CONSTANTS
  Configs,     \* the configurations: k, the flags for dataset and partition,
               \* and the depth of the context for their dimensions
  Envs,        \* the environments the campaign may be started in
  MaxFaults,   \* bound on kills, failing phases and moves, and solves that
               \* are not finite
  MaxCampaigns \* bound on how often the user starts the campaign

ASSUME CampaignAssumption ==
  /\ Configs \in Seq([k : Nat, dataset : Datasets, partition : Partitions \cup {Unset},
                      depth : Nat \ {0}]) /\ Configs # <<>>
  /\ Envs \subseteq [dataset : Datasets \cup {Unset}, root : Roots \cup {Unset},
                     partition : Partitions \cup {Unset}]
  /\ MaxFaults \in Nat /\ MaxCampaigns \in Nat

Config == DOMAIN Configs
Ks     == {Configs[i].k : i \in Config}

VARIABLES
  env,     \* LSSVM_DATASET, LSSVM_PARTITION and LSSVM_MODELS_ROOT
  tree,    \* root -> k -> the directory <root>/k=N/
  dest,    \* configuration -> its directory of results
  failed,  \* the configurations whose directory has a file FAILED
  at,      \* where the campaign is
  cur,     \* the configuration it is at
  todo,    \* the tasks that the pool or the finalize pass has still to do
  moved,   \* how many entries of the tree mv has come to
  torn,    \* the configurations whose move left an entry behind
  runs,    \* how often run_parallel.sh was started
  started, \* how often the campaign was
  summary, \* the statuses of the last SUMMARY.md
  faults

vars == <<env, tree, dest, failed, at, cur, todo, moved, torn, runs, started,
          summary, faults>>
place == <<env, cur, moved, torn, runs, started, summary>>

-----------------------------------------------------------------------------
(* What the programs make of flags and environment, and what the user means. *)

C == Configs[cur]
Problem(i, e) == [dataset   |-> DatasetName(Configs[i].dataset, e),
                  partition |-> PartitionName(Configs[i].partition, e)]
NoEnv == [dataset |-> Unset, partition |-> Unset, root |-> Unset]
Intended(i) == Problem(i, NoEnv)

(* run_one passes no --models-root: the shell works in models/, the programs *)
(* where LSSVM_MODELS_ROOT says.                                             *)
ShellRoot  == ShellModelsRoot(Unset)
PythonRoot == ModelsRoot(Unset, env)
Here  == tree[ShellRoot][C.k]
There == tree[PythonRoot][C.k]

(* A directory k=N: class directories, logs/, metrics.csv and report.md.     *)
NoSolve == [run |-> 0, by |-> 0, problem |-> Intended(1), finite |-> TRUE]
NoClass == [depth |-> 0, ckpt |-> [i \in Member |-> NoSolve], model |-> {}]
NoTree  == [class |-> [c \in Classes |-> NoClass],
            logs |-> NoLogs, metrics |-> {}, report |-> <<>>]
Put(t, root, d) == [t EXCEPT ![root][C.k] = d]
PutHere(d)  == tree' = Put(tree, ShellRoot, d)
PutThere(d) == tree' = Put(tree, PythonRoot, d)

Init ==
  /\ env \in Envs
  /\ tree = [r \in Roots |-> [k \in Ks |-> NoTree]]
  /\ dest = [i \in Config |-> NoTree] /\ failed = {}
  /\ at = "idle" /\ cur = 1 /\ todo = {} /\ moved = 0 /\ torn = {}
  /\ runs = 0 /\ started = 0 /\ summary = [i \in Config |-> "none"] /\ faults = 0

Fault == faults < MaxFaults /\ faults' = faults + 1

-----------------------------------------------------------------------------
(* run_one: skip what is done, or clean up for a run.                      *)

HasReport(i) == dest[i].report # <<>>

Start ==
  /\ at = "idle" /\ started < MaxCampaigns /\ started' = started + 1
  /\ \E i \in Config : summary[i] # "ok"
  /\ at' = "check" /\ cur' = 1
  /\ UNCHANGED <<env, tree, dest, failed, todo, moved, torn, runs, summary, faults>>

Continue == IF cur = Len(Configs) THEN at' = "summary" /\ cur' = cur
            ELSE at' = "check" /\ cur' = cur + 1

DefectSkip ==
  /\ at = "check" /\ (HasReport(cur) \/ cur \in failed) /\ Continue
  /\ UNCHANGED <<env, tree, dest, failed, todo, moved, torn, runs, started, summary,
                 faults>>

Skip ==
  /\ at = "check" /\ HasReport(cur) /\ Continue
  /\ UNCHANGED <<env, tree, dest, failed, todo, moved, torn, runs, started, summary,
                 faults>>

(* rm -rf "$dest" "models/k=$k", one after the other. *)
DefectCleanDest ==
  /\ at = "check"
  /\ dest' = [dest EXCEPT ![cur] = NoTree] /\ failed' = failed \ {cur}
  /\ torn' = torn \ {cur} /\ at' = "clean"
  /\ UNCHANGED <<env, tree, cur, todo, moved, runs, started, summary, faults>>

CleanDest ==
  /\ at = "check" /\ ~HasReport(cur)
  /\ dest' = [dest EXCEPT ![cur] = NoTree] /\ failed' = failed \ {cur}
  /\ torn' = torn \ {cur} /\ at' = "clean"
  /\ UNCHANGED <<env, tree, cur, todo, moved, runs, started, summary, faults>>

DefectCleanTree ==
  /\ at = "clean" /\ at' = "prepare" /\ runs' = runs + 1
  /\ UNCHANGED <<env, tree, dest, failed, cur, todo, moved, torn, started, summary,
                 faults>>

CleanTree ==
  /\ at = "clean" /\ at' = "prepare" /\ runs' = runs + 1
  /\ PutHere(NoTree)
  /\ UNCHANGED <<env, dest, failed, cur, todo, moved, torn, started, summary, faults>>

-----------------------------------------------------------------------------
(* run_parallel.sh.                                                        *)

(* --prepare-context reuses a context of the same depth, and refuses to     *)
(* make one beside anything that is there (module SharedContext).           *)
Prepared  == There.class[0].depth = C.depth
Untouched == \A c \in Classes : There.class[c] = NoClass

Prepare ==
  /\ at = "prepare" /\ (Prepared \/ Untouched)
  /\ PutThere([There EXCEPT !.class[0].depth = C.depth])
  /\ at' = "fork"
  /\ UNCHANGED <<dest, failed, place, todo, faults>>

PrepareRefuses ==
  /\ at = "prepare" /\ ~Prepared /\ ~Untouched
  /\ at' = "failed"
  /\ UNCHANGED <<tree, dest, failed, place, todo, faults>>

(* Every child of the pool opens its log anew, under the programs' root. *)
ForkChildren ==
  /\ at = "fork"
  /\ PutThere([There EXCEPT !.logs.worker = NoLogs.worker])
  /\ todo' = Task /\ at' = "pool"
  /\ UNCHANGED <<dest, failed, place, faults>>

(* solve_client_checkpointed, called by a worker: a checkpoint that is there *)
(* and finite is resumed, whatever problem it is of.                         *)
Resumable(s) == s # NoSolve /\ s.finite
Solve(who, finite) == [run |-> runs, by |-> who, problem |-> Problem(cur, env),
                       finite |-> finite]
Time(s) == [run |-> s.run, by |-> s.by]

ResumeTask(t) ==
  /\ at = "pool" /\ NextOfShard(todo, t)
  /\ Resumable(There.class[t[1]].ckpt[t[2]])
  /\ PutThere([There EXCEPT !.logs.worker[WorkerOf(t)][t] = Resumed])
  /\ todo' = todo \ {t}
  /\ UNCHANGED <<dest, failed, at, place, faults>>

SolveTask(t) ==
  /\ at = "pool" /\ NextOfShard(todo, t)
  /\ ~Resumable(There.class[t[1]].ckpt[t[2]])
  /\ \E finite \in BOOLEAN :
       /\ IF finite THEN UNCHANGED faults ELSE Fault
       /\ LET s == Solve(WorkerOf(t), finite)
          IN  PutThere([There EXCEPT !.class[t[1]].ckpt[t[2]] = s,
                                     !.logs.worker[WorkerOf(t)][t] = Time(s)])
  /\ todo' = todo \ {t}
  /\ UNCHANGED <<dest, failed, at, place>>

(* The pipe to tee creates finalize.log anew, under the shell's root.        *)
PoolDone ==
  /\ at = "pool" /\ todo = {}
  /\ PutHere([Here EXCEPT !.logs.finalize = NoLines])
  /\ todo' = Task /\ at' = "finalize"
  /\ UNCHANGED <<dest, failed, place, faults>>

(* federated_lssvm.train on one class: checkpoints that are not finite are   *)
(* solved again, and the global model is made of the clients' checkpoints.   *)
Again(c) == {i \in Member : ~Resumable(There.class[c].ckpt[i])}
Retried(c, finite) == [i \in Member |-> IF i \in Again(c) THEN Solve(Finalizer, finite)
                                        ELSE There.class[c].ckpt[i]]
FinalLines(c, ckpt) ==
  [t \in Task |-> IF t[1] # c THEN Here.logs.finalize[t]
                  ELSE IF t[2] \in Again(c) THEN Time(ckpt[t[2]]) ELSE Resumed]
Trained(c, ckpt) ==
  Put(tree, PythonRoot, [There EXCEPT !.class[c] =
    [depth |-> C.depth, ckpt |-> ckpt, model |-> {ckpt[i] : i \in Client}]])

FinalizeClass(c) ==
  /\ at = "finalize" /\ <<c, Baseline>> \in todo /\ \A t \in todo : c <= t[1]
  /\ \E finite \in BOOLEAN :
       LET ckpt    == Retried(c, finite)
           trained == Trained(c, ckpt)
       IN  /\ IF finite THEN UNCHANGED faults ELSE Again(c) # {} /\ Fault
           /\ tree' = Put(trained, ShellRoot, [trained[ShellRoot][C.k] EXCEPT
                                 !.logs.finalize = FinalLines(c, ckpt)])
  /\ todo' = {t \in todo : t[1] # c}
  /\ UNCHANGED <<dest, failed, at, place>>

FinalizeDone ==
  /\ at = "finalize" /\ todo = {}
  /\ at' = "report"
  /\ UNCHANGED <<tree, dest, failed, place, todo, faults>>

(* config.report is told the shell's root: it counts the uploads there.      *)
WriteReport ==
  /\ at = "report"
  /\ LET weights == {t \in Task : Here.class[t[1]].ckpt[t[2]] # NoSolve}
     IN  PutHere([Here EXCEPT !.report = Append(@, Section(runs, Here.logs, weights))])
  /\ at' = "metrics"
  /\ UNCHANGED <<dest, failed, place, todo, faults>>

WriteMetrics ==
  /\ at = "metrics"
  /\ PutHere([Here EXCEPT !.metrics = @ \cup {runs}])
  /\ at' = "move"
  /\ UNCHANGED <<dest, failed, place, todo, faults>>

-----------------------------------------------------------------------------
(* mv models/k=$k/* "$dest/": entry by entry, in the order of the glob.    *)

ClassEntries == [j \in 1 .. NClasses |-> <<"class", j - 1>>]
DefectMoveOrder ==
  <<<<"report", 0>>, <<"metrics", 0>>, <<"logs", 0>>>> \o ClassEntries
MoveOrder ==
  ClassEntries \o <<<<"logs", 0>>, <<"metrics", 0>>, <<"report", 0>>>>

(* Directory t with the entry e of directory u in it. *)
Take(t, e, u) == IF e[1] = "class" THEN [t EXCEPT !.class[e[2]] = u.class[e[2]]]
                 ELSE [t EXCEPT ![e[1]] = u[e[1]]]

Move ==
  /\ at = "move" /\ moved < Len(MoveOrder)
  /\ LET e == MoveOrder[moved + 1]
     IN  /\ dest' = [dest EXCEPT ![cur] = Take(@, e, Here)]
         /\ PutHere(Take(Here, e, NoTree))
  /\ moved' = moved + 1
  /\ UNCHANGED <<env, failed, at, cur, todo, torn, runs, started, summary, faults>>

(* An entry cannot be moved: mv goes on with the next one, and only the      *)
(* removal that would have followed is left out.                             *)
MoveEntryFails ==
  /\ at = "move" /\ moved < Len(MoveOrder) /\ Fault
  /\ moved' = moved + 1 /\ torn' = torn \cup {cur}
  /\ UNCHANGED <<env, tree, dest, failed, at, cur, todo, runs, started, summary>>

Moved ==
  /\ at = "move" /\ moved = Len(MoveOrder)
  /\ IF cur \in torn THEN UNCHANGED tree ELSE PutHere(NoTree)
  /\ moved' = 0 /\ Continue
  /\ UNCHANGED <<env, dest, failed, todo, torn, runs, started, summary, faults>>

(* A phase of run_parallel.sh exits with an error: FAILED, and on it goes.  *)
RunFails ==
  /\ at \in {"prepare", "fork", "pool", "finalize", "report", "metrics"} /\ Fault
  /\ at' = "failed"
  /\ UNCHANGED <<tree, dest, failed, place, todo>>

MarkFailed ==
  /\ at = "failed"
  /\ failed' = failed \cup {cur} /\ todo' = {} /\ Continue
  /\ UNCHANGED <<env, tree, dest, moved, torn, runs, started, summary, faults>>

Summarise ==
  /\ at = "summary" /\ at' = "idle"
  /\ summary' = [i \in Config |-> IF i \in failed THEN "FAILED"
                                  ELSE IF HasReport(i) THEN "ok" ELSE "-"]
  /\ UNCHANGED <<env, tree, dest, failed, cur, todo, moved, torn, runs, started, faults>>

Kill ==
  /\ at # "idle" /\ Fault
  /\ at' = "idle" /\ todo' = {} /\ moved' = 0
  /\ UNCHANGED <<env, tree, dest, failed, cur, torn, runs, started, summary>>

Run == \/ Prepare \/ PrepareRefuses \/ ForkChildren \/ PoolDone
       \/ \E t \in Task : ResumeTask(t) \/ SolveTask(t)
       \/ \E c \in Classes : FinalizeClass(c)
       \/ FinalizeDone \/ WriteReport \/ WriteMetrics
Driver == \/ Start \/ Skip \/ CleanDest \/ CleanTree \/ Move \/ Moved
          \/ MarkFailed \/ Summarise

Next == Run \/ Driver \/ RunFails \/ MoveEntryFails \/ Kill

(* The machine goes on with what runs, and the user starts the campaign      *)
(* again as long as its summary does not show every configuration as ok.     *)
Spec == Init /\ [][Next]_vars
FairSpec == Spec /\ WF_vars(Run \/ Driver)

-----------------------------------------------------------------------------
(* Properties *)

(* The environment the scripts are written for. *)
Plain == env.root = Unset /\ env.partition = Unset

(* A configuration that is skipped as done has everything in its directory,  *)
(* all of one run that went through: no interruption between the moves, and  *)
(* no earlier attempt, leaves a report.md beside anything else, and FAILED   *)
(* never stands beside it.  A mv that fails on an entry other than report.md *)
(* does: the campaign takes no notice of it, and torn names the exceptions.  *)
ResultsOf(t, r) ==
  /\ \A c \in Classes : /\ t.class[c].model = {t.class[c].ckpt[i] : i \in Client}
                        /\ \A i \in Member : t.class[c].ckpt[i].run = r
  /\ t.metrics = {r} /\ Len(t.report) = 1 /\ t.report[1].run = r
DoneIsOneRun ==
  \A i \in Config : HasReport(i) =>
    /\ i \notin failed
    /\ Plain /\ i \notin torn => \E r \in 1 .. runs : ResultsOf(dest[i], r)

(* No global model is ever made of a checkpoint of another configuration's   *)
(* problem: a checkpoint names neither dataset nor partition, and the        *)
(* removal of models/k=N/ before every run is all that keeps them apart.     *)
Models == {<<i, dest[i]>> : i \in Config}
            \cup (IF at \in {"finalize", "report", "metrics", "move"}
                  THEN {<<cur, There>>} ELSE {})
OwnProblem ==
  \A m \in Models, c \in Classes : \A s \in m[2].class[c].model :
    s.problem = Intended(m[1])
PlainOwnProblem == Plain => OwnProblem

(* A task of which a worker's ciphertexts are kept stands in the report with *)
(* the time of that very solve and the name of that worker: neither the line *)
(* of an earlier solve, nor the pass over it by finalize, which says only    *)
(* that it was resumed, gets in its place.  And all clients' uploads are     *)
(* counted, the baselines' not.  Of a task that finalize solved again the    *)
(* report says nothing so simple: TimeOf and NameOf.                         *)
ReportIsTrue ==
  \A i \in Config : Plain /\ HasReport(i) /\ i \notin torn =>
    LET s == dest[i].report[1]
    IN  /\ \A t \in Task :
             LET kept == dest[i].class[t[1]].ckpt[t[2]]
             IN  kept.by # Finalizer => s.time[t] = Time(kept) /\ s.name[t] = kept.by
        /\ s.uploads = Classes \X Client

(* What is done is never touched again, by a later configuration of the same *)
(* k or by a campaign started again; not even by the move that completed it. *)
FinishedIsKept == [][\A i \in Config : HasReport(i) => dest'[i] = dest[i]]_vars

(* Once the faults are over, a campaign that is started again as long as its *)
(* summary asks for it has the results of every configuration, and says so.  *)
EverythingDone == <>[](Plain => \A i \in Config : HasReport(i) /\ summary[i] = "ok")
=============================================================================
