-------------------------- MODULE CampaignInvariant --------------------------
(***************************************************************************)
(* The inductive invariant behind the properties of module Campaign: what  *)
(* the directory of the current configuration holds in every phase of its  *)
(* run, and what the directories of results hold after any interruption.   *)
(***************************************************************************)
EXTENDS Campaign

Problems == [dataset : Datasets, partition : Partitions]
Solves   == [run : Nat, by : 0 .. NWorkers, problem : Problems, finite : BOOLEAN]
Lines    == [Task -> [run : Nat, by : Nat]]
Logs     == [worker : [Worker -> Lines], finalize : Lines]
ClassDir == [depth : Nat, ckpt : [Member -> Solves], model : SUBSET Solves]
Sections == [run : Nat, time : Lines, name : [Task -> 0 .. NWorkers],
             uploads : SUBSET Task]
Directory == [class : [Classes -> ClassDir], logs : Logs, metrics : SUBSET Nat,
              report : Seq(Sections)]

Phases == {"prepare", "fork", "pool", "finalize", "report", "metrics"}
TypeOK ==
  /\ env \in Envs
  /\ tree \in [Roots -> [Ks -> Directory]]
  /\ dest \in [Config -> Directory]
  /\ failed \subseteq Config
  /\ at \in Phases \cup {"idle", "check", "clean", "move", "failed", "summary"}
  /\ cur \in Config /\ todo \subseteq Task /\ runs \in Nat
  /\ moved \in 0 .. Len(MoveOrder) /\ torn \subseteq Config

(* In any environment: the configuration that runs has no results yet, the   *)
(* report is the last entry to be moved, and FAILED stands beside no report. *)
NoResults ==
  /\ at \in Phases \cup {"clean", "failed"} =>
       cur \notin failed /\ dest[cur] = NoTree
  /\ at = "move" => /\ cur \notin failed
                    /\ moved < Len(MoveOrder) => dest[cur].report = <<>>
  /\ at # "move" => moved = 0
  /\ at \in Phases \cup {"move"} => runs > 0
Unmarked == \A i \in Config : HasReport(i) => i \notin failed

-----------------------------------------------------------------------------
(* In the environment the scripts are written for, where both programs and   *)
(* shell work in one directory d, of run r and configuration i.              *)

Of(d, t) == d.class[t[1]].ckpt[t[2]]

(* What worker logs say of task t: nothing, or the time the worker took. *)
Unlogged(d, t) == \A w \in Worker : d.logs.worker[w][t] = NoLine
LoggedOnce(d, t, r) ==
  \A w \in Worker : d.logs.worker[w][t] =
    IF w = WorkerOf(t) THEN [run |-> r, by |-> WorkerOf(t)] ELSE NoLine

(* A checkpoint of this run, by a worker or by the finalize pass after it. *)
Own(d, t, r, i) == Of(d, t).run = r /\ Of(d, t).problem = Intended(i)
Pooled(d, t, r, i) ==
  /\ Own(d, t, r, i) /\ LoggedOnce(d, t, r) /\ Of(d, t).by = WorkerOf(t)
Finalized(d, t, r, i) ==
  /\ Own(d, t, r, i) /\ LoggedOnce(d, t, r)
  /\ \/ Of(d, t).by = WorkerOf(t) /\ d.logs.finalize[t] = Resumed
     \/ Of(d, t).by = Finalizer /\ d.logs.finalize[t] = Time(Of(d, t))

(* Class c has no global model yet; or that of its clients' checkpoints. *)
NoModel(d, c) == d.class[c].model = {}
Modelled(d, c) == d.class[c].model = {d.class[c].ckpt[j] : j \in Client}
Unreported(d) == d.metrics = {} /\ d.report = <<>>

InPool(d, left, r, i) ==
  /\ \A t \in Task : IF t \in left THEN Of(d, t) = NoSolve /\ Unlogged(d, t)
                     ELSE Pooled(d, t, r, i)
  /\ \A t \in Task : d.logs.finalize[t] = NoLine
  /\ \A c \in Classes : NoModel(d, c)
InFinalize(d, left, r, i) ==
  /\ \A t \in Task : IF t \in left
                     THEN Pooled(d, t, r, i) /\ d.logs.finalize[t] = NoLine
                     ELSE Finalized(d, t, r, i)
  /\ \A c \in Classes : /\ \A j \in Member : <<c, j>> \in left <=> <<c, Baseline>> \in left
                        /\ IF <<c, Baseline>> \in left THEN NoModel(d, c)
                           ELSE Modelled(d, c)
AllTrained(d, r, i) == /\ \A t \in Task : Finalized(d, t, r, i)
                       /\ \A c \in Classes : Modelled(d, c)

(* The report of run r, beside the checkpoints and models it is about. *)
Reported(d, r, i) ==
  /\ \A t \in Task : Own(d, t, r, i)
  /\ \A c \in Classes : Modelled(d, c)
  /\ Len(d.report) = 1
  /\ LET s == d.report[1]
     IN  /\ s.run = r /\ s.uploads = Classes \X Client
         /\ \A t \in Task : Of(d, t).by # Finalizer =>
              s.time[t] = Time(Of(d, t)) /\ s.name[t] = Of(d, t).by
Finished(d, r, i) == Reported(d, r, i) /\ d.metrics = {r}

(* The directory of which a part has been moved already. *)
Together ==
  [class   |-> [c \in Classes |-> IF c < moved THEN dest[cur].class[c] ELSE Here.class[c]],
   logs    |-> IF NClasses < moved THEN dest[cur].logs ELSE Here.logs,
   metrics |-> IF NClasses + 1 < moved THEN dest[cur].metrics ELSE Here.metrics,
   report  |-> IF NClasses + 2 < moved THEN dest[cur].report ELSE Here.report]

RunInv ==
  /\ at \in {"prepare", "fork"} => InPool(Here, Task, runs, cur)
  /\ at = "pool" => InPool(Here, todo, runs, cur)
  /\ at = "finalize" => InFinalize(Here, todo, runs, cur)
  /\ at \in {"prepare", "fork", "pool", "finalize", "report"} => Unreported(Here)
  /\ at = "report" => AllTrained(Here, runs, cur)
  /\ at = "metrics" => Reported(Here, runs, cur) /\ Here.metrics = {}
  /\ at = "move" /\ cur \notin torn => Finished(Together, runs, cur)

ResultsInv ==
  \A i \in Config :
    /\ HasReport(i) /\ i \notin torn => \E r \in 1 .. runs : Finished(dest[i], r, i)
    /\ \A c \in Classes : \A s \in dest[i].class[c].model : s.problem = Intended(i)

CampaignInv ==
  /\ TypeOK /\ NoResults /\ Unmarked
  /\ Plain => RunInv /\ ResultsInv /\ OwnProblem
=============================================================================
