------------------------------ MODULE RunReport ------------------------------
(***************************************************************************)
(* config/report.py: what the logs of the workers and of the finalize pass *)
(* say about the sub-problems of a run, and the section made of it.        *)
(*                                                                         *)
(* A time in a log is the identity of the solve that took it, so that the  *)
(* time of another solve is seen to be another.                            *)
(***************************************************************************)
EXTENDS Integers, FiniteSets, FiniteSetsExt

CONSTANTS NClasses, NClients, NWorkers

ASSUME ReportAssumption ==
  /\ NClasses \in Nat \ {0} /\ NClients \in Nat \ {0} /\ NWorkers \in Nat \ {0}

Classes  == 0 .. NClasses - 1
Client   == 0 .. NClients - 1
Baseline == NClients
Member   == 0 .. NClients
Task     == Classes \X Member

Worker    == 0 .. NWorkers - 1
Finalizer == NWorkers                     \* train's own pass

(* Places in task_list, which the workers take in turns. *)
PlaceOf(t) == IF t[2] = Baseline THEN NClasses * NClients + t[1]
              ELSE t[1] * NClients + t[2]
WorkerOf(t) == PlaceOf(t) % NWorkers
NextOfShard(todo, t) ==
  t \in todo /\ \A u \in todo : WorkerOf(u) = WorkerOf(t) => PlaceOf(t) <= PlaceOf(u)

-----------------------------------------------------------------------------
(* A log line about a task: none, "Resuming from checkpoint", "FHE solve". *)

NoLine  == [run |-> 0, by |-> 0]
Resumed == [run |-> 0, by |-> 1]
NoLines == [t \in Task |-> NoLine]
NoLogs  == [worker |-> [w \in Worker |-> NoLines], finalize |-> NoLines]
IsTime(line) == line.run # 0

(* Where several workers name a task, the last solve wins, and the first    *)
(* log that resumed it if none solved it.                                   *)
Solvers(logs, t) == {w \in Worker : IsTime(logs.worker[w][t])}
Namers(logs, t)  == {w \in Worker : logs.worker[w][t] # NoLine}

DefectTimeOf(logs, t) ==
  IF logs.finalize[t] # NoLine THEN logs.finalize[t]
  ELSE IF Solvers(logs, t) # {} THEN logs.worker[Max(Solvers(logs, t))][t]
  ELSE Resumed

(* A solve of the finalize pass replaces the worker's time ...              *)
TimeOf(logs, t) ==
  IF IsTime(logs.finalize[t]) THEN logs.finalize[t]
  ELSE IF Solvers(logs, t) # {} THEN logs.worker[Max(Solvers(logs, t))][t]
  ELSE Resumed

(* ... but not the worker's name beside it.                                 *)
NameOf(logs, t) ==
  IF Solvers(logs, t) # {} THEN Max(Solvers(logs, t))
  ELSE IF Namers(logs, t) # {} THEN Min(Namers(logs, t)) ELSE Finalizer

(* measure_comm_bytes: one upload for every client_*/weights.bin.           *)
Uploads(weights) == {t \in weights : t[2] # Baseline}

(* One section of report.md. *)
Section(run, logs, weights) ==
  [run |-> run, time |-> [t \in Task |-> TimeOf(logs, t)],
   name |-> [t \in Task |-> NameOf(logs, t)], uploads |-> Uploads(weights)]
=============================================================================
