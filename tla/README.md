# A TLA+ model of homomorphic-cli

The program trains least-squares support vector machines under CKKS
homomorphic encryption, one-vs-rest class by class: the training data of a
class is dealt to *k* federated clients, each client's linear system is solved
under encryption (hours of work), the encrypted solutions are averaged, and a
single-client baseline is solved beside them. `config/run_parallel.sh` runs the
whole as four processes in sequence that share nothing but files under
`models/k=N/`, on machines that may be taken away at any moment;
`config/run_campaign.sh` runs it for a list of configurations. Three parts of
the program are hard to get right and hard to test: the custody of keys,
checkpoints and results across processes, kills and reruns; the slot arithmetic
of the encrypted solvers, where a wrong mask or rotation raises no error; and
the budget of multiplicative levels, which is fixed before a run of hours.

Contents: 1 inventory, 2 modules, 3 runs, 4 fairness, 5 proofs, 6 findings,
7 what is not modelled, 8 plan.

## 1. Inventory

### Parts, their state and their operations

| part | code | state | operations | module |
|---|---|---|---|---|
| shared context and key custody | `train.py` 130-262, 601-640, `main`; `worker.py` 89-113, 260-335; `save_global_checkpoint`; the security marker in `solvers/utils.py` | the files of every `class_c/` directory; the secret key in a process's memory | prepare, load, save context, refuse, save global model | `SharedContext` |
| client checkpoints | `train.py` 188-204, 262-276, 649-687 | `bias.bin`, `weights.bin` and their `.tmp` names per client and baseline | resume, check finite, solve, write, rename | `ClientCheckpoint` |
| fork pool | `worker.py` 80-86, 126-257 | the children, their exit statuses, the task list | fork, reap, exit code; per child: skip, solve, save | `ForkPool` |
| standalone shards | `worker.py --shard=i/W` | none of its own | the loop of one child | `ForkPool` |
| partitioning | `train.py` 300-426 | the client index arrays | split iid, split Dirichlet, trim, deal out, fill | `Partition` |
| problem dimensions, slot limit | `train.py` 531-621 | none | sizes, depth, the refusal and its advice | `Partition`, `Programs` |
| training driver | `train.main` 864-1135, `fhe_aggregate` | class loop, gathered ciphertexts, classifiers | aggregate, evaluate, recalibrate, report | `SharedContext`, `Programs` |
| inference | `infer.py`, `load_global_checkpoint`, `lssvm/inference.py` | none | read a global model, rebuild the features, predict | `SharedContext`, `Programs` |
| QR solvers | `qr_householder_cipher_{row,col}.py` | ciphertexts, levels, rotation keys | reflections, Q^T rhs, back-substitution, weights, batched scores | `PackedSolver`, `EncryptedModel`, `Circuits` |
| CG solver | `cg_cipher.py` | the same | preconditioning, simulation, iteration, Schur reduction | `PackedCG`, `EncryptedModel`, `Circuits` |
| plaintext references | `plain.py`, `qr_householder.py`, `plain_run.py` | none | the same in the clear | `PlainQR` |
| preprocessing, datasets | `preprocessing.py`, `preprocessors/` | none | kernels, feature maps, GCV, splits | `LssvmSystem`, `Programs` |
| demo, baseline run, smoke test | `cipher.py`, `baseline_run.py`, `smoke_test_fedavg` | a model directory | depth, encrypt or solve, average, score, save | `Programs` |
| flags | `solver_selection.py` | environment variables | flag, else variable, else default | `Settings` |
| run driver | `config/run_parallel.sh` | logs | prepare, pool, finalize, report | `SharedContext`, `Campaign` |
| campaign | `config/run_campaign.sh`, `paper_run.sh` | result directories | skip, clean, run, move, summarise | `Campaign` |
| report | `config/report.py` | `report.md`, `metrics.csv` | parse logs, merge times, append | `RunReport` |
| threads, metrics, dataset loaders | `config/parallel.py`, `config/metrics.py`, `preprocessors/*/` | none | parsing, formulas | not modelled |

### How they interact

`run_parallel.sh` runs `worker --prepare-context`, then `worker --workers=W`
(the pool), then `train`, then `config.report`; a failing phase ends it. The
pool's parent loads the context once and forks *W* children, which take every
*W*-th task of one list and save into one directory tree without locks. `train`
calls the same `solve_client_checkpointed` serially, normally finding
everything done. `prepare`, the pool and `train` decide *independently*, from
*different* files, whether a usable context exists; `train` may also be started
alone. The global model that `train` writes shares the directory, and three
file names, with the context of the class. The report is made of log files that
the phases leave, and of the tree. The campaign removes `models/k=N/`, runs, and
moves what the run left, entry by entry, into a directory of results; the
`report.md` there decides whether the configuration is ever run again. The
scripts work in `models/`, the programs wherever flag or variable says.

### What is hard, and what must hold

- A process may end between any two file operations. Context and global-model
  files are opened in place, which truncates them; client checkpoints go
  through a temporary name. *Must hold:* one secret key for all complete files
  of `models/k=N/`, for ever; FedAvg adds ciphertexts of the key it decrypts
  with; a truncated file is never taken for a checkpoint; a run that reports
  success leaves every file complete; finished work is not lost; infer never
  takes half a model for a whole one; rerunning gets through.
- *W* processes and possibly orphans of earlier runs save side by side. *Must
  hold:* no two solve one task; exit code 0 means every task has a checkpoint;
  the parent neither hangs nor blames the wrong worker.
- A solve may come out not finite and is then solved again over its old files.
  *Must hold:* a call returns the bias and the weights of one solve, and a good
  checkpoint is never computed again.
- A checkpoint names neither dataset nor partition; configurations of one k
  share a tree; a campaign may be killed between two moves and is started
  again. *Must hold:* a model is made of the checkpoints of its own problem;
  what is skipped as done is the complete result of one run; its report is
  about the solves beside it; it is never touched again (a move that fails on
  an entry and a solve that is repeated make exceptions, see 6).
- Dirichlet partitions are trimmed, dealt out again and filled up. *Must hold:*
  disjoint, complete, no empty client, nobody above the cap; the number of
  clients that the refusal advises is enough (it is not, see 6).
- Solvers compute on packed slots: rotations wrap, doubling trees run past the
  length asked for, Chebyshev series put junk into unused slots or are only
  right on an interval predicted in the clear, a rotation without a key fails.
  *Must hold:* both packings do what the plaintext algorithm does; CG is where
  its simulation puts it; the answer solves the system; every rotation has a
  key.
- Depth is a formula of the sizes, evaluated before the run; low ciphertexts
  skip the bootstrap. *Must hold:* no ciphertext of any program is deeper than
  its context.
- Two inference programs rebuild from files the features that four programs
  trained on. *Must hold:* same scaling, same map, same mean, same threshold
  (for the demo they are not, see 6).

`PROJECT.json` lists these hazards at their lines, with the properties that
watch each.

## 2. Modules

| module | models | state that corresponds |
|---|---|---|
| `KeyCustody` | abstract: a directory with at most one owner and a growing set of finished sub-problems | `owners`, `saved` |
| `SharedContext` | life of the context and all files, by prepare, pool, train and infer | `disk[c][file]` is Absent, Torn or the key of its writer; `proc`, `at`, `cls`, `pos`, `open` are the program counter; `task` the sub-problems; `acc` the ciphertexts FedAvg gathered |
| `CheckpointCell` | abstract: a cell the first finite solve fills for ever | `cell`, `answer` |
| `ClientCheckpoint` | one client directory at the level of inodes | `bin`, `tmp` map names to inodes, `content` inodes to solves; `pc`, `fd`, `pair` per process |
| `ForkPool` | parent, children and reruns | `child`, `todo`, `now` per child; `forked`, `failed`, `rc` of the parent; `saved`; `orphaned` only observes |
| `Settings` | `solver_selection.py`: flag, variable, default; what the shell makes of it | none: operators |
| `RunReport` | `config/report.py` on the logs of one run | none: operators on `logs`; a time is the identity of the solve that took it |
| `Campaign`, `CampaignMC` | `run_campaign.sh` and, inside it, `run_parallel.sh` in the large | `tree` is what is under each root, `dest` the directories of results; `at`, `cur`, `moved`, `todo` the program counter; `failed` the FAILED files; `env` the variables set; `torn` only observes which moves left an entry behind |
| `CampaignInvariant` | the inductive invariant of `Campaign`, which the run checks and the proofs use | none: predicates |
| `Partition` | `partition_all` with its helpers, `min_k` of the slot check | `part`, `overflow`; `visited`, `progressed` of the dealing round; `empties` |
| `CkksSlots` | `solvers/utils.py` on one ciphertext, `_rotation_indices` | none: operators on slot vectors |
| `LssvmSystem` | a client's system, scoring in batches: what all solvers share | none: operators |
| `PlainQR` | abstract: `qr_householder.py` on a plain matrix | `r`, `q`, pivot `k` |
| `EncryptedModel` | what every encrypted solver ends with: bias, weights, and `predict_cipher` batch by batch | `b`, `w` the ciphertexts of these names, `scores` what is decrypted, `used` the rotations asked for |
| `PackedSolver`, `PackedSolverMC` | the QR solvers, from the encrypted system to the model | `R`, `Q` are `R_cts` and `Q_cols`; `c`, `x` the ciphertexts of these names; `k`, `row` the loops |
| `PackedCG`, `PackedCGMC` | `cg_cipher.py`, likewise | `x_ct`, `r_ct`, `p_ct`, `rr` the ciphertexts of the loop, `it` its counter, `sim` the state of `_simulate_cg`; `rows`, `rhs` the system of the running solve; `u`, `v`, `alpha` what the solves leave |
| `Circuits` | the levels of all circuits, and `depth_for_size` | none: operators on levels |
| `Programs`, `ProgramsMC` | train, smoke test, baseline run and demo from the depth of the context to the saved model, and the two inference programs | `R`, `Q`, `ct`, `cg` hold the level of each ciphertext, `peak` the highest so far; `files` is the model directory, `served` what inference computes with it |
| `SharedContextProofs`, `ClientCheckpointProofs`, `ForkPoolProofs`, `PartitionProofs`, `CampaignProofs`, `ProgramsProofs`, `SolverProofs` | proofs about the module of the name, `SolverProofs` about both packed solvers (section 5) | |
| `SlotTheorems` | lemmas about the operators of `CkksSlots` and `LssvmSystem` | |

Composition. `SharedContext` composes the context, the pool, the training
driver and infer; inside it the pool is abstract (any set of tasks in flight at
once) and saving one checkpoint is two atomic renames. `ForkPool` refines the
first: which tasks a child takes, how children end and what the parent makes of
it. `ClientCheckpoint` refines the second, down to opens, writes and renames.
`Campaign` looks from above:
it EXTENDS `Settings` and `RunReport`, and of a run it keeps the order of the
phases, shards and tasks, what is resumed, what is logged where, and that every
phase may fail; the custody of keys inside `models/k=N/`, which `SharedContext`
is about, is reduced to the depth of the context. `PackedSolver` and `PackedCG`
extend `EncryptedModel`, and with it `LssvmSystem` and `CkksSlots`, and compute
values; `Programs` sends the
same circuits, in `Circuits`, through as levels, with the bootstraps.

`SharedContext`. `PrepareReuse/Fresh/Refuse` are the three branches of
`--prepare-context`; `PoolLoad/Die` are `_load_context_or_die`; `TrainLoad`,
`TrainUnloadable`, `TrainFresh`, `TrainRefuse` are the start of `train.main`;
`BeginClass` to `TrainDone` its class loop. `OpenFile` and `CloseFile` are the
two halves of every file of `_save_class_context` and `save_global_checkpoint`,
in the order of `ContextFiles` and `GlobalFiles`; between them the file is Torn.
`infer.py` writes nothing and reads class by class beside whatever runs:
`CanScore` is the file it opens first and cannot do without, `Optional` are the
ones it opens later and replaces by a default. `Kill` may strike wherever the
constant `KillPoints` says: in the context or the global model of class 0
(`"context"`, `"global"`), in those of later classes (`"secondary"`), or
elsewhere (`"solve"`). All runs in one behaviour are the same command: depth,
security level, dataset and partition are equal. A torn marker reads as no
depth; a torn `security.txt` as an empty string, a missing one as `notset`, as
`read_security_marker` does. A write that was interrupted half way is Torn
whatever bytes it left, so a marker cut after its first digits, which would
still parse as a number, is not told apart.

`ClientCheckpoint`. A solve is a number with the set of its parts (bias,
weights) that decrypt to finite values. `Open` creates or truncates the
temporary name, `Write` fills the open inode, `Replace` is `os.replace`. Torn
stands for any content that does not load or is not finite. A call begins only
when no other is in progress.

`ForkPool`. Tasks are numbered as in `task_list`, clients first, and a child
takes `Shard(i)`, the slots `i, i+W, ...`. Faults are a dying child, a raising
`os.fork`, a killed parent and a machine that goes away; the second and third
leave orphans that keep running beside the next run. `SaveRaises` is what an
orphan then does to a child at the same task: it renames the temporary file of
both, and the child's `os.replace` raises. `died` only observes, so that
`BlamesTheDead` can tell the dead from the blamed.

`Campaign`. `Start` is the user; `Skip`, `CleanDest`, `CleanTree`, `Move`,
`Moved`, `MarkFailed` and `Summarise` are `run_one` and what follows it;
`Prepare` to `WriteMetrics` are the four phases. The two `rm -rf` and every
entry of the `mv` are steps of their own, in the order of the glob. A time in
a log is the pair of run and process that solved, so that a stale time is seen
to be one. `RunFails` is any phase that exits with an error, `MoveEntryFails` an
entry that `mv` cannot move, `Kill` strikes anywhere.

`Partition`. Which sample is moved depends on shuffles and array order and is
left open; how many and from where to where is the code's. A Dirichlet draw is
any assignment of samples to clients. `MinK` and `MatrixSize` are the advice and
the row count of `assert_fits_bootstrap_slots` and `compute_problem_dimensions`.

`PackedSolver` and `PackedCG`. CKKS computes on approximate reals; the models
compute exactly, modulo an odd prime. The solvers use nothing but +, -, *, 1/t
and sqrt, and the identities that make them right (a reflector is orthogonal,
Q R stays the matrix, a residual belongs to its iterate) hold in every field, so
an identity that fails there is wrong over the reals, too; what is lost is
precision, noise and bootstrapping. In a field half of the numbers have no root:
a client whose next norm is one of them stops there, which no sum of squares
over the reals does; likewise a nonzero vector of length 0 stops CG
(`Definite`). There is no order either, so a pivot that is not zero may be given
either sign, as long as the reflector does not vanish. A Chebyshev series acts
on all slots, and an unused slot, which holds 0, is outside its domain: `HeSqrt`
and `HeInv` put `Junk` there. CG's intervals are narrow, around the value that
the simulation predicts: `HeInvNear` is right on that value and `Junk` on every
other. Around a predicted 0 there is no interval and nothing to evaluate: the
solve ends there (`InverseRaises`). Both packings get pivots of either sign.
The column solver does not handle negative ones (see 6): the history variable
`negative` remembers that one was met, and the properties that a column solver
then breaks exempt it by name (`SignHonoured`); that the answer solves the
system is stated for rows only.

`Programs`. A job is a program with a solver, a security level, a kernel, the
sizes of the running and of the largest client, and what OpenFHE's Chebyshev
series cost; all of them start. One step of a solver is one action. A
ciphertext is the number of multiplications behind it; a bootstrap puts it
back to `BootDepth` and is skipped below that. A frame of features records which
of standardisation, feature map, centring (and by which mean) and normalisation
were applied. OpenFHE's own cost of a series is
external: the run tries four tables around its documentation's.

In every module, an operator named `Defect...` is a plausible mistake in the
definition after it. It is no part of the specification; replacing the
definition by it makes the property that guards against the mistake fail, which
is how each property was seen to be able to fail.

## 3. Runs

| run | question | bounds |
|---|---|---|
| `custody` | do keys, checkpoints and success reports stay sound under every sequence of the two programs, killed anywhere? does infer read whole models only? does rerunning get through? | 2 classes, 1 client, 2 faults |
| `lost_key` | what does a kill while class 0's global model is rewritten do? (finding) | 1 fault |
| `checkpoint_kills` | two processes that call in turn, killed at any step: does a client directory implement the cell? | 4 solves, 3 kills; solves finite, finite in the bias only, or not at all |
| `checkpoint_mixed` | what if only the bias came out not finite? (finding) | 2 solves, 1 kill |
| `pool` | shards, reaping, blame, orphans; does exit code 0 tell the truth, and is it reached? | 2 classes, 1 client, 2 workers, 3 runs, 1 fault and 1 race of an orphan |
| `partition` | are the parts disjoint, complete, non-empty and capped? | 5 + 1 samples, 4 clients, configured cap 1 |
| `advice` | does the number of clients advised fit the slots? (finding) | 3 + 3 samples, 2 clients, iid |
| `qr` | does the row solver carry out the plaintext reflections with either sign, the column solver up to its first negative pivot? does the row solver solve the system, are the scores right, has every rotation a key? | arithmetic modulo 7, 4 slots, 2 samples (3 rows), 4 features, 5 test points |
| `qr_col` | does the column solver solve the system? (finding) | the same with 2 features |
| `cg` | is the encrypted CG where its simulation puts it, does it solve the indefinite system, does it raise over a solved iterate only, are scores and keys right? | modulo 7, 4 slots, 3 samples, 3 features (7 vectors), 3 iterations, with and without preconditioning |
| `campaign` | is what counts as done complete, of one run and of its own problem, its report true where it can be; does starting again finish? | 3 configurations of one k, 2 classes, 1 client, 2 workers, 3 campaigns, 2 faults; two environments |
| `levels` | does every program stay within its depth, is every federated model served as it was trained? | sizes 2, 3, 5, 8, 32, 33; 6 CG iterations; usable depth 25, bootstrap 19; series costs 2, 4 (degree 2) and 5, 6 (degree 8) |

Why these bounds are enough for the interesting cases. Two classes tell the
first class directory, which prepare writes, from those that train adds, and one
client beside the baseline gives every class two checkpoints; two faults let an
interruption strike the repair of an earlier one. Four tasks on two workers give
each worker two. Three configurations of one k follow each other in one tree,
the second with another partition and the same context, the third with another
dataset and depth; two faults cut a move and then the run that repairs it. Four
clients for six samples of two labels with a cap of two make the dealing take
several rounds, some clients stay short, and an iid split leave a client empty.
Three rows in four slots make every doubling tree run past the rows, four
features make it fill all slots, and five test points need a second batch and a
rotation beyond the matrix; there are 441 pairs of samples, two labellings, both
packings, both signs. Three iterations for three unknowns are what a system with
distinct eigenvalues needs; the clients with fewer converge before the end and
meet a divisor of zero. The sizes of `levels` are the smallest possible, the
baseline's, and both sides of the slot limit. The counters `faults`, `kills`,
`solved`, `pool` and `started` are bounded by the constants `MaxFaults`,
`MaxRaces`, `MaxKills`, `MaxSolves`, `MaxPools` and `MaxCampaigns`; `generated`
and `runs` are bounded by the reachable states themselves. Deadlock is checked
where the system never stops (`SharedContext`, whose user reruns for ever) and
switched off where it does: a pool that has ended, a partition that is done, a
campaign that needs no restart, a program that has served its model, a solve
that has its scores (or a norm without a root), the bound on solves.

## 4. Fairness

Most safety properties need none. What the liveness properties assume:

- `custody` (`RerunGetsThrough`): weak fairness of `Step` and of `Start`: one
  process runs at a time and the machine runs it, and the user of
  run_parallel.sh reruns the command after it ended, as its comment asks. The
  property exempts one state of the tree: a context of class 0 begun and not
  complete (see 6).
- `pool` (`EndsComplete`): weak fairness of the parent (with the rerun) and of
  every child, since they are ordinary processes of an operating system.
- `campaign` (`EverythingDone`): of `Run \/ Driver`: the machine goes on with
  what runs, and the user starts the campaign again as long as its summary does
  not show every configuration as ok.

Faults are under no fairness and are bounded: what is promised is promised for
when they are over. `SharedContext.PoolFails` ends the pool as soon as nothing
is in flight and something failed; the healthy children would go on with their
shards, and `WorkerFails`/`Resume`/`SaveBias` allow them to before that.

## 5. Proofs

Proved by TLAPS for every value of the constants that satisfies the named
assumptions (`ContextAssumption`, `CheckpointAssumption`, `PoolAssumption`,
`PartitionAssumption`, `CampaignAssumption` with `ReportAssumption` and
`SettingsAssumption`: positive numbers of classes, clients, workers and
configurations, finite sets of samples; `FieldAssumption`, `SlotsAssumption`,
`JunkAssumption`: an odd prime, a power of two, some junk that is not zero;
`ShapeAssumption`, `DataAssumption`, `PackingAssumption`, `IterAssumption`: data
whose sizes fit the slots; `DepthAssumption`, `ProgramAssumption`: depths and
costs are natural numbers). No theorem has an assumption beyond these, except
where a hypothesis is named below.

`SharedContextProofs`. `OneKey` alone is not inductive: a process could hold one
key while the disk has another, or generate one although some file is there.
`KeyInv` adds that everything complete on disk is under the key the process
holds (`HoldsKey`), and that whatever is on disk, some `cryptocontext.bin` is
there too, whole or torn (`Anchored`, `Working`). `assert_safe_to_create_context`
looks at nothing but `cryptocontext.bin` and `weights.bin`, so `Anchored` is
exactly why these two globs are enough: it is true because every save writes
`cryptocontext.bin` first. `OneKeyForLife` and `AggregationIsSound` follow.
`TreeInv`, which the run checks, adds what the code relies on without saying so:
a process has really written what its position says (`Written`,
`Checkpointed`), train's loop leaves complete classes behind (`InLoop`), a
directory has no file without those saved before it (`Layered`), and the marker,
written last, is never opened again once it is complete (`FirstOpens`). Hence
`SuccessLeavesEverything`, and `InferReadsWholeModels`, a statement about every
later moment because `infer.py` takes no snapshot: it needs that no step takes a
file away. `CustodyIsKept` is the
refinement of `KeyCustody`: a step either gives an empty tree its owner, or
completes one checkpoint, or changes nothing the user has been promised. Its
hard case is a save that truncates the only complete file of the owner: the
lemma `Survivor` finds another one in the same tree.

`ClientCheckpointProofs`, for any number of processes and kills. That two calls
for one sub-problem do not overlap is built into the model's `Call`; `ForkPool`
shows it of a pool without orphans (`OneSolver`). `StorageInv` follows inodes:
four names are four inodes, whatever is under a final name is whole, there are
weights only beside a bias, and a process in the middle of a save has its own
solve in its temporary file. `KillsNeverTruncate` follows. That a call returns
the bias and the weights of *one* solve (`CallsReturnOneSolve`), and that the
two files implement the atomic `CheckpointCell` (`CheckpointIsACell`), needs a
hypothesis, `BiasHoldsOut`: a solve whose weights are finite has a finite bias.
Then a pair of two solves, which a kill between the renames leaves, has weights
that a call finds useless (`Consistent`). The code does not guarantee it, and
without it the theorem is false: that is the finding `checkpoint_mixed`. So the
theorem says that this is the *only* way to a mixed answer.

`ForkPoolProofs`. `SuccessMeansComplete`: the shards cover
every slot (`ShardsPartition`) and the task list names every task
(`TaskListIsComplete`); a child that ended well has come to the end of its
shard, a checkpoint once saved is never removed, and the parent returns 0 only
when every child it reaped ended well - orphans can only add checkpoints.
`BlameIsJust` adds `DeadInv`: of the children reaped so far, those that died are
those in `failed`. `NoTwoSolvers` and `NoOrphans` are
about behaviours in which neither `os.fork` raised nor a parent alone was killed
(`~orphaned`): then all live children belong to the current run (`AloneInv`),
shards are disjoint and the task list has no duplicates. Otherwise the orphans
of an earlier run may solve the same task.

`PartitionProofs`. `ClientsAreDisjoint`,
`NoSampleIsLost`, `NoClientIsEmpty`, `CapIsKept`, from one invariant `PartInv`.
The heart is two counting lemmas. `FullMeansNothingLeft`: if every client is at
the cap, choosing Cap samples of each gives an injection of `Client \X 1..Cap`
into the samples; as k * Cap >= Total nothing is left over, so the dealing
never gives up with overflow in hand. This needs `Stuck`: a round without
progress has only met full clients. `SomeoneHasTwo`: if one client is empty and
none has two samples, the map from samples to their owners is an injection into
k - 1 clients; so with enough samples the largest client can spare one.
`AdviceNearlyHolds` says how far the advice can be trusted (`WithinOneRow`). It
adds the invariant `Even`, that an iid client has at most
the ceiling of its share of each label. Two ceilings exceed the sum of the
shares by less than two samples, hence one row more than the slots at most; the
bound is reached (see 6).

`CampaignProofs`, for any list of configurations and any number of failures,
kills and restarts. What a finished directory holds is decided four phases
earlier, in a tree that the configurations share, so `CampaignInv` (module
`CampaignInvariant`, checked by the run) describes that tree in every phase: in
the pool (`InPool`), the finalize pass (`InFinalize`), the report and its
metrics exactly this run's checkpoints, log lines and models are there. In the
middle of the `mv`, the part that has arrived and the part that has not make one
finished result (`Together`), as long as no entry failed to move; since the
`report.md` that marks a configuration as done is the last entry of the glob, it
arrives when everything else has. From it `DoneIsOneCompleteRun`,
`OwnCheckpointsOnly` and `ReportTellsOfItsRun` for the environment the scripts
are written for (`Plain`, see 6) and moves without failure (`torn`), and
`DoneIsKept` for any environment and any move.

`SlotTheorems`. Neither `SumFunction` nor the doubling trees can be unfolded by
the library's induction theorems, which take an operator as a parameter. The
lemma `Induction` says the same of a *set* of numbers; with it come
`SumRecursion` and `PartInduction` for sums over finite sets, `TreeSteps` for the
trees, and, 2^n being the number of parts of a set of n, `PowerDouble`. What is
computed: `SumSlotsValue` (slot 0 of a doubling tree holds the sum of the n slots
although the tree runs to the next power of two, provided that the rest is
zero), `ReplicateValue`, `WeightsValue`, `BatchValue`, and the rules for sums
modulo the prime (`SumBilinear`, `SumCongruent`). For the reflections there is a
little linear algebra over the field: the product of two lines is bilinear
(`DotShift`), passes through a matrix from either side (`ThroughMatrix`), and is
kept by a reflection (`ReflectionKeepsProducts`); `Less` is what a reflection
makes of one entry. For CG there are quotients (`QuotientCancels`,
`FactorCancels`) and `FirstAndRest`, a sum whose first term is split off.

`SolverProofs`, for every prime, number of slots, size and data.
- `EveryRotationHasAKey` and `EveryCgRotationHasAKey`: the rotations of all
  circuits are among `_rotation_indices`. Training has a hypothesis that the
  code nowhere states: no more features than rows *or* than test points.
  `feature_dim` only adds positive powers of two, while replicating a
  multiplier over the features rotates by negative ones; these come from the
  negative shifts up to the larger of matrix and test set. All callers satisfy
  it: `train`, `worker` and `cipher.py` by their test sets, the smoke test by
  its matrix.
- `ReflectionsArePlain`, the refinement of `PlainQR`: `RowReflection` and
  `ColReflection` follow norm, pivot, tau, reflector and the two updates through
  both packings, slot by slot. A step of the encrypted code updates all columns,
  one of `PlainQR` only those from the pivot on. They agree because the
  reflector times a column that is zero from the pivot on is zero: hence
  `QrInv`, which adds to the clean slots that the columns done are zero below
  the diagonal (`Triangular`) and that their pivots are not zero (`Pivots`).
- `FactorsOfTheSystem`: a reflection is its own inverse, so reflecting the
  columns of R and the rows of Q leaves Q R alone. `DecompositionInv` says it
  with products of lines: rows of Q times columns of R are the entries of the
  client's matrix (`Factored`), and rows and columns of Q are orthonormal. That
  the columns stay so is seen from the rows: with orthonormal columns, Q carries
  the reflector of its rows over into one of its columns (`HouseholderKeeps`).
- Both speak of a row solver with pivots of either sign, and of a column solver
  as long as no pivot was negative: that is the exemption `SignHonoured` in the
  properties themselves. The column code adds the norm to x whatever the sign
  (see 6), and what it does after a negative pivot is neither.
- `RowSolverSolves`: `SolveInv` says how far the solve
  has come. After `MatmulTVec` slot i of c is column i of Q times the right-hand
  side (`Rotated`); before row i of the back-substitution the rows below i are
  solved and the slots up to i of x are zero (`RowsSolved`), so the packed
  product with row i of R meets the unknowns found so far and nothing else.
  At the end R x = Q^T rhs, and `SolvedRowsSolve` multiplies by Q.
- `UnusedSlotsStayZero`: `SlotInv` gives every ciphertext a length; each circuit
  keeps it, because every Chebyshev series is masked before it is used.
- `ScoresAreDecisionValues`, `CgScoresAreDecisionValues`: `ScoreInv` and
  `CgScoreInv` say that while scoring, the weights are those of the solution in
  `x` (in `u`, `v` and `alpha`), and that the scores so far are those of the
  first test points.
- `CgFollowsItsSimulation`, `CgResidualIsTrue`: that every intermediate
  ciphertext is the predicted one is only inductive together with facts about
  the *simulation* (`SimInv`): its residual is that of its iterate, r.p = r.r,
  and once r.r is 0, p is r.
- `CgRaisesOnlySolved`: the last two make the divisors vanish together
  (`DivisorsVanishTogether`). If p is the zero vector, r.p and with it r.r is 0,
  and if r.r is 0, r and p are the zero vector (`Definite`). So a solve that has
  no interval left to invert on has a residual of zero, which is that of its
  iterate. Without it, the last iteration, which does not ask for r.r, could
  divide by p.Ap alone.
- `CgSolvesTheSystem`: with exactly an iteration for every unknown, a client
  whose two solves get to their ends has the bias and multipliers that solve its
  whole, indefinite system. That nothing is left of the
  residual then is an argument about all iterations at once, so `HistoryInv`
  keeps their trace: either the solve has converged, or as many residuals as
  iterations lie behind it, each orthogonal to all others and to the present
  one, none of square zero; the direction is conjugate to them, and the matrix
  takes each of them into their span (`ConjugateTo`, kept by `ConjugateGrows`).
  As many residuals as unknowns leave nothing but zero orthogonal to them all:
  the map from a vector to its products with them is onto, and as there are
  finitely many vectors (`VectorsFinite`), a map onto them is one to one
  (`OrthogonalReaches`, `OrthogonalFamily`). What follows is the algebra of the
  Schur complement: the scaled solution scaled back solves the system itself
  (`RowRescaled`, `SolveEnds`); the sum of the solution for ones that the
  encrypted reduction divides by is the one computed in the clear
  (`SumsOfSolutions`, from uniqueness); `WholeSystemSolved` puts both solutions
  together. `SolvedInv` carries this from the end of a solve to the model. It
  uses that the kernel matrix is symmetric, in the field too
  (`SystemSymmetric`), and the guards `Definite` and `Determined`: over the reals
  they hold of every client, K being positive definite, while in the finite
  field the model stops at a client of which they are false.

`ProgramsProofs`. `BootstrappedLevelsSuffice`: with bootstrapping, clients'
systems may have any size. The invariant `BootInv` says that what enters a
Householder step is no deeper than a refreshed ciphertext (`Enters`), and that
all that follows the decomposition adds three levels at most (`Shallow`). A step
of either solver then costs two Chebyshev series and ten levels
(`RowStepBound`, `ColStepBound`); the hypothesis `StepFits` asks that this fits
the usable depth. With the code's 25 that holds up to a cost of 7 per series.
`PlannedLevelsSuffice` adds the programs without bootstrapping and so states
`LevelsSuffice` for all. `PlanInv`, checked on the run before it was proved,
says how deep the ciphertexts are in every phase: a Householder step adds 26
levels at most (`QRLevels`), a row of the back-substitution three, an iteration
of CG an inverse and eleven (`CgLevels`, the last iteration four less, because it
leaves the direction alone), and enough is left for the average and the score
(`ModelLevels`). The planned depth grows by 31 per row (`TrainDepth`), so the QR
solvers have room for every size. CG has no plan of its own; it runs in the
contexts of the others, the shallowest of which is the demo's, of depth 113
(`DemoDepth`). Two hypotheses more are needed, besides `StepFits`: `Planned`, that
a series costs no more than `_cheby_depth` expects, and `CgFits`, that the
iterations and what follows them fit the demo's context. The code checks
neither; `CgFits` holds with equality for six iterations, its default, and a cost
of 6 (102 - 4 + 15 = 113), and is false for a cost of 7 (see 6). `ProgramsMC`
asserts the two about the costs for the run.
`ModelsServedAsTrained`: what is served is what was saved, and only after the
save (`ServeInv`); so infer.py serves the models of `train` and `baseline_run` on
the frame they were trained in. Of the demo it says threshold and ciphertexts.

Only model-checked is liveness, and all that rests on fairness or ENABLED, which
the prover does not reach: `RerunGetsThrough`, `EndsComplete`, `EverythingDone`.

## 6. Findings

Each with a run that shows it:

- `lost_key`: the finalize pass rewrites `class_0/secret_key.bin` in place; an
  interruption there loses the only copy of the key of all finished
  checkpoints, although `run_parallel.sh:13` calls rerunning interruption-safe.
- `checkpoint_mixed`: a checkpoint of which only the bias was not finite is
  solved again; killed between the two renames, the next call accepts the new
  bias with the old weights.
- `qr_col`: the column solver passes its column ciphertexts to
  `he_back_substitute`, which takes them for rows (`utils.py:393`); what it
  finds to the right of the diagonal is what is below it, zero, so each unknown
  comes out as c[i] / R[i][i].
- `advice`: `assert_fits_bootstrap_slots` divides the samples of both labels
  together and says `Increase clients to k>={min_k}` (train.py:589), while iid
  partitioning rounds the labels up one by one: 31 positive and 31 negative
  samples and 32 slots advise two clients, which then hold 32 samples each, 33
  rows, and are refused again. What is true, and proved, is that one row more
  than the slots is the worst (`AdviceNearlyHolds`).

Observations without a run of their own.

*Keys and checkpoints.* Interrupted while class 0's context is first written, a
rerun is refused for ever and the user has to delete the directory; this is the
exemption in `RerunGetsThrough`. Beside a run that is still writing, `infer.py`
takes 0.0 for a threshold that is not there yet, which `InferReadsItsModel`
leaves open for the class that was saved last when it was read; and it reads a
`security.txt` that was cut as an empty level and takes the slots of `notset`.
It does not read `mode.txt` but goes by `--dataset`. Two processes that save the
same sub-problem at once share the names of the temporary files (train.py:199):
one finds its file gone and dies, which `ForkPool` has as `SaveRaises`, and the
four renames can interleave so that a finite pair of two solves stays, which no
module models: `ClientCheckpoint` has its calls one after the other.

*Campaign and report.* `run_one` cleans and moves `models/k=N`, but the programs
go where `LSSVM_MODELS_ROOT` says: with it set, the second configuration of one
k resumes the first one's checkpoints, and `LSSVM_PARTITION` turns
configurations named iid into others. The properties are stated for the
environment the scripts are written for (`Plain`), where they hold. A smoke
campaign with `SECURITY=notset` and then a real one into the same directory
skips everything and its summary says `security=128`. `report.py:174` says that
worker solves take precedence and finalize fills the serial ones; the code below
it lets a finalize solve replace the worker's time and keep the worker's name
beside it. The time is then that of the ciphertexts which are kept, the name is
not; `ReportIsTrue` is about the tasks whose kept ciphertexts are a worker's,
and leaves these out by name. When `mv` fails on an entry
(`run_campaign.sh:99`), it goes on with the others, the campaign logs OK, and
the next one skips the configuration, since `report.md` has arrived without the
entry: `DoneIsOneRun` excepts these configurations (`torn`), and
`EverythingDone` counts them as done, as the code does. A worker that solves a
checkpoint that was not finite once more reports it as resumed. `_RE_MULTICLASS`
of the report never matches the line that `train` prints. `config/parallel.py`
documents a default of `os.cpu_count()` and uses `DEFAULT_THREADS`.

*Sizes and depth.* The margins of
`LevelsSuffice` are thin in places: the demo with CG has a depth of 113 and uses
exactly that if a series of degree 8 costs 6 levels (7 would exceed it, and so
would `CG_N_ITER=7`); at security 128 a step needs 26 of 25 usable levels if it
costs 8.

*Solvers and inference.* The column reflection adds the norm to x whatever the
sign (`qr_householder_cipher_col.py:230`), while v0 and v.v honour it: with a
negative pivot it makes the product of its factors another matrix and its steps
no reflections, which is why `Decomposes` and `ImplementsPlain` leave it out by
name (`SignHonoured`). CG's number of iterations is fixed before the run (6 by
default): a client that needs fewer raises a ZeroDivisionError in exact
arithmetic and loses its solution (`InverseRaises`); in doubles a rounding
residue is left to divide by, and below 1e-18 the simulation repeats its last
values. The demo is served on other features than it is trained on:
`lssvm/inference.py` never applies the StandardScaler that its training data
come through (`preprocessors/base.py:32`), whatever the kernel, and serves
linear models, which are all that the demo configures, without the mean and the
norm that `cipher.py` trains them with, although `preprocessing.py:138` calls
itself the single source of truth for inference, too. `ServedAsTrained` is about
the features of `train` and `baseline_run`, which infer.py serves on a split
scaled as in training.

## 7. Not modelled

- CKKS numerics: noise, Chebyshev approximation, precision, the bounds of the
  series' domains. In `ClientCheckpoint` a solve is finite or not, and that is a
  choice of the environment; in the packed solvers arithmetic is exact; in
  `Programs` only levels are counted. Levels within a circuit are those of its
  results, which nothing in it exceeds.
- Feature maps, kernels other than the linear one, GCV, metrics, the other
  plaintext references: sequential floating-point code without state. Dataset
  loaders read scikit-learn's and split; thread set-up passes one number on.
- The serialization of context and parameters beyond which files there are and
  in which order; what a level of the stored ciphertext is.
- `train --no-serialize` (nothing is persisted).
- A shard started by hand beside a pool of another number of workers. Alone, it
  is a child without a parent; beside another, it is a second caller of one
  task, like an orphan.
- Two commands that prepare one directory at once: both would find it empty.
  There is no lock, and the code makes no promise about it.
- Command lines that differ between runs of one `models/k=N/`, outside the
  campaign, which is what keeps them apart.
- In the campaign: the gate of tests before it, `all_metrics.csv`, the tarball,
  and `paper_run.sh`, which rents the machine.
- `plain_run`, `omp_smoke`, `baseline_security_params`: scripts and tables
  without shared state. Logging, core pinning, progress output.

## 8. Plan

What the modules of section 2 state is checked, and of the 39 properties of the
runs all safety properties are proved, under the hypotheses of section 5; the
three about liveness are left to TLC.

The models would be extended next by shards of different counts side by side,
and by the commands whose flags change between runs of one directory.
