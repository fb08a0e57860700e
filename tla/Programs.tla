------------------------------ MODULE Programs ------------------------------
(***************************************************************************)
(* The programs that make encrypted models, and the ones that serve them:  *)
(* federated_lssvm/train.py, its smoke test, federated_lssvm/              *)
(* baseline_run.py (solves in the clear, averages under encryption) and    *)
(* the demo lssvm/cipher.py; federated_lssvm/infer.py and                  *)
(* lssvm/inference.py.  Each creates a context of a depth computed before  *)
(* the run and sends its ciphertexts through the circuits of Circuits.     *)
(***************************************************************************)
EXTENDS Circuits

CONSTANTS
  Sizes,   \* sizes of the clients' systems, samples plus one
  Costs,   \* what a Chebyshev series may cost, by its degree (OpenFHE)
  NIter,   \* N_ITER_DEFAULT of cg_cipher
  None     \* no model saved, nothing served yet

BaselineSize == 5           \* N_PER_CLASS_BASELINE * 2 + 1, also the demo's
SmokeSize == 7
BootstrapSlots == 32        \* SPARSE_BOOTSTRAP_SLOTS
Solvers == {"row", "col", "cg"}
Kernels == {"linear", "poly"}

ASSUME ProgramAssumption ==
  /\ Sizes \subseteq Nat \ {0, 1} /\ NIter \in Nat \ {0}
  /\ Costs \subseteq [{2, 8} -> Nat]

VARIABLES
  job,    \* the program and what it was called with
  pc,
  k,      \* step, row or iteration of the running loop
  R, Q,   \* levels of R_cts and Q_cols
  ct,     \* levels of c_ct, x_ct and of the model b_ct, w_ct
  cg,     \* levels of the vectors of the CG loop
  peak,   \* the highest level reached so far
  files,  \* the model saved: mode.txt, phi_mean, threshold, ciphertexts
  served  \* what the inference program computed with it

circuitVars == <<k, R, Q, ct, cg>>
vars == <<job, pc, circuitVars, peak, files, served>>

-----------------------------------------------------------------------------
(* The calls. *)

\* dim is max_client_n: the largest client's size or the baseline client's.
Calls(programs, sizes, dims) ==
  [program : programs, solver : Solvers, security : {"128", "notset"},
   kernel : Kernels, n : sizes, dim : dims, cost : Costs]
Jobs ==
  {j \in Calls({"train"}, Sizes, {d \in Sizes : d >= BaselineSize}) : j.n <= j.dim}
    \cup Calls({"smoke"}, {SmokeSize}, {SmokeSize})
    \cup Calls({"baseline"}, {1}, {1})
    \cup {j \in Calls({"demo"}, {BaselineSize}, {BaselineSize}) :
            (j.security = "128") = (j.solver # "cg")}

\* D_SQRT, D_INV and D_INV_BACKSUB.
Degrees(j) == IF j.program = "demo" THEN [sqrt |-> 2, inv |-> 2, back |-> 8]
              ELSE [sqrt |-> 8, inv |-> 8, back |-> 8]

\* context_depth and its like in the other programs; at "128" every solver's
\* setup_crypto_context takes the bootstrapping budget instead.
Depth(j) ==
  IF j.security = "128" THEN UsableDepth + BootDepth
  ELSE CASE j.program = "train" -> DepthForSize(j.dim, Degrees(j), 120) + 6
         [] j.program = "smoke" -> DepthForSize(j.dim, Degrees(j), 120)
         [] j.program = "demo" -> DepthForSize(j.dim, Degrees(j), 115)
         [] j.program = "baseline" -> 6

\* assert_fits_bootstrap_slots, of features that are no wider than the slots,
\* and _reject_bootstrap_security.
Rejected(j) ==
  /\ j.security = "128"
  /\ j.solver = "cg" \/ (j.program = "train" /\ j.dim > BootstrapSlots)

-----------------------------------------------------------------------------
(* The features a model is trained on and served with. *)

\* What prepare_binary returns has been through split_scale's StandardScaler; a
\* sample from the command line of lssvm/inference.py has not.
Standardised == [scaled |-> TRUE, mapped |-> FALSE, mean |-> "zero", unit |-> FALSE]
RawSample == [Standardised EXCEPT !.scaled = FALSE]
\* preprocess_features, and what lssvm/inference.py does by mode.txt.
Preprocessed(X, kernel, mean) ==
  IF kernel = "linear" THEN X
  ELSE [X EXCEPT !.mapped = TRUE, !.mean = mean, !.unit = TRUE]
\* lssvm/cipher.py centres and normalises, whatever the kernel, by the mean of
\* its subsample.
TrainedOn(j) ==
  IF j.program = "demo"
  THEN [Standardised EXCEPT !.mapped = j.kernel # "linear", !.mean = "subsample",
                            !.unit = TRUE]
  ELSE Preprocessed(Standardised, j.kernel, "training")
DefectSavedMean(j) == "subsample"
SavedMean(j) ==
  CASE j.program = "demo" -> "subsample"
    [] j.program # "demo" /\ j.kernel = "linear" -> "zero"
    [] j.program # "demo" /\ j.kernel # "linear" -> "training"
\* The demo decides by the sign of the raw score, and so does its inference.
Threshold(j) == IF j.program = "demo" THEN "zero" ELSE "midpoint"

-----------------------------------------------------------------------------
Fresh(n) == [j \in Rows(n) |-> 0]
Init ==
  /\ job \in Jobs /\ pc = "setup" /\ k = 0 /\ peak = 0
  /\ R = Fresh(job.n) /\ Q = Fresh(job.n)
  /\ ct = [c |-> 0, x |-> 0, b |-> 0, w |-> 0] /\ cg = CgStart
  /\ files = None /\ served = None

Rise(levels) == peak' = Deepest({peak} \cup levels)
Cost(series) == job.cost[Degrees(job)[series]]
Levels(cts) == {cts[j] : j \in DOMAIN cts}

Refuse ==
  /\ pc = "setup" /\ Rejected(job) /\ pc' = "refused"
  /\ UNCHANGED <<job, circuitVars, peak, files, served>>

Setup ==
  /\ pc = "setup" /\ ~Rejected(job)
  /\ pc' = CASE job.program = "baseline" -> "average"
             [] job.program # "baseline" /\ job.solver = "cg" -> "cg"
             [] job.program # "baseline" /\ job.solver # "cg" -> "qr"
  /\ UNCHANGED <<job, circuitVars, peak, files, served>>

\* householder_step_fhe(_col) in _qr: with bootstrapping, every ciphertext of R
\* and Q is refreshed after the step.
QRStep ==
  /\ pc = "qr" /\ k < job.n
  /\ LET step == IF job.solver = "row" THEN RowStep(R, Q, k, Cost("sqrt"), Cost("inv"))
                 ELSE ColStep(R, Q, k, Cost("sqrt"), Cost("inv"))
     IN  /\ Rise(Levels(step.R) \cup Levels(step.Q))
         /\ R' = IF job.security = "128" THEN RefreshedAll(step.R) ELSE step.R
         /\ Q' = IF job.security = "128" THEN RefreshedAll(step.Q) ELSE step.Q
  /\ k' = k + 1
  /\ UNCHANGED <<job, pc, ct, cg, files, served>>

RhsProduct ==
  /\ pc = "qr" /\ k = job.n
  /\ ct' = [ct EXCEPT !.c = MatmulT(Q)]
  /\ Rise({ct'.c})
  /\ k' = job.n - 1 /\ pc' = "backsub"
  /\ UNCHANGED <<job, R, Q, cg, files, served>>

BackSubRow ==
  /\ pc = "backsub" /\ k >= 0
  /\ R' = IF job.security = "128" THEN [R EXCEPT ![k] = Refreshed(@)] ELSE R
  /\ LET x == BackSubstituted(R'[k], ct.c, ct.x, k = job.n - 1, Cost("back"))
     IN  /\ Rise({x})
         /\ ct' = [ct EXCEPT !.x = IF job.security = "128" THEN Refreshed(x) ELSE x]
  /\ k' = k - 1
  /\ UNCHANGED <<job, pc, Q, cg, files, served>>

\* fhe_aggregate comes next where there are clients.
AfterSolve == IF job.program = "demo" THEN "score" ELSE "average"

QrModel ==
  /\ pc = "backsub" /\ k < 0
  /\ ct' = [ct EXCEPT !.b = ct.x + 1, !.w = PrimalWeights(ct.x)]
  /\ Rise({ct'.b, ct'.w})
  /\ pc' = AfterSolve
  /\ UNCHANGED <<job, k, R, Q, cg, files, served>>

CgIterate ==
  /\ pc = "cg" /\ k < NIter
  /\ cg' = CgStep(cg, k = NIter - 1, job.cost[8])
  /\ Rise({cg'.x, cg'.r, cg'.p, cg'.rr})
  /\ k' = k + 1
  /\ UNCHANGED <<job, pc, R, Q, ct, files, served>>

CgModel ==
  /\ pc = "cg" /\ k = NIter
  /\ ct' = [ct EXCEPT !.b = SchurBias(cg.x, job.cost[8]),
                      !.w = PrimalWeights(SchurAlpha(cg.x, job.cost[8]))]
  /\ Rise({ct'.b, ct'.w})
  /\ pc' = AfterSolve
  /\ UNCHANGED <<job, k, R, Q, cg, files, served>>

\* fhe_aggregate; the smoke test decrypts the average and ends.
Average ==
  /\ pc = "average"
  /\ ct' = [ct EXCEPT !.b = Averaged(@), !.w = Averaged(@)]
  /\ Rise({ct'.b, ct'.w})
  /\ pc' = IF job.program = "smoke" THEN "done" ELSE "score"
  /\ UNCHANGED <<job, k, R, Q, cg, files, served>>

\* The program's own evaluation with predict_cipher.
Score ==
  /\ pc = "score"
  /\ Rise({ScoreLevel(ct.b, ct.w)})
  /\ pc' = "save"
  /\ UNCHANGED <<job, circuitVars, files, served>>

Save ==
  /\ pc = "save"
  /\ files' = [mode |-> job.kernel, mean |-> SavedMean(job), threshold |-> Threshold(job),
               b |-> ct.b, w |-> ct.w]
  /\ pc' = "serve"
  /\ UNCHANGED <<job, circuitVars, peak, served>>

\* infer.py serves the test split and goes by the dataset's kernels, inference.py
\* serves the sample it is called with and goes by mode.txt.
ServedFeatures(j, model) ==
  IF j.program = "demo" THEN Preprocessed(RawSample, model.mode, model.mean)
  ELSE Preprocessed(Standardised, j.kernel, model.mean)
Serve ==
  /\ pc = "serve"
  /\ served' = [features |-> ServedFeatures(job, files), threshold |-> files.threshold]
  /\ Rise({ScoreLevel(files.b, files.w)})
  /\ pc' = "done"
  /\ UNCHANGED <<job, circuitVars, files>>

Next ==
  \/ Refuse \/ Setup \/ QRStep \/ RhsProduct \/ BackSubRow \/ QrModel
  \/ CgIterate \/ CgModel \/ Average \/ Score \/ Save \/ Serve
Spec == Init /\ [][Next]_vars

-----------------------------------------------------------------------------
(* What the depths are planned by. *)

\* What a Householder step uses up besides its two series fits between two
\* bootstraps.
StepFits ==
  \A c \in Costs : c[2] + c[2] + 10 <= UsableDepth /\ c[8] + c[8] + 10 <= UsableDepth

\* A series costs no more than the plan counts on for its degree.
Planned == \A c \in Costs : c[2] <= ChebyDepth(2) /\ c[8] <= ChebyDepth(8)

\* An iteration of CG takes an inverse and eleven more levels, the last one four
\* less, and the bias, the weights and the score take an inverse and nine: all of
\* it fits the depth the demo plans for a QR decomposition of five rows, the
\* shallowest context that CG runs in.
CgFits ==
  \A c \in Costs :
    NIter * (c[8] + 11) - 4 + c[8] + 9
      <= DepthForSize(BaselineSize, [sqrt |-> 2, inv |-> 2, back |-> 8], 115)

-----------------------------------------------------------------------------
(* Properties *)

(* No ciphertext of any program is ever deeper than the context it lives in *)
(* was created for: the depth is a formula of the sizes, evaluated before   *)
(* the run, and a solve that uses up more fails after hours.                *)
LevelsSuffice == peak <= Depth(job)

(* A model of train or of baseline_run is served on the frame of features   *)
(* that its encrypted system was built in, and every model with the         *)
(* threshold and the ciphertexts that its training evaluated.  The features *)
(* of the demo are left out: lssvm/inference.py serves a sample without the *)
(* scaler of the training, and to linear models without mean and norm too.  *)
ServedAsTrained ==
  served # None =>
    /\ job.program # "demo" => served.features = TrainedOn(job)
    /\ served.threshold = Threshold(job)
    /\ files.b = ct.b /\ files.w = ct.w
=============================================================================
