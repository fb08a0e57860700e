---------------------------- MODULE EncryptedModel ----------------------------
(***************************************************************************)
(* What the encrypted solvers end with: the model of a client, encrypted,  *)
(* and its scores, which predict_cipher decrypts batch by batch.  A solver *)
(* adds the variables and the steps that lead to the model.                *)
(***************************************************************************)
EXTENDS LssvmSystem

VARIABLES
  train,      \* the client's samples and labels
  pc,         \* which circuit runs next
  b, w,       \* bias and primal weights
  scores,     \* decrypted scores of the test points done so far
  used        \* rotation indices asked for so far

modelVars == <<b, w>>

EmptyModel ==
  /\ train \in Clients
  /\ b = ZeroCt /\ w = ZeroCt
  /\ scores = NoScores

\* predict_cipher, one batch at a time.
ScoreBatch ==
  /\ pc = "score"
  /\ scores' = WithNextBatch(scores, b, w)
  /\ used' = used \cup BatchKeys(scores)
  /\ pc' = IF DOMAIN scores' = DOMAIN Tests THEN "done" ELSE "score"
  /\ UNCHANGED <<train, modelVars>>
=============================================================================
