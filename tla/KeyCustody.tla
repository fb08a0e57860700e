----------------------------- MODULE KeyCustody -----------------------------
(***************************************************************************)
(* What the artifacts under models/k=N/ promise to the user, whatever      *)
(* processes run and wherever they are interrupted: the directory belongs  *)
(* to at most one secret key, for ever, and a sub-problem that has a       *)
(* checkpoint never loses it.  SharedContext implements this.              *)
(***************************************************************************)
CONSTANTS Key,      \* identities of generated secret keys
          Task      \* the client and baseline sub-problems

VARIABLES owners,   \* the keys that artifacts on disk belong to
          saved     \* the sub-problems with a complete checkpoint

custodyVars == <<owners, saved>>

CustodyInit == owners = {} /\ saved = {}

(* The directory gets its owner with the first complete artifact. *)
Adopt == /\ owners = {}
         /\ owners' \subseteq Key /\ \E k \in owners' : owners' = {k}
         /\ UNCHANGED saved

(* A sub-problem gets its checkpoint, only once the directory has an owner. *)
Checkpoint(t) == /\ owners # {} /\ t \notin saved
                 /\ saved' = saved \cup {t} /\ UNCHANGED owners

CustodyNext == Adopt \/ (\E t \in Task : Checkpoint(t))

CustodySpec == CustodyInit /\ [][CustodyNext]_custodyVars
=============================================================================
