----------------------------- MODULE CampaignMC -----------------------------
(* Three configurations in one tree, the third with a context of its own.  *)
EXTENDS CampaignInvariant

MCConfigs ==
  <<[k |-> 5, dataset |-> "iris", partition |-> Unset, depth |-> 1],
    [k |-> 5, dataset |-> "iris", partition |-> "dirichlet", depth |-> 1],
    [k |-> 5, dataset |-> "breast_cancer", partition |-> Unset, depth |-> 2]>>
MCEnvs ==
  {[dataset |-> "breast_cancer", partition |-> Unset, root |-> Unset],
   [dataset |-> Unset, partition |-> Unset, root |-> "elsewhere"]}
=============================================================================
