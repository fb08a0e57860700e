SPECIFICATION FairSpec
CONSTANTS
  NClasses = 2
  NClients = 1
  NWorkers = 2
  Unset = Unset
  Datasets = {"iris", "breast_cancer"}
  DefaultDataset = "iris"
  Roots = {"models", "elsewhere"}
  Configs <- MCConfigs
  Envs <- MCEnvs
  MaxFaults = 2
  MaxCampaigns = 3
INVARIANTS
  CampaignInv
  DoneIsOneRun
  PlainOwnProblem
  ReportIsTrue
PROPERTIES
  FinishedIsKept
  EverythingDone
CHECK_DEADLOCK FALSE
