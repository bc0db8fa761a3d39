SPECIFICATION Spec
CONSTANTS
  Configs <- MCConfigs
  None = None
  NilEnv = NilEnv
  BaseEnv = BaseEnv
INVARIANTS
  NeverUnprotected
  ReportTruthful
  EnvironmentAsConfigured
  OnePosture
  CancelAsAdvertised
