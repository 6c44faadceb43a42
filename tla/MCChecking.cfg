\* One monitor of each type, one fault.
SPECIFICATION FairSpec
CONSTANTS
  Configs <- MCConfigs
  Answers <- MCAnswers
  Timeout = 3
  Threshold = 2
  ResultLimit = 2
  MaxFaults = 1
INVARIANTS
  TypeOK
  VerdictIsDeserved
  ChecksEndInTime
  CountsAgree
PROPERTIES
  OutageIsSeen
  RecoveryIsSeen
