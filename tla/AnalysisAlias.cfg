\* The same repositories: an alias that only another workflow uses.
CONSTANTS
  Absent = Absent
  Malformed = Malformed
  Inherit = Inherit
  Key <- MCKey
  Name <- MCName
  Identifier <- MCIdentifier
  Redacted = "[REDACTED]"
  FixturePath = {"tests/run.yml"}
  Upper <- MCUpper
  FileMarker <- MCMarker
  ProductionLike = {"web-prod"}
  ProductionEnvironment = {"web-prod"}
  PublicName = {"VITE_URL"}
  IdentifierName = {"AWS_KEY"}
  OperationalName = {"LOG_LEVEL"}
  SecretName = {"DB_PASSWORD", "TOKEN"}
  SensitiveName = {"DATA"}
  AwsName = {"AWS_KEY"}
  Loopback = {"127.0.0.1"}
  MaxNodes = 45
  MaxEdges = 66
  Inputs <- MCInputs
  DefaultMaxDepth = 8
  DefaultMaxEvidencePaths = 1000
  DefaultMaxTotalEvidencePaths = 5000
  MaxReusableWorkflowHops = 1
  MaxCompositeActionForwardingHops = 2
  MaxCompositeActionNestingDepth = 3
SPECIFICATION Spec
INVARIANT ForwardsReachUsedAliases
CHECK_DEADLOCK FALSE
