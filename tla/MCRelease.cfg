SPECIFICATION FairSpec
CONSTANTS
  HostServices = {"lib", "types", "web"}
  HostNames = {"a", "b", "c", "d"}
  HostProjects <- MCHostProjects
  BakeServices = {"a", "b"}
  BakeKinds <- MCBakeKinds
  BakeFlags <- MCBakeFlags
  SecretFiles = {"x", "y"}
  Documents <- MCDocuments
  SecretCommands <- MCSecretCommands
  MaxIdentity = 3
  DeployOrder <- MCDeployOrder
  Claimed = {"db"}
  WithSecrets = {"api"}
  MaxUps = 2
  MaxEvictions = 1
  DownOrder <- MCDownOrder
  MaxDowns = 2
  RunIds = {"a", "b"}
  RunNames <- MCRunNames
  RunDeps <- MCRunDeps
  KilledDeps <- MCKilledDeps
  PostgresDeps = {"db"}
  Fleet = {"api", "db", "root"}
  FleetKinds <- MCFleetKinds
  FleetIncludes <- MCFleetIncludes
  FleetFaults = {"partial", "overlap", "lost", "convert"}
  Pair = {"api", "web", "db"}
  PairKinds <- MCPairKinds
  PairIncludes <- MCPairIncludes
  Pins = {1, 2}
  MaxCommit = 3
  p = p
INVARIANTS BuildsAreOrdered ImagesAreWhole SecretsAreKept ManifestsFit ClusterIsAsReported NothingOutdatedIsMissed
PROPERTIES ClusterSettles
CHECK_DEADLOCK FALSE
