SPECIFICATION Spec
CONSTANTS
  Procs = {ci, dev}
  Settings <- MCSettings
  Lives <- MCLives
  StepFiles <- MCFiles
  Ignored = {gen}
  Targets = {api, lib}
  Roots <- MCRoots
  Deps <- MCDeps
  Workspaces <- MCWorkspaces
  RootFiles = {cfgFile}
  Inputs <- MCInputs
  Slices <- MCSlices
  FailsOn <- MCFailing
  NodeCount = 3
  Plans <- MCPlans
  Modes = {"fail-fast", "keep-going"}
  Batches <- MCBatches
  LookupMayFail = FALSE
  NetworkStore = FALSE
  Keys = {"k1", "k2"}
  BucketKeys = {"k1"}
  DiskFails = TRUE
  Cleaning = {dev}
  EnvProcs = {p1, p2}
  EnvServices = {"api"}
  EnvSettings <- MCEnvSettings
  RacingSettings <- MCRacingSettings
  EnvFiles <- MCEnvFiles
  Hosts = {"ghcr.io"}
  MaxVersion = 1
  MaxEdits = 2
  MaxRuns = 2
  MaxTime = 1
  MaxOps = 2
  MaxStarts = 3
  ci = ci
  dev = dev
  api = api
  lib = lib
  apiSrc = apiSrc
  libSrc = libSrc
  cfgFile = cfgFile
  gen = gen
INVARIANTS EntriesAreHonest CachingKeepsThePlan EnvIsKept
PROPERTIES HitsAreEarned ImplementsResultStore StoresKeepTheirWord
CHECK_DEADLOCK FALSE
