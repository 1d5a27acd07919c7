SPECIFICATION SuiteSpec
CONSTANTS
  Name = {"a", "b", "c", "gone"}
  AllServices = {"a", "b", "c"}
  Graphs <- MCGraphs
  Starts <- MCStarts
  LastId = 3
  RootName = 3
  DefaultDir = 1
  LoadedProjects <- MCLoadedProjects
  PluginProjects <- MCPluginProjects
  Repositories <- MCRepositories
  COMMON_ROOT_FILES = {"package.json", "bun.lock"}
  BlockProjects <- MCBlockProjects
  RuntimeName = "prod"
  TimeoutValues <- MCTimeoutValues
  ScriptDefaults <- MCScriptDefaults
  Hosts <- MCHosts
  CpuFiles <- MCCpuFiles
  MemFiles <- MCMemFiles
  LimitVariables <- MCLimitVariables
INVARIANTS LeastClosedSet ProjectIsSound ContextsAreWhole LayersResolve
CHECK_DEADLOCK FALSE
