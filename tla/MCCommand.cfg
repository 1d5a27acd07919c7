SPECIFICATION FairSpec
CONSTANTS
  Crowd <- MCCrowd
  CrowdKinds <- MCKinds
  CrowdSteps <- MCSteps
  CrowdWidth = 2
  CrowdBudget = 2
  CrowdWants = {1, 2}
  CrowdLimits = {a, b}
  Calls <- MCCalls
  Asked <- MCAsked
  Bodies <- MCBodies
  ClientSettings <- MCSettings
  RequestBudget = 2
  Places = 1
  TestRuns <- MCTestRuns
  Discoveries = {d1}
  ProcessCrashes = 2
  PluginProjects <- MCProjects
  BuildTargets <- MCTargets
  CommandLines <- MCLines
  MaxCleanups = 2
  a = a
  b = b
  e = e
  n = n
  a1 = a1
  a2 = a2
  b1 = b1
  e1 = e1
  n1 = n1
  c1 = c1
  c2 = c2
  c3 = c3
  bad = bad
  r1 = r1
  r2 = r2
  r3 = r3
  d1 = d1
  p1 = p1
  p2 = p2
INVARIANTS CommandsStayInBudget AnswersAreBounded OneRunAtATime HooksRunInOrder
PROPERTIES LateNewsIsIgnored EverythingEnds
CHECK_DEADLOCK FALSE
