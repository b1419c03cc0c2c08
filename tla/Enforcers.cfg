SPECIFICATION MCSpec
CONSTANTS
  web = web
  db = db
  cron = cron
  p1 = p1
  p2 = p2
  q1 = q1
  q2 = q2
  Pods <- MCPods
  Profiles = {p1, p2}
  ProfileOf <- MCProfileOf
  Privileged = {p1}
  Foreign = {p2}
  PolicySets <- MCPolicySets
  ProfileBody <- MCProfileBody
  Updaters = {q1, q2}
  Envs <- MCEnvs
  Machines <- MCMachines
  Hooks <- MCHooks
  PathHooks = {"path_unlink"}
SYMMETRY Symmetric
CHECK_DEADLOCK FALSE
INVARIANTS PoliciesEnforced RegisteredIsLoaded TakenBack EnforcerChosen
PROPERTY InUseKept
