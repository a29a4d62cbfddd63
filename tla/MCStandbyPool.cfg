SPECIFICATION FairSpec
CONSTANTS
  v1 = v1
  v2 = v2
  Vnode <- MCVnode
  Contract <- MCContract
  Interval <- MCInterval
  StandAlone = {"archive"}
  StandAloneInterval = 1
  Patience <- MCPatience
  TableNum = 2
  ScheduleIntervals = {1, 2}
  ScheduleRange = 4
  Deployments <- MCDeployments
  Cycle = 4
  RotationRatio = 50
  MinimumRotation = 50
  Candidate = {1, 2}
  Seed = {1}
  SeedKind <- Able
  Kinds <- MCKinds
  Groups <- MCGroups
  Committee = {"rec"}
  Sizes <- MCSizes
INVARIANTS PoolTypeOK SeedsUntilActive
PROPERTIES TurnsInOrder TablesTakeTurns LeaversLeave ActivationArrives
