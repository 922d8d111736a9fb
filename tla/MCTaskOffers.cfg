SPECIFICATION Spec
CONSTANTS
  Jobs = 3
  Repeat = 3
  Runtime = {"node", "worker"}
PROPERTY OffersReachEveryJob
