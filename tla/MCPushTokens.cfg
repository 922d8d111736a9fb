SPECIFICATION TokenSpec
CONSTANTS
  t1 = t1  t2 = t2  t3 = t3  t4 = t4
  Token <- MCToken
  Limit = 2
  Runtime = {"node", "worker"}
SYMMETRY TokenSymmetry
INVARIANTS RegistrationsHold UnregistrationsHold
