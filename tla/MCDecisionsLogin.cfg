SPECIFICATION AllSpec
CONSTANTS
  dispatch = dispatch
  dual = dual
  alice = alice
  bob = bob
  Users <- MCUsers
  NoUser = NoUser
  Subjects <- MCSubjects
  Tier <- MCTier
  Resolvers = {r1, r2}
  Gates = {g1, g2}
  TTL = 0
  MaxId = 2
  MaxNow = 1
  founders = founders
  launch = launch
  Codes <- MCCodes
  MaxRedemptions <- MCMaxRedemptions
  Intakes = {i1, i2}
  Calls = {c1, c2}
  Requests = {r1, r2}
  Servers = {g1, g2}
  u1 = u1
  u2 = u2
  Addresses = {u1, u2}
  Seeds <- MCSeeds
  SeedPassword = k1
  Passwords = {k1, k2}
  AdminEmails = {u1}
  Stamps = {t1}
  Guests <- MCUsers
  Past = {f1}
  Devices = {d1}
  Nothing = Nothing
SYMMETRY Symmetry
CHECK_DEADLOCK FALSE
INVARIANTS
  LoginProvidesJob
