SPECIFICATION BoundedSpec
CONSTANTS
  Address = {a1, a2, a3}
  SpendingLimit = 3
  Window = 2
  MaxGuardians = 3
  MaxAmount = 3
  MaxTime = 8
  MaxProposals = 3
SYMMETRY Sym
INVARIANTS TypeOK RateLimited BurstBound  TakeoverIsBacked NoReplay
