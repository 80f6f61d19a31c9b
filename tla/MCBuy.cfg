SPECIFICATION Spec
CONSTANTS
  MinBuy = 2
  MaxPerTx = 6
  DailyCap = 8
  VenueMin <- MCVenueMin
  MaxRequotes = 2
  Plans <- MCPlans
  Markets <- MCMarkets
  Scripts = {"worker", "once"}
  Tokens = {5}
  MaxRate = 3
  MaxRounds = 6
  MaxEvents = 2
  MaxExcess = 1
INVARIANTS
  Bounded
  MemoryTrue
  AllowanceExact
