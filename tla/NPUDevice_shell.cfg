SPECIFICATION FairSpec
CONSTANTS
  Dests = {"shared", "outside", "bad", "device"}
  CounterMod = 2
  Environments <- MCEnvironments
INVARIANTS NeverStranded OneDmaInFlight DmaAccounting StoppedIsQuiet MatchingResponse NoProtocolFatal
PROPERTIES AccessAnswered DrainCompletes
