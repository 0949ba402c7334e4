SPECIFICATION Spec
CONSTANTS
  Dests = {"shared"}
  CounterMod = 2
  Environments <- RestlessGuest
INVARIANT DrainSignalled
