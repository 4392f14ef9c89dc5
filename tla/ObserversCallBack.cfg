SPECIFICATION ObserversSpec
CONSTANTS
  FailureReactions = {"returns", "adds", "nests"}
  MaxDepth = 7
  MaxEvents = 5
  MaxObservers = 3
INVARIANT
  NeverReentered
