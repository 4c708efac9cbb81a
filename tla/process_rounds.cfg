\* Rounds, retries, timeouts, requests and shutdown in every order.
SPECIFICATION Spec
CONSTANTS
  Requests = {r1}
  MaxRetries = 2
  MaxRounds = 2
  StoreFaults = TRUE
INVARIANTS
  TypeOK
  LoopsEndBeforeClose
  LettersHonest
PROPERTIES
  ShutdownCompletes
CHECK_DEADLOCK FALSE
