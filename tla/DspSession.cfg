SPECIFICATION ServingSpec
CONSTANTS
  Clients = {c1, c2}
  MaxH = 2
  InFlight = 2
  MaxBuf = 2
  Jobs = {j1, j2}
  Backlog = 1
  NoClient = NoClient
  NoJob = NoJob
INVARIANTS NoUseAfterFree TokenStandsForItsJob QuietBetweenClients
PROPERTIES LeaseSpec Answered QueueMoves
