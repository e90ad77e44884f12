CONSTANTS
  FromClient = 2
  FromUpstream = 2
  Window = 1
  Bytes <- BothWays
SPECIFICATION FairSpec
INVARIANTS TypeOK TotalsFinal NothingLeftBehind WholeAnswer
PROPERTIES EndsWithEitherPeer
