SPECIFICATION FairSpec
CONSTANTS
  Parents = {A, B}
  None = None
  MaxAttempts = 2
  MaxCrashes = 1
  MaxMoves = 2
INVARIANTS NeverJoinedToNobody AnnounceLostOnlyByEarlySave
PROPERTIES HealsUnlessBlind
