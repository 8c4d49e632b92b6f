CONSTANTS
  Tasks <- MCTasks
  schwaemm_sparkle <- MCsparkle
  Flips <- MCFlips
  Ends <- MCAeadEnds
  Messages <- MCMessages
  LastBlocks <- MCLastBlocks
SPECIFICATION MCSpec
INVARIANTS
  SameStates
  Decrypts
  LastBlocksApart
  FeistelIsWhole
  HashesApart
  KnownAnswer
