SPECIFICATION FairSpec
CONSTANTS
  ann = ann
  ben = ben
  cat = cat
  Player = {ann, ben, cat}
  Auction = {"a1", "a2", "a3"}
  Seller <- MCSeller
  PieceOf <- MCPieceOf
  Offer <- MCOffer
  Account <- MCAccount
  Lock <- MCLock
  IdOf <- MCIdOf
  MayOwe <- MCMayOwe
  Start <- MCStart
  Txns = {1, 2}
  NoTxn = NoTxn
  NoOffer = NoOffer
  NoTask = NoTask
  Reserve = 1
  StepBPS = 500
  MinStep = 1
  FeeBPS = 5000
  MaxOpen = 1
  MaxFaults = 1
INVARIANTS TypeOK BooksMatch OneBidStands PiecesFollow LimitKept CyclesHaveASecondPost
PROPERTIES ActsAtOnce EveryAuctionCloses
CHECK_DEADLOCK FALSE
