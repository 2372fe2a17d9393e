SPECIFICATION FairSpec
CONSTANTS
  gm = gm
  jeep = jeep
  sierra = sierra
  ford = ford
  Profile = {gm, jeep}
  Dead = Dead
  None = None
  Car = {sierra, ford}
  Target <- MCTarget
  AutoRow = AutoRow
  NoReq = NoReq
  FlashInit <- MCFlashInit
  MaxCuts = 1
INVARIANTS PickKept
PROPERTIES LockKept ProfileSettles HangCleared
