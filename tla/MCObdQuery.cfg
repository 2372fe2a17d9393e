SPECIFICATION FairSpec
CONSTANTS
  rpm = rpm
  gear = gear
  engineEcu = engineEcu
  gearboxEcu = gearboxEcu
  broadcast = broadcast
  Row <- MCRow
  Hdr <- MCHdr
  Header <- MCHeader
  Cmd <- MCCmd
  SetupLen <- MCSetupLen
  DefaultHdr = broadcast
  VinHdr = engineEcu
  VinCmd = VinCmd
  NoHdr = NoHdr
  NoCmd = NoCmd
  VinAttempts = 2
  RingCap = 3
  FloodMax = 2
  Lines = {0, 1, 2}
  BadFrames = TRUE
  Aborts = FALSE
  MaxLate = 2
INVARIANTS Attribution HeaderBelief
PROPERTIES NeverStuck SetupAcked
