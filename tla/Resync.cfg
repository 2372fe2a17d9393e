SPECIFICATION FairSpec
CONSTANTS
  rpm = rpm
  gear = gear
  engineEcu = engineEcu
  gearboxEcu = gearboxEcu
  broadcast = broadcast
  Row <- MCRow
  Hdr <- MCHdr
  Header <- MCHeader
  Cmd <- MCCmd
  SetupLen <- MCSetupLen
  DefaultHdr = broadcast
  VinHdr = engineEcu
  VinCmd = VinCmd
  NoHdr = NoHdr
  NoCmd = NoCmd
  VinAttempts = 2
  RingCap = 3
  FloodMax = 4
  Lines = {1}
  BadFrames = FALSE
  Aborts = FALSE
  MaxLate = 1
PROPERTIES Resync
