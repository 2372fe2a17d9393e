SPECIFICATION Spec
CONSTANTS
  adapter = adapter
  oldAdapter = oldAdapter
  laptop = laptop
  watch = watch
  None = None
  Device <- MCDevice
  Adapter = {adapter, oldAdapter}
  SaysObd = {}
  SaysOther = {watch}
  Named = {adapter, oldAdapter}
  Bonding = {laptop}
  Places <- MCPlaces
  Rssi <- EqualRssi
  NvsInit = {None, oldAdapter}
  RingCap = 4
  MaxTries = 2
  ReinitEvery = 2
  RebootAt = 2
  Wedges = {}
INVARIANTS VinIsCurrent
