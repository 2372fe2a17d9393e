SPECIFICATION FairSpec
CONSTANTS
  Release <- MCRelease
  Crashing <- MCCrashing
  Torn = Torn
  Alien = Alien
  Size = 3
INVARIANTS BootsVerified
PROPERTIES OnlyUnconfirmedGivenUp CrashingGivenUp FlowEnds
