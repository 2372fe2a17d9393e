SPECIFICATION Spec
CONSTANTS
  Hold = 1
  RpmFresh = 1
  Grace = 2
  LowArm = 2
  Stale = 2
  Message = 1
PROPERTIES AlarmJustified AlarmRaised GreyWhenOld
