SPECIFICATION StoresSpec
CONSTANTS
  a = a
  b = b
  c = c
  p = p
  q = q
  Blank = Blank
  d1 = d1
  d2 = d2
  d3 = d3
  d4 = d4
  d5 = d5
  Ssid <- const_Ssid
  Pass <- const_Pass
  Max = 2
  Task <- const_Task
  Most = 5
  Drop = 2
  Lockout = 3
  Build <- const_Build
  Retry = 3
  MaxRows = 2
  Addr <- const_Addr
  Unstorable <- const_Unstorable
  Peer <- const_Peer
  Who <- const_Who
  Cap = 3
INVARIANTS CredsKept LowReachesFlash NoDeviceTwice
PROPERTIES LowNeverRises LogKept LogRecovers ImplementsRecentSet
