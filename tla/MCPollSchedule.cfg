SPECIFICATION ChoiceSpec
CONSTANTS
  Cap = 16
  Vehicles <- const_Vehicles
  Bytes <- const_Bytes
  Vins <- const_Vins
  Later <- const_Later
INVARIANTS CarIsKnown RowsInTime LayoutSound DropoutSilent
