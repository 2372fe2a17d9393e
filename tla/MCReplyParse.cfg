SPECIFICATION Spec
CONSTANTS
  Chunk = 20
  Lengths <- const_Lengths
  Preambles <- const_Preambles
INVARIANTS NoMixedReply PositiveFound
