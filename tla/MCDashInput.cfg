SPECIFICATION Spec
CONSTANTS
  Key = "generic"
  HalfRange = 3
  Wraps = FALSE
  Debounce = 2
  Long = 3
  Gaps <- const_Gaps
  Turns <- const_Turns
  Hidden <- const_Hidden
  Vehicles = 1
  Presets = 1
INVARIANTS NavRight WipeAsked OneEventPerPress WipeTaken
VIEW Seen
