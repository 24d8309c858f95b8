SPECIFICATION Spec
CONSTANTS
  Bits <- MCBits
  Sources <- MCSources
  Instructions = 200
  CallDepth = 6
  MaxInstantiations = 4
  Fuel = 40
INVARIANTS
  Sound
  EvaluatesRight
  MemoryReleased
  LayoutSound
PROPERTIES
  Terminates
