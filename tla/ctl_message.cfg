\* What sendUDPCommand sends: the operation is what the stack held.
SPECIFICATION Spec
CONSTANTS
  NumberWrites <- SomeWrites
  Texts <- SomeTexts
  Sensors <- SomeSensors
  Leftovers <- SomeLeftovers
  MaxWrites = 2
  MaxMishaps = 2
  NoValue = NoValue
PROPERTIES
  ProperMessage
