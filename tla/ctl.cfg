\* Client writes over a network that loses, repeats and reorders.
SPECIFICATION Spec
CONSTANTS
  NumberWrites <- SomeWrites
  Texts <- SomeTexts
  Sensors <- SomeSensors
  Leftovers <- SomeLeftovers
  MaxWrites = 2
  MaxMishaps = 2
  NoValue = NoValue
INVARIANTS
  TypeOK
  ReadBackHeld
  Agreement
  TimeWhole
  TriggerFollows
