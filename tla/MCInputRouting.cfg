SPECIFICATION Spec
CONSTANTS
  Button = Button
  Lamp = Lamp
  Aux = Aux
  Extractor = Extractor
  Modules = {Button, Lamp, Aux}
  Wired = {Button, Aux}
  Routed = {Button, Aux}
  Rules <- SeparateRules
  Failing = {Lamp, Aux}
INVARIANTS
  TypeOK
  InputsAreRouted
  OutputsFollowSources
PROPERTIES
  PressIsSeen
  HeldIsRouted
