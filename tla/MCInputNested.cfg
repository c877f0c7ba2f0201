SPECIFICATION Spec
CONSTANTS
  Button = Button
  Lamp = Lamp
  Aux = Aux
  Extractor = Extractor
  Modules = {Lamp, Aux}
  Wired = {Lamp, Aux}
  Routed = {Lamp}
  Rules <- SharedRules
  Failing = {}
PROPERTIES
  HeldIsRouted
