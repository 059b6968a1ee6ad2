SPECIFICATION Spec
CONSTANTS
  Sensors = {a, b}
  Kinds <- MCKinds
  RisingNames = {"Imported Energy", "Exported Energy"}
  Spikes <- MCSpikes
  Top = 2
  EnergyBound = 3
  MaxChange = 1
  MinElapsed = 1
  AgeCap = 3
  Precision = 2
INVARIANTS TypeOK RefusedOnlyForOthers
PROPERTIES NeverFalls ComesThrough
