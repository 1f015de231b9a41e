CONSTANTS
  StopNames <- MCStopNames
  IdNames <- MCIdNames
  TimeNames <- MCTimeNames
  NamedTypes <- MCNamedTypes
  NamedLevels <- MCNamedLevels
  ValueTypes <- MCValueTypes
  KpiKinds <- MCKpiKinds
  Axes <- MCAxes
  Worlds <- MCWorlds
SPECIFICATION Spec
INVARIANTS
  StrategiesStand
