SPECIFICATION TuiSpec
CONSTANTS
  MaxRuns = 2
  MaxTexts = 2
  MaxUiEvents = 1
  MaxVisible = 1
  Hunks = 2
  MaxCommands = 1
INVARIANT TextsShownOnce
PROPERTY TurnSettles
CHECK_DEADLOCK FALSE
