CONSTANTS
  TuiNames = {1, 2}
  TuiValues = {v}
  Absent = Absent
  Cmds = {1, 2}
  Listener = Listener
  MaxVersions = 2
  MaxInputs = 4
SPECIFICATION TuiSpec
CHECK_DEADLOCK FALSE
INVARIANTS
  DeletesWhatItNames
