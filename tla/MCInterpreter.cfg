\* Every kind of reading in every place, for a module that changes its analyte.
CONSTANTS
  Pairs <- MCPairs
  Stds = {0, 5}
  MaxFaults = 1
SPECIFICATION InterpreterSpec
INVARIANTS
  CalibrationSound
  SampleSound
