\* 2 runs. Can go wrong: "seed".
SPECIFICATION RunnerSpec
CONSTANTS
  Runs = {r1, r2}
  NoRun = NoRun
  Faults = {"seed"}
SYMMETRY Interchangeable
CHECK_DEADLOCK FALSE
INVARIANT
  OneRunAtATime
