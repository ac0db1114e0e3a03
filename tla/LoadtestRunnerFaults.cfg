\* 3 runs. Can go wrong: "cleanup", "seed", "k6", "verify", "mark", "runner".
SPECIFICATION RunnerSpec
CONSTANTS
  Runs = {r1, r2, r3}
  NoRun = NoRun
  Faults = {"cleanup", "seed", "k6", "verify", "mark", "runner"}
SYMMETRY Interchangeable
CHECK_DEADLOCK FALSE
INVARIANTS
  RunnerIsNeverStuck
PROPERTIES
  KeptRunsSurvive
