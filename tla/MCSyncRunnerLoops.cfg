SPECIFICATION RunnerSpec
CONSTANTS
  Callers = {c1, c2, c3, c4}
  Outside = {c4}
INVARIANT OneLoop
