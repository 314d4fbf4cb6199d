SPECIFICATION Spec
CONSTANTS
  Transitions = {1, 2, 3}
  Countdown = 2
  ResumeTurns = 5
  FailTurns = 3
  RockTurns = 2
INVARIANT MenusDoNotOverlap
