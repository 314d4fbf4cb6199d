SPECIFICATION Spec
CONSTANTS
  Transitions = {1, 2, 3}
  Countdown = 2
  ResumeTurns = 5
  FailTurns = 3
  RockTurns = 2
INVARIANTS
  TypeOK
  SoundFollowsGame
  MenusHearKeys
PROPERTY NeverStuck
