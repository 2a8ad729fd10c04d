CONSTANTS
  dead = dead
  alive = alive
  Fact = {dead, alive}
  Rank <- DeadFirst
  Legacy = {alive}
  Dead = {dead}
  Last = 2
  Batch = 2
  Scanner = {command}
  Sweep = {tick, hand}
  Clock = tick
SPECIFICATION Spec
INVARIANT TypeOK
PROPERTIES StampsKept EventuallyGraded
CHECK_DEADLOCK FALSE
