CONSTANTS
  Posters = {g1, g2}
  Nobody = Nobody
  MaxPosts = 4
SPECIFICATION Spec
INVARIANTS TypeOK TasksInOrder TakesOnlyTasks
PROPERTIES JoinReturns FoundTaskRuns
