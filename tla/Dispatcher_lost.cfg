CONSTANTS
  Posters = {g1}
  Nobody = Nobody
  MaxPosts = 2
SPECIFICATION Spec
PROPERTIES PostedTasksRun
