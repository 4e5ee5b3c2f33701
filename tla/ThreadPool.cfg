SPECIFICATION Spec
CONSTANTS
  Workers = {w1, w2, w3}
  Tasks = {t1, t2, t3}
  Main = Main
  NoThread = NoThread
  NoTask = NoTask
INVARIANTS PopIsSafe TaskConservation NothingAfterDestruction
PROPERTIES ImplementsTaskService SubmittedTaskRuns DestructorReturns
