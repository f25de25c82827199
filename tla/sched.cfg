SPECIFICATION SchedulerSpec
CONSTANTS
  TaskOrder <- SomeTasks
  Day = 2
  MaxTime = 2
  Schedules <- SomeSchedules
  Intervals = {0, 5}
  MaxChanges = 2
CHECK_DEADLOCK FALSE
INVARIANTS
  RearmsBalance
PROPERTIES
  SlotsServed
  ChangeTakenUp
