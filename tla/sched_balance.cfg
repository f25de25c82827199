SPECIFICATION SchedulerSpec
CONSTANTS
  TaskOrder <- SomeTasks
  Day = 2
  MaxTime = 1
  Schedules <- SomeSchedules
  Intervals = {0, 5}
  MaxChanges = 1
PROPERTIES
  BalanceTakenUp
CHECK_DEADLOCK FALSE
