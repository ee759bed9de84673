SPECIFICATION TasksSpec
CONSTANTS
  Cpu <- MCCpu
  Task <- MCTask
  MaxPri = 3
  TMAX_ACTCNT = 0
  TMAX_WUPCNT = 0
  TmoMod = 8
  Tmo = {1, 2}
  itskpri <- MCpri
  home <- Home0
  first <- MCfirst
  Idle <- MCIdle
  Dormant = {3}
  bootLinks <- MCboot
  WHead = {}
  Issues <- Sleepers
INVARIANTS
  TypeOK
  RunIsCurrent
  NoGhost
  ReadyQueuesExact
  TimeoutQueueExact
  NoEntryOverdue
PROPERTIES
  DeadlinesKept
  MostUrgentChosen
  VerdictKeptOnTickCpu
