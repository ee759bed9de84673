SPECIFICATION MgmtSpec
CONSTANTS
  Cpu <- MCCpu
  Task <- MCTask
  MaxPri = 3
  TMAX_ACTCNT = 1
  TMAX_WUPCNT = 0
  TmoMod = 8
  Tmo = {1}
  itskpri <- MCpri
  home <- MChome
  first <- MCfirst
  Idle = {8, 9}
  Dormant = {}
  bootLinks <- MCboot
  WHead = {}
  Issues <- Managed
  TMAX_SUSCNT = 2
  TA_ACT = {}
  NewPri = {0, 2}
  Careful = TRUE
INVARIANTS
  ReadyQueuesExact
  SuspensionExact
  LiveTaskRuns
  DormantIsFresh
CHECK_DEADLOCK FALSE
