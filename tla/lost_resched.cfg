SPECIFICATION TasksSpec
CONSTANTS
  Cpu <- MCCpu
  Task <- MCTask
  MaxPri = 3
  TMAX_ACTCNT = 0
  TMAX_WUPCNT = 0
  TmoMod = 8
  Tmo = {1, 2}
  itskpri <- MCpri
  home <- Home1
  first <- MCfirst
  Idle <- MCIdle
  Dormant = {3}
  bootLinks <- MCboot
  WHead = {}
  Issues <- Remote
INVARIANTS
  TimeoutPreempts
