SPECIFICATION TasksSpec
CONSTANTS
  Cpu <- UniCpu
  Task <- UniTask
  MaxPri = 2
  TMAX_ACTCNT = 1
  TMAX_WUPCNT = 0
  TmoMod = 8
  Tmo = {1, 2}
  itskpri <- Unipri
  home <- Unihome
  first <- Unifirst
  Idle = {}
  Dormant = {3, 4}
  bootLinks <- Uniboot
  WHead = {}
  Issues <- UniProgram
INVARIANTS
  NoMissedPreemption
