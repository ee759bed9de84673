SPECIFICATION SemSpec
CONSTANTS
  Cpu <- UniCpu
  Task <- UniTask
  MaxPri = 3
  TMAX_ACTCNT = 0
  TMAX_WUPCNT = 0
  TmoMod = 8
  Tmo = {0, 1}
  itskpri <- Unipri
  home <- Unihome
  first <- Unifirst
  Idle = {8}
  Dormant = {3, 4}
  bootLinks <- Uniboot
  WHead <- TwoHeads
  Issues <- Competing
  SemId = {1, 2}
  TA_TPRI = {1}
  isemcnt <- OneEach
  maxsem <- OneEach
INVARIANTS
  SemTypeOK
  UnitsConserved
  WaitQueueExact
PROPERTIES
  UnitAnswered
  MostUrgentServed
  NoOvertaking
