SPECIFICATION DemoSpec
CONSTANTS
  Cpu <- DCpu
  Task <- DTask
  MaxPri = 3
  TMAX_ACTCNT = 0
  TMAX_WUPCNT = 0
  TmoMod = 8
  Tmo = {1}
  itskpri <- Dpri
  home <- Dhome
  first <- Dfirst
  Idle <- DIdle
  Dormant = {3, 4}
  bootLinks <- Dboot
  WHead <- DHeads
  Issues <- Program
  SemId = {1}
  TA_TPRI = {}
  isemcnt <- One
  maxsem <- One
  DtqId = {2}
  Datum <- Chars
  dtqcnt <- TwoSlots
  DtqByPri = {}
  Modifier = {}
  CharKey <- Keys
  scode <- Typed
  scode_sh <- Typed
  MbfId = {1}
  Msg <- OneLine
  msgsz <- TenBytes
  mbfsz <- TwentyFour
  UIntMod = 256
  SEM_HOLD = 2
  SEM_REST = 0
  LineWrap = 1
  line_buf <- AnyLine
  Enter = "cr"
  Backspace = "bs"
INVARIANTS
  OrderlyStart
  SharedExclusive
  HandshakeKept
