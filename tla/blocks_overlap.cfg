SPECIFICATION OSpec
CONSTANTS
  Cpu <- OCpu
  Task <- OTask
  MaxPri = 4
  TMAX_ACTCNT = 0
  TMAX_WUPCNT = 0
  TmoMod = 8
  Tmo = {0, 1}
  itskpri <- Opri
  home <- Ohome
  first <- Ofirst
  Idle = {8}
  Dormant = {3, 4}
  bootLinks <- Oboot
  WHead <- OHeads
  Issues <- Borrower
  DtqId = {1}
  Datum <- Letters
  dtqcnt <- ThreeSlots
  DtqByPri = {}
  Modifier = {"SHIFT"}
  CharKey = {"ka"}
  scode <- Plain
  scode_sh <- Shifted
  MbfId = {1}
  Msg <- Letters
  msgsz <- Six
  mbfsz <- Wide
  UIntMod = 256
  FlgId = {1, 2, 3}
  Bit = {1, 2}
  TA_CLR = {2}
  TA_WMUL = {1, 2}
  FlgByPri = {}
  MbxId = {1}
  Mail <- Post
  msgpri <- PostPri
  maxmpri <- ThreeLevels
  MbxPlain = {}
  LowByte = {0, 1, 64, 132}
  MtxId = {1, 2}
  MtxPlain = {1}
  ceilpri <- Ceilings
  MpfId = {1}
  MplId = {2}
  blkcnt <- TwoBlocks
  blksz <- BlockSize
  mplsz <- Sixteen
  Request = {3}
  Base = 16
  Align = 4
  SizeMod = 64
  MAX_MPL_POOL = 4
  Orderly = FALSE
  Applications = {"mpl"}
INVARIANTS
  BlocksDisjoint
