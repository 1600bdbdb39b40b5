SPECIFICATION Spec
CONSTANTS
  SwHost = {h1}
  DcHost = {}
  Target = {t1}
  NoTarget = none
  Portid = {0}
  NotifyPortid = {0}
  ForceFlag = {FALSE}
  Ctx = {c0}
  CtxInit = c0
  DynPeon = {d1}
  PEON_CONNECT_WORKER_NUM = 1
  PEON_DISCONN_WORKER_NUM = 1
  PEON_DCBATCH_WORKER_NUM = 1
  PEON_DYN_DISCONN_WORKER_LIMIT = 0
  RestrainTime = 1
  PEON_DEFAULT_RESTRAIN_TIME = 1
  PEON_FAIL_RETRY_INTERVAL = 1
  ThreadCreateMayFail = FALSE
  MaxSn = 3
  MaxInherit = 2
CHECK_DEADLOCK FALSE
PROPERTY DisconnectNotOvertaken
