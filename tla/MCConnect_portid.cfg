SPECIFICATION CSpec
CONSTANTS
  SwHost = {h1}
  DcHost = {}
  Target = {t1}
  NoTarget = none
  Portid = {0, 4420}
  NotifyPortid = {0}
  ForceFlag = {FALSE, TRUE}
  Ctx <- ConnCtx
  CtxInit <- ConnCtxInit
  DynPeon = {d1}
  PEON_CONNECT_WORKER_NUM = 1
  PEON_DISCONN_WORKER_NUM = 1
  PEON_DCBATCH_WORKER_NUM = 1
  PEON_DYN_DISCONN_WORKER_LIMIT = 0
  RestrainTime = 0
  PEON_DEFAULT_RESTRAIN_TIME = 1
  PEON_FAIL_RETRY_INTERVAL = 1
  ThreadCreateMayFail = FALSE
  MaxSn = 2
  MaxInherit = 6
  Name = {1, 2}
  SNSD_NVME_RDMA_TRSVCID = 4420
  MaxUpset = 1
CHECK_DEADLOCK FALSE
INVARIANT DisconnectFiltersRecheck
