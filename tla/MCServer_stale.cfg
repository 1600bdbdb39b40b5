SPECIFICATION Spec
CONSTANTS
  Interface = {1, 2}
  NoInterface = 0
  Notification <- Across
  SNSD_MAX_LISTENER = 2
  SNSD_MAX_IP_PHYPORT = 2
  Fd = {f1, f2}
  NoFd = nofd
  SNSD_MAX_MSG_NUM = 1
  MaxAck = 2
  SNSD_SERVER_FLOOD_ATTACK_THRESHOLD = 2
  SNSD_SERVER_RECOVERY_CYCLES = 1
  MaxFlood = 0
  MaxUpset = 1
SYMMETRY Symmetry
INVARIANT DispatchedWhereServed
