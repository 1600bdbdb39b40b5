SPECIFICATION Spec
CONSTANTS
  Interface = {1}
  NoInterface = 0
  Notification <- One
  SNSD_MAX_LISTENER = 1
  SNSD_MAX_IP_PHYPORT = 2
  Fd = {f1}
  NoFd = nofd
  SNSD_MAX_MSG_NUM = 1
  MaxAck = 2
  SNSD_SERVER_FLOOD_ATTACK_THRESHOLD = 2
  SNSD_SERVER_RECOVERY_CYCLES = 1
  MaxFlood = 4
  MaxUpset = 1
SYMMETRY Symmetry
PROPERTY RecoversAfterQuiet
