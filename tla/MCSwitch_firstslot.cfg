SPECIFICATION SSpec
CONSTANTS
  Port <- WithBond
  Bond <- OnlyBond
  SlaveIf = {3, 4}
  Vlan = {1}
  SNSD_MAX_LISTENER = 3
  SNSD_MAX_IP_PHYPORT = 2
  Fd = {f1, f2, f3}
  NoFd = nofd
  MAX_PHY_PORT = 4
  MAX_NAME_INDEX = 1
  LLDP_OLD_TIME = 1
  LLDP_WAIT_OLD_TIME = 1
  LLDP_INTERVAL_CLOCK = 1
  SWITCH_POLL_INTEVAL = 2
  EpollMayFail = FALSE
  MaxUpset = 0
SYMMETRY Symmetry
CHECK_DEADLOCK FALSE
INVARIANT HeardOrRetried
