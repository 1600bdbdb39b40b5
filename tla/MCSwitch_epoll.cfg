SPECIFICATION SSpec
CONSTANTS
  Port <- TwoApart
  Bond <- None
  SlaveIf = {}
  Vlan = {1}
  SNSD_MAX_LISTENER = 2
  SNSD_MAX_IP_PHYPORT = 2
  Fd = {f1, f2}
  NoFd = nofd
  MAX_PHY_PORT = 2
  MAX_NAME_INDEX = 2
  LLDP_OLD_TIME = 2
  LLDP_WAIT_OLD_TIME = 1
  LLDP_INTERVAL_CLOCK = 1
  SWITCH_POLL_INTEVAL = 2
  EpollMayFail = TRUE
  MaxUpset = 1
SYMMETRY Symmetry
INVARIANT HeardOrRetried
