CONSTANTS
  p1 = p1
  l1 = l1
  d1 = d1
  d2 = d2
  Phones = {p1, l1}
  Local = {l1}
  Devices = {d1, d2}
  DeviceOf <- MCDeviceOf
  MaxCodes = 2
  MaxExpired = 1
  MaxUpsets = 2
  MaxTries = 2
  WireCap = 2
SPECIFICATION Spec
INVARIANTS CodeUsedOnce PairedIsAdmitted
CHECK_DEADLOCK FALSE
