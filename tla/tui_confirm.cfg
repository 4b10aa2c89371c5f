SPECIFICATION Spec
CONSTANTS
  Vaults = {v1}
  Paths = {p1}
  Teams = {t1}
  Devices = {d1}
  None = None
  Sittings <- MCDialogs
  Filtered = {"files"}
  MaxStack = 4
PROPERTIES PopsItself
