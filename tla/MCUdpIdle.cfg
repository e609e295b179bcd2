SPECIFICATION Spec
CONSTANTS
  None = None
  Remotes = {v4, v6}
  Hosts = {h1}
  Ports = {1}
  IdleTicks = 2
PROPERTIES TimesOutOnlyWhenIdle
