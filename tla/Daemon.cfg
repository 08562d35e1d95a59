CONSTANTS
  Clients <- TwoClients
  Loop = loop
  Nobody = nobody
  Ids = {i}
  Bodies = {b1, b2}
  NoRow = none
  Procs <- TwoProcesses
  Main = "main"
  Tool = "tool"
SPECIFICATION DaemonSpec
INVARIANTS
  LockedIsQuiet
  NoPassAfterClose
  CreatedOnce
  OpenedIsWhole
