SPECIFICATION FairSpec
CONSTANTS
  m1 = m1
  m2 = m2
  m3 = m3
  e1 = e1
  e2 = e2
  t1 = t1
  None = None
  Machine = {m1, m2}
  Eip = {e1, e2}
  Task = {t1}
  TypeOf <- OneHttpTask
  NumMachines <- OneBrowser
  Configs <- Frugal
  Environment = {}
  MaxFaults = 0
PROPERTIES DoneFreesMachines
