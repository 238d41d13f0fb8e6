SPECIFICATION Spec
CONSTANTS
  m1 = m1
  m2 = m2
  m3 = m3
  e1 = e1
  e2 = e2
  t1 = t1
  None = None
  Machine = {m1, m2, m3}
  Eip = {e1, e2}
  Task = {t1}
  TypeOf <- OneHttpTask
  NumMachines <- TwoBrowsers
  Configs <- AnyConfig
  Environment = {"create", "associate", "certs", "offline", "stop", "remove", "save", "crash", "reject", "pause", "resume", "reset", "drop"}
  MaxFaults = 2
SYMMETRY Symmetric
INVARIANTS TypeOK LeaseExclusive EndpointsAreOwn NotOverAllocated LeasesReturned MachinesReturned
PROPERTIES  LeaseSpec
VIEW Distinguished
