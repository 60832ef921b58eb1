SPECIFICATION Spec
CONSTANTS
  m1 = m1
  m2 = m2
  Machines = {m1, m2}
  Shared = {a1, a2}
  Addresses = {a1, a2, b}
  MachineOf <- MCMachineOf
  NoPeer = NoPeer
  MAXCLIENTS = 3
  sn_maxClients = 2
  sn_allowSameIPCountSoft = 1
  sn_allowSameIPCountHard = 2
  Hosts = FALSE
  MaxSessions = 4
SYMMETRY Symmetry
INVARIANTS TypeOK RightUsers
PROPERTIES ImplementsAdmission
