SPECIFICATION Spec
CONSTANTS
  Procs = {p1, p2}
  Inodes = {i1, i2, i3, i4, i5, i6}
  Starters = {a, b}
  Stoppers = {a}
  Clients = {}
  None = None
  MaxFaults = 1
INVARIANTS TypeOK OneOwnerUntilUnlink
