SPECIFICATION FairSpec
CONSTANTS
  Procs = {p1, p2}
  Inodes = {i1, i2, i3, i4, i5}
  Starters = {a}
  Stoppers = {}
  Clients = {g}
  None = None
  MaxFaults = 3
PROPERTY Recovers
