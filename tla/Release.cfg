CONSTANTS
  u1 = u1  u2 = u2  u3 = u3
  m1 = m1  m2 = m2
  b1 = b1  b2 = b2  b3 = b3  b4 = b4  b5 = b5  b6 = b6
  None = None
  Publishers = {u1, u2, u3}
  FromCi = {u2}
  Commits = {m1, m2}
  Size = 4
  CommitOf <- Sources
  Bytes <- Files
SPECIFICATION Spec
INVARIANTS
  InstallableWhole
  AnnouncedWhole
