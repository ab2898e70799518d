SPECIFICATION Spec
CONSTANTS
  Proc = {p1, p2}
  Name = {n1, n2}
  Bytes = {b1, b2}
  Temp = {t1, t2, t3}
  Inode = {i1, i2, i3}
  Absent = Absent
  NoInode = NoInode
  Torn = Torn
SYMMETRY Symmetry
INVARIANTS NoTornRecord
PROPERTIES ImplementsPublication
