SPECIFICATION Spec
CONSTANTS
  Short = short
  Long = long
  States <- MCStates
  Length <- MCLength
  Default = default
  Writers = {w1}
  Readers = {r1, r2}
  Inodes = {i1, i2, i3, i4}
  NoInode = noinode
  Nothing = nothing
INVARIANT
  TypeOK
  FileIsWhole
PROPERTY
  AtomicRegister
