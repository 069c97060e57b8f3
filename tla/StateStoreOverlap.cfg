SPECIFICATION Spec
CONSTANTS
  Short = short
  Long = long
  States <- MCStates
  Length <- MCLength
  Default = default
  Writers = {w1, w2}
  Readers = {r1}
  Inodes = {i1, i2, i3, i4}
  NoInode = noinode
  Nothing = nothing
INVARIANT
  FileIsWhole
