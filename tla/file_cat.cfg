SPECIFICATION Spec
CONSTANTS
  Users = {u1, u2}
  Devices = {"chrdev"}
  KNBUFLEN = 2
  Lengths = {1, 2}
PROPERTIES ReadStartsAtPos
