SPECIFICATION Spec
CONSTANTS
  Users = {u1}
  Devices = {"chrdev", "keyirq"}
  KNBUFLEN = 2
  Lengths = {1, 2, 3}
PROPERTIES EchoEnds
