SPECIFICATION Spec
CONSTANTS
  Users = {u1, u2}
  Devices = {"chrdev", "gpio"}
  KNBUFLEN = 2
  Lengths = {1, 2, 3}
INVARIANTS TypeOK
PROPERTIES CatEnds EchoEnds CatPrints EchoStores
