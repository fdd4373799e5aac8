SPECIFICATION Spec
CONSTANTS
  w1 = w1  w2 = w2  mount = mount  submit1 = submit1  submit2 = submit2
  Nil = Nil
  Writers <- TwoWriters
  Mount = mount
  Submits <- TwoSubmits
  Cap = 1
  MaxVersion = 3
  MaxFaults = 1
CHECK_DEADLOCK FALSE
INVARIANTS TypeOK StaleHasAReason GateOrStream
