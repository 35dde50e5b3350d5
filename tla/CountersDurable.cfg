SPECIFICATION Spec
CONSTANTS
  a = a
  b = b
  c1 = c1
  c2 = c2
  Ids = {a}
  Callers = {c1, c2}
  Datas <- Counters
  Habits = {}
INVARIANTS
  TypeOK
  
  AckIsStored
  
  IInv
