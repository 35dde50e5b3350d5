SPECIFICATION Spec
CONSTANTS
  a = a
  b = b
  c1 = c1
  c2 = c2
  Ids = {a, b}
  Callers = {c1, c2}
  Datas <- Counters
  Habits = {"cancel"}
INVARIANT AckIsStored
