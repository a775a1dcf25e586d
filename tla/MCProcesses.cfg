SPECIFICATION Spec
CONSTANTS
  Nil = Nil
  Crashers = {c1, c2}
  CrashThreads = {t1}
  Callers = {r1, r2}
  Sketches = {i1}
  Waiters = {w1}
  Cancellers = {x1, x2}
  Tasks = {u1, u2}
  LockTasks = {k1, k2, k3}
  Producers = {p1, p2}
  Subscribers = {b1, b2}
  Scopes = {d1, d2, d3}
  NoValue = NoValue
CHECK_DEADLOCK FALSE
INVARIANTS
  
  ExecutionsAreAccountedFor
  
  
  
  TasksAreServed
