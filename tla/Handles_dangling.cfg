SPECIFICATION Spec
CONSTANTS
  a = a
  b = b
  c = c
  s1 = s1
  s2 = s2
  r1 = r1
  r2 = r2
  m1 = m1
  m2 = m2
  m3 = m3
  Null = Null
  Name <- Names
  Sender <- Senders
  Receiver <- Receivers
  Memory <- Memories
INVARIANTS
  NoDangling
