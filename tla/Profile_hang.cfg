SPECIFICATION LiveSpec
CONSTANTS
  d1 = d1
  d2 = d2
  s1 = s1
  s2 = s2
  s3 = s3
  r1 = r1
  r2 = r2
  p1 = p1
  p2 = p2
  p3 = p3
  m1 = m1
  m2 = m2
  m3 = m3
  Null = Null
  Device <- Devices
  Profiles <- ProfilesEmptyLine
  Files <- FilesEmptyLine
  Means <- MeansAll
  IntMax = 1000
  Sender <- SendersMemory
  Receiver <- ReceiversMemory
  Plain <- PlainMemory
  Name <- Names
  Memory <- Memories
PROPERTIES
  LoadEnds
CHECK_DEADLOCK FALSE
