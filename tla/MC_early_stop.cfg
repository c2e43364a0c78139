SPECIFICATION Spec
CONSTANTS
  f1 = f1
  f2 = f2
  m1 = m1
  m2 = m2
  m3 = m3
  a = a
  b = b
  a0 = a0
  a1 = a1
  b0 = b0
  b1 = b1
  File <- Files
  Mutant = {m1, m2, m3}
  Cmd = {a, b}
  Checksum = {a0, a1, b0, b1}
  FileOf <- FileOfMutant
  CoveredBy <- Covers
  Config <- EarlyAndTable
  Sut <- Projects
  Fault = {"timeout"}
  RestoreFault = {"RestoreCode"}
  PoolSize = 2
INVARIANTS VerdictIsTrue
