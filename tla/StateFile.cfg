SPECIFICATION FairSpec
CONSTANTS
  p1 = p1  p2 = p2  p3 = p3  a = a  b = b  r1 = r1  r2 = r2
  Procs = {p1, p2, p3}
  Ids = {a, b}
  Recs = {r1, r2}
  Absent = Absent
  Nobody = Nobody
  Torn = Torn
  NoFile = NoFile
INVARIANTS IInv
PROPERTIES NoLitter ImplementsRecordTable CallsReturn
