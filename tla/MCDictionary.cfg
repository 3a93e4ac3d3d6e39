SPECIFICATION BoundedSpec
CONSTANTS
  w1 = w1
  w2 = w2
  r1 = r1
  r2 = r2
  Words = {w1,w2}
  Readings = {r1,r2}
  Names = {"default", "lessons"}
  Default = "default"
  Lessons = "lessons"
  MaxGroups = 2
  MaxRows = 2
  MaxTouched = 2
  MaxRevision = 2
SYMMETRY Symmetry
INVARIANTS TypeOK TablesSound
PROPERTIES CommitsAreFaithful
CHECK_DEADLOCK FALSE
