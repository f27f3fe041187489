SPECIFICATION Spec
CONSTANTS
  None = None
  a = a
  b = b
  c = c
  Uploads = {a, b, c}
  NameOf <- MCNameOf
  Day = 2
  Retention = 2
  Total = 10
  Others = 7
  MaxTime = 4
SYMMETRY Symmetry
INVARIANTS
  TypeOK
  SweptEachMidnight
  NothingOverstays
  OnlyTwinsCollide
PROPERTIES
  DeletedByAge
