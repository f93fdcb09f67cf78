CONSTANT Proc = {p1, p2}
SPECIFICATION Spec
CHECK_DEADLOCK FALSE
INVARIANTS
  TypeOK
  NeverDamaged
  ReportIsTrue
PROPERTY ImplementsConversion
