\* Three requests race for one key, or run without one, on two instances.
SPECIFICATION Spec
CONSTANTS
  Requests = {r1, r2, r3}
  Instances = {i1, i2}
  Keys = {k1}
  MaxAttempts = 2
  MaxCrashes = 1
  None = None
SYMMETRY Symmetry
INVARIANTS TypeOK AtMostOneURLPerKey AnswersAreDurable RecordIsThere IInv
PROPERTIES RecordsOnlyAdvance LocalDuplicatesWait ImplementsCreateOnce
\* The model stops once every request is answered.
CHECK_DEADLOCK FALSE
