\* Three table contents, one of them the empty table.
CONSTANTS
  Value = {v1, v2, none}
  Empty = none
  NoFile = NoFile
  Partial = Partial
SPECIFICATION Spec
INVARIANTS
  TypeOK
  CommitIsAllOrNothing
PROPERTY
  ImplementsDurableValue
