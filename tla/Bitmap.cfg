SPECIFICATION Spec
CONSTANT NBits = 11
INVARIANTS
  TypeOK
  EqualsRebuilt
PROPERTIES
  ImplementsBitSet
