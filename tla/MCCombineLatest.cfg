\* Four signals, of which one sends nil and one a tuple.
SPECIFICATION Spec
CONSTANTS
  N = 4
  Nils = {3}
  Tuples = {1}
INVARIANTS
  ValueBeforeCompletion
  DeliveredInOrder
PROPERTIES
  ImplementsJoin
