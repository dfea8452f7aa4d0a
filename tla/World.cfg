SPECIFICATION Spec
CONSTANTS
  t1 = t1
  t2 = t2
  Threads <- MCThreads
  Capacity = 2
  Indices = {1, 2}
  MaxSequence = 2
  MaxId = 3
  MaxContacts = 4
SYMMETRY AnyThread
INVARIANTS
  ContactsAttributed
CHECK_DEADLOCK FALSE
