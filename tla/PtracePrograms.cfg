SPECIFICATION Spec
CHECK_DEADLOCK FALSE
INVARIANTS
  TypeOK
  MessagesAreTrue
  SignalsReachChild
PROPERTIES
  ChildGoesToo
  ParentEnds
