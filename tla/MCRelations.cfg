SPECIFICATION Spec
CONSTANTS
  Users = {u1, u2, u3}
  NoUser = NoUser
SYMMETRY Symmetry
INVARIANTS
  AtMostOneRelation
  EveryUserInOneList
PROPERTIES
  RelationEndsKnowingly
  ImplementsContactBook
