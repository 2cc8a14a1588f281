SPECIFICATION Spec
CONSTANTS
  Elems = {1, 2, 3}
  KeyOf <- MCKeyOf
  Addrs = {1, 2, 3, 4}
  Nil = 0
  NoCall = NoCall
  MaxLen = 2
  MaxCap = 4
  MaxGiven = 2
INVARIANTS
  NeverAborts
  LinksAgree
PROPERTY ImplementsCollection
