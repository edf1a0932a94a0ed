\* Three providers with three priorities: ties at the top, below it, and none.
SPECIFICATION Spec
CONSTANTS
  m1 = m1
  m2 = m2
  i1 = i1
  i2 = i2
  k1 = k1
  k2 = k2
  Nobody = Nobody
  Models = {m1, m2}
  TokenIDs = {i1, i2}
  Keys = {k1, k2}
  Priorities = {1, 2, 3}
  TokenLists <- MCTokenLists
  ProviderLists <- MCProviderLists
INVARIANTS
  TypeOK
  FirstChoiceIsClear
  KeysAreApart
