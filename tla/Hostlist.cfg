SPECIFICATION Spec
CONSTANTS
  Texts <- MCTexts
  Hosts <- MCHosts
  MaxRange = 4
  MaxRanges = 2
  MaxHosts = 3
  Null = Null
INVARIANT CountRight
INVARIANT StringsReadBack
PROPERTY ActsAsSequence
PROPERTY SortKeepsHosts
PROPERTY UniqKeepsOne
PROPERTY InsertAddsMembers
PROPERTY IteratorBound
PROPERTY IteratorWalk
VIEW WithoutHistory
