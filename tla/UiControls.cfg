CONSTANTS
  Root = Root  OldRoot = OldRoot  NoParent = NoParent
  MaxFailures = 1
  Objects <- ObjectsFour
  Ids <- IdsThree
  Specs <- SpecsMixed
  Texts <- TextsTwo
  Lines <- LinesOne
  ItemLists <- ItemsUpToOne
  Indexes <- IndexesAll
  Numbers <- NumbersAll
SPECIFICATION Spec
INVARIANTS RegistryMatchesTree ValuesInRange
PROPERTY AppliedOrReported
