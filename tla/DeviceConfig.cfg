SPECIFICATION Spec
CONSTANTS
  Configs = {c0, c1, c2}
  Default = c0
  Words = 3
  NumPages = 2
  None = None
  Blank = Blank
  Junk = Junk
  Zero = Zero
INVARIANTS TypeOK PagesInOrder
PROPERTIES StoreSpec NeverEmptied SaveEnds
