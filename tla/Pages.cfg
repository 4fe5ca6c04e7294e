\* Two pages of two rows by default, three of one; three changes of the
\* address, with two requests under way at most. With the changes used up a page without
\* fields rests, waiting for the user.
CONSTANTS
  Items <- MCItems
  Ranges <- MCRanges
  DefaultRange <- MCDefault
  Names <- MCNames
  Value <- MCValue
  NoValue = NoValue
  Sizes = {1, 2}
  DefaultSize = 2
  MaxSize = 3
  LinkSizes = {5}
  ServerFields = {"startTime"}
  ClientFields = {"efficiencyRatio"}
  Depts <- MCDepts
  NoDept = NoDept
  Trees <- MCTrees
  NoTree = NoTree
  NoRequest = NoRequest
  Pending = Pending
  MaxCommits = 3
  MaxCalls = 2
  MaxTrees = 2
SPECIFICATION Spec
INVARIANTS TypeOK InputIsKept NoEmptyPage LinksLeadToWhatIsShown SortedAsShown
PROPERTY KeepsPromise
CHECK_DEADLOCK FALSE
