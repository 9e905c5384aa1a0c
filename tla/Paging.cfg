SPECIFICATION Spec
CONSTANTS
  Absent = Absent
  None = None
  MaxNumber = 5
  Ids = {1, 2, 3}
  Tables <- MCTables
  Written <- MCWritten
  MaxChanges = 2
  Asked <- MCAsked
  Parse <- ParseQuery
  Collate <- MCCollate
  Like <- MCLike
INVARIANTS TypeOK Understood TotalOfAMoment PagesInOrder BothShapes StatusAsSearched
