SPECIFICATION Spec
CONSTANTS
  Services <- MCServices
  CategoryOf <- MCCategoryOf
  TeamOf <- MCTeamOf
  Slots <- MCSlots
  DateOf <- MCDateOf
  Cycle = 2
  ListRoom = 1
  SlotRoom = 1
  RangeSpan = 1
  Handlers = {1}
  Scenes <- ChatScene
  Appts = {1, 2}
  MayFail = TRUE
  Occupations <- MCOccupations
  MaxChanges = 1
  Before <- MCBefore
INVARIANTS TypeOK ReschedulesInPlace ExitOffered BooksWhatWasChosen
CHECK_DEADLOCK FALSE
