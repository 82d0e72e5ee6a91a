SPECIFICATION Spec
CONSTANTS
  Services <- NarrowServices
  CategoryOf <- NarrowCategoryOf
  TeamOf <- NarrowTeamOf
  Slots <- NarrowSlots
  DateOf <- NarrowDateOf
  Cycle = 2
  ListRoom = 2
  SlotRoom = 2
  RangeSpan = 1
  Handlers = {1, 2}
  Scenes <- NarrowScenes
  Appts = {1, 2}
  MayFail = FALSE
  Occupations <- NarrowOccupations
  MaxChanges = 0
  Before <- NarrowBefore
INVARIANTS BooksOnce OneOpenInChat
PROPERTIES CompletedStays AbandonedEnds HandoffEnds
CHECK_DEADLOCK FALSE
