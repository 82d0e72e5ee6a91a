SPECIFICATION Spec
CONSTANTS
  Services <- MCServices
  CategoryOf <- MCCategoryOf
  TeamOf <- MCTeamOf
  Slots <- MCSlots
  DateOf <- MCDateOf
  Cycle = 2
  ListRoom = 1
  SlotRoom = 1
  RangeSpan = 1
  Handlers = {1}
  Scenes <- FlowScene
  Appts = {1, 2}
  MayFail = FALSE
  Occupations <- MCOccupations
  MaxChanges = 0
  Before <- MCBefore
INVARIANT MovesNotDuplicates
CHECK_DEADLOCK FALSE
