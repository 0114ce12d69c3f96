SPECIFICATION FairSpec
CONSTANTS
  create = create
  add = add
  addAgain = addAgain
  delete = delete
  Call = {create, add, addAgain, delete}
  Command <- MCCommand
  CommandOf <- MCCommandOf
  Body <- MCBody
  Model <- MCModel
  EmptyModel <- MCEmptyModel
  Decide <- MCDecide
  Apply <- MCApply
  Hydrate <- MCHydrate
  Projector <- MCProjector
  ProjectorOrder <- MCProjectorOrder
  Required <- MCProjector
  Later = {"proposedPlans"}
  ReadLimit = 2
  Faults <- MCNoFaults
  MaxCrashes = 1
CHECK_DEADLOCK FALSE
INVARIANT
  TablesAreLog
