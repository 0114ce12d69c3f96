SPECIFICATION FairSpec
CONSTANTS
  create = create
  add = add
  addAgain = addAgain
  delete = delete
  Call = {create, add, addAgain, delete}
  Command <- MCCommand
  CommandOf <- MCCommandOf
  Body <- MCBody
  Model <- MCModel
  EmptyModel <- MCEmptyModel
  Decide <- MCDecide
  Apply <- MCApply
  Hydrate <- MCHydrate
  Projector <- MCProjector
  ProjectorOrder <- MCProjectorOrder
  Required <- MCProjector
  Later = {"proposedPlans"}
  ReadLimit = 10
  Faults <- MCFaults
  MaxCrashes = 2
CHECK_DEADLOCK FALSE
INVARIANTS
  ExactlyOnce
  AnswersDurable
  PublishedIsLog
  ModelIsLog
  TablesAreLog
PROPERTIES
  Answered
  
