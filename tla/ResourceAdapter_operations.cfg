SPECIFICATION FairSpec
CONSTANTS
  o1 = o1 o2 = o2
  Objects = {o1, o2}
  Named = o1
  NoObject = NoObject
  Resources <- AllResources
INVARIANTS TypeOK NothingLost ForeignNotTainted NothingFails
PROPERTIES AttemptDeletes OperationsReturn
