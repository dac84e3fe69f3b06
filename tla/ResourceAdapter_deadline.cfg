SPECIFICATION Spec
CONSTANTS
  o1 = o1 o2 = o2
  Objects = {o1}
  Named = o1
  NoObject = NoObject
  Resources <- ExpiringAttachments
PROPERTY DeletedMeansGone
