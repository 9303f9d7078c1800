CONSTANTS
  ClientOrder <- MCClientOrder
  Skus <- MCSkus
  Categories <- MCCategories
  Asks <- MCAsks
  Grants <- MCGrants
  Window = 3
SPECIFICATION Spec
INVARIANTS
  ToolsStayInFamily
  NamedClientIsUsed
  AnswerIsOfOneSubject
  FollowUpKeepsClient
  ReplyResumesQuestion
  CalculationsAreAskedFor
  AnswerIsHonest
PROPERTIES
  RefusalLeavesNothing
CHECK_DEADLOCK FALSE
