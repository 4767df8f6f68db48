CONSTANTS
  Inputs <- MCInputs
  Answers <- MCAnswers
  Sellers <- MCSellers
  Lower <- MCLower
  Forbidden <- MCForbidden
  Payloads <- MCPayloads
SPECIFICATION Spec
INVARIANTS
  TypeOK
  TriggerOnly
  PartiesFromOrder
  RenderersAgree
  StatedAmountsAgree
  FinalMeansPaid
  CompleteIsIssued
