CONSTANTS
  alice = alice
  bob = bob
  aliceMail = aliceMail
  noMail = noMail
  None = None
  Blank = Blank
  Words <- MCWords
  Addresses = {aliceMail}
  Answers <- MCAnswers
  Orders <- MCOrders
  MarathonKeys <- MCMarathonKeys
  MarathonNamed <- MCMarathonNamed
  ApplicationKeys <- MCApplicationKeys
  Values <- MCValues
  Height <- MCHeight
  MaxDepth = 4
SPECIFICATION Spec
INVARIANTS
  TypeOK
  ImportedOnlyIsExact
  AccountIsOwn
