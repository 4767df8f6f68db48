CONSTANTS
  q1 = q1
  q2 = q2
  customer = customer
  imported = imported
  stranger = stranger
  service = service
  invoice = invoice
  subject1 = subject1
  subject2 = subject2
  email1 = email1
  Unknown = Unknown
  Requests <- BothRequests
  Callers <- AllCallers
  Invoices <- OneInvoice
  Identities <- MCIdentities
  Answer <- MCAnswer
  Snapshot <- MCSnapshot
  MaxRequests = 2
  MaxOutages = 1
  MaxWiped = 1
SPECIFICATION FairSpec
INVARIANTS
  TypeOK
  ReachedByRight
  LinksOpenUnlessOverlapped
PROPERTIES
  RequestsEnd
