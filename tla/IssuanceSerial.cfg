CONSTANTS
  h1 = h1
  h2 = h2
  r1 = r1
  paidA = paidA
  paidAgainA = paidAgainA
  paidB = paidB
  invoiceA = invoiceA
  invoiceB = invoiceB
  finals = finals
  Handlers <- OneHandler
  Rotators <- OneRotator
  Events <- AllEvents
  Invoices <- MCInvoices
  Series <- MCSeries
  InvoiceOf <- MCInvoiceOf
  SeriesOf <- MCSeriesOf
  FinalInvoices <- MCInvoices
  MaxDeliveries = 2
  MaxRotations = 1
SPECIFICATION Spec
INVARIANTS
  NoNumberLost
  IssuedOrBare
  SentWasMailed
  AtMostOneTrueMail
PROPERTIES
  ImplementsRegistry
