CONSTANTS
  h1 = h1
  h2 = h2
  r1 = r1
  paidA = paidA
  paidAgainA = paidAgainA
  paidB = paidB
  invoiceA = invoiceA
  invoiceB = invoiceB
  finals = finals
  Handlers <- TwoHandlers
  Rotators <- NoRotator
  Events <- EventsOfTwo
  Invoices <- MCInvoices
  Series <- MCSeries
  InvoiceOf <- MCInvoiceOf
  SeriesOf <- MCSeriesOf
  FinalInvoices <- NoInvoice
  MaxDeliveries = 3
  MaxRotations = 0
SPECIFICATION Spec
SYMMETRY HandlerSymmetry
INVARIANTS
  TypeOK
  NumbersNeverShared
  ProcessedIsOnRecord
PROPERTIES
  ImplementsEventRecords
