CONSTANTS
  h1 = h1
  h2 = h2
  r1 = r1
  paidA = paidA
  paidAgainA = paidAgainA
  paidB = paidB
  invoiceA = invoiceA
  invoiceB = invoiceB
  finals = finals
  Handlers <- OneHandler
  Rotators <- OneRotator
  Events <- OneEvent
  Invoices <- OneInvoice
  Series <- MCSeries
  InvoiceOf <- MCInvoiceOf
  SeriesOf <- MCSeriesOf
  FinalInvoices <- OneInvoice
  MaxDeliveries = 1
  MaxRotations = 1
SPECIFICATION Spec
PROPERTY
  TokenOnlyRenewed
