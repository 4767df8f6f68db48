CONSTANTS
  p1 = p1
  p2 = p2
  created = created
  garbage = garbage
  refused = refused
  createdEvent = createdEvent
  proforma = proforma
  NoMessage = NoMessage
  Pods <- OnePod
  Messages <- OneMessage
  Malformed <- NoneOf
  Refused <- NoneOf
  AutoCreate = TRUE
  HandlerThrows = FALSE
  MaxCrashes = 0
  MaxClosures = 1
  Events <- MCEvents
  Invoices <- MCInvoices
  InvoiceOf <- MCInvoiceOf
  EventOf <- MCEventOf
SPECIFICATION FairSpec
PROPERTY
  EveryOrderOnRecord
