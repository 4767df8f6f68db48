CONSTANTS
  p1 = p1
  p2 = p2
  created = created
  garbage = garbage
  refused = refused
  createdEvent = createdEvent
  proforma = proforma
  NoMessage = NoMessage
  Pods <- TwoPods
  Messages <- AllMessages
  Malformed <- OnlyGarbage
  Refused <- OnlyRefused
  AutoCreate = TRUE
  HandlerThrows = TRUE
  MaxCrashes = 1
  MaxClosures = 2
  Events <- MCEvents
  Invoices <- MCInvoices
  InvoiceOf <- MCInvoiceOf
  EventOf <- MCEventOf
SPECIFICATION FairSpec
INVARIANTS
  TypeOK
  AckedIsOnRecord
  OneCallbackPerProcess
  UnackedIsHandled
PROPERTIES
  EveryMessageSettled
  EveryPodServes
