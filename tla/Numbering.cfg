CONSTANTS
  t1 = t1
  t2 = t2
  t3 = t3
  proforma2026 = proforma2026
  final2026 = final2026
  Tx <- MCTx
  Series <- MCSeries
  NoTx = NoTx
  MaxNumber = 2
SPECIFICATION FairSpec
INVARIANTS
  TypeOK
  Gapless
  NumberInHandIsNew
  CounterFollowsLedger
PROPERTIES
  ImplementsAuthority
  TransactionsEnd
