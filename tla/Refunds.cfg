\* Refunds of a payment of 4 agorot, 3 before VAT; two workers.
SPECIFICATION FairSpec
CONSTANTS
  r1 = r1
  r2 = r2
  w1 = w1
  w2 = w2
  Refunds <- TwoRefunds
  Workers <- TwoWorkers
  Gross = 4
  Net = 3
  HasRecipient = TRUE
  Nobody = Nobody
  NoRefund = NoRefund
INVARIANTS
  RefundsFitThePayment
  VatIsExact
  RemainderIsRefundable
  CreditForRealMoney
PROPERTIES
  DecisionsAreFinal
  AccountSpec
  RefundIsDocumented
\* Once the whole payment is refunded there is nothing left to do.
CHECK_DEADLOCK FALSE
