SPECIFICATION FairSpec
CONSTANTS
  hook = hook  mail = mail
  s1 = s1  s2 = s2
  Delivery = {hook, mail}
  Webhook = {hook}
  Server = {s1, s2}
  MaxAttempts = 2
  Lease = 1
  RetryDelay = 1
  MaxRows = 1
  MaxTrouble = 3
INVARIANTS OnceUnlessLost AttemptsBounded NoLateMail
PROPERTIES SentIsFinal DeliveriesEnd
