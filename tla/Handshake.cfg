SPECIFICATION FairSpec
CONSTANTS
  Senders = {pinger, cli}
  Pinger = pinger
  Readers = {r1}
  MaxRequests = 5
  MaxAged = 1
  MaxIDs = 7
  MaxFaults = 1
INVARIANTS
  TypeOK
  OneSessionPerRequest
PROPERTIES
  ImplementsAgreement
  Reconnects
