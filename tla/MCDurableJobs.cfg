SPECIFICATION FairSpec
CONSTANTS
    conv = conv  room = room
    t1 = t1  t2 = t2  r1 = r1
    c1 = c1  c2 = c2  w1 = w1  w2 = w2
    MaxSeq = 2
    OrderingKeys = {conv, room}
    IdempotencyKeys = {t1, t2, r1}
    OrderOf <- MCOrderOf
    LockedKeys = {conv}
    Callers = {c1, c2}
    Workers = {w1, w2}
    LeaseSeconds = 1
    MaxTxn = 1
    MaxDelay = 1
    MaxAttempts = 2
INVARIANTS
    TypeOK
PROPERTIES
    LeaseRespected
    ImplementsOrderedDelivery
    HeadIsServed
