SPECIFICATION LiveSpec
CONSTANTS
    a = a
    b = b
    msg1 = msg1
    msg2 = msg2
    msg3 = msg3
    Member = {a, b}
    Reader = {a}
    Message = {msg1, msg2, msg3}
    Everyone = Everyone
    MaxTime = 3
    MaxCrashes = 1
INVARIANTS
    DirectIsUnreadOrOffered
    BroadcastsAreAccounted
PROPERTIES
    OfferedOnce
    DirectArrives
