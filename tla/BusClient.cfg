SPECIFICATION FairSpec
CONSTANTS
    Early <- MCEarly
    Late <- MCLate
    MaxDrops = 2
    MaxMessages = 2
CHECK_DEADLOCK FALSE
INVARIANTS
    TypeOK
    SubscriptionsComplete
    DiesOfLateTopics
    OwedDelivered
PROPERTIES
    Resubscribed
