SPECIFICATION FairSpec
CONSTANTS
    service = service
    mailbox = mailbox
    Senders = {service}
    Outbox <- Replies
    HEADER = 2
    Usable = 2
    Room = 3
    AnyLength <- Lengths
INVARIANTS Whole Fits
PROPERTIES Delivered ImplementsPipe
CHECK_DEADLOCK FALSE
