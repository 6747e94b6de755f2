SPECIFICATION Spec
CONSTANTS
    service = service
    mailbox = mailbox
    Senders = {service, mailbox}
    Outbox <- RepliesAndMessages
    HEADER = 1
    Usable = 2
    Room = 3
    AnyLength <- Lengths
INVARIANT Whole
CHECK_DEADLOCK FALSE
