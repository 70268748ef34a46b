\* Both modes, two messages, two bytes in each descriptor.
SPECIFICATION FairSpec
CONSTANTS
    Messages <- MCMessages
    MSGBUF_SIZE = 13
    max_message_size = 20
    WORD = 32
    Modes = {FALSE, TRUE}
    Pipe = 2
    NoMsg = NoMsg
    MaxMessages = 2
INVARIANT InBounds
PROPERTY ImplementsFifo
CHECK_DEADLOCK FALSE
