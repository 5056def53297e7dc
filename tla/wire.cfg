SPECIFICATION FairSpec
CONSTANTS
    Base = 4
    Text = {2, 3}
    Message <- Messages
    PingBytes <- Ping
    MAX_MESSAGE_SIZE = 12
    Fragmented = FALSE
    MaxMessages = 4
PROPERTIES
    WholeMessages
    ArrivedIsReceived
CHECK_DEADLOCK FALSE
