SPECIFICATION FairSpec
CONSTANTS
    c1 = c1
    c2 = c2
    Conns = {c1, c2}
    NoConn = NoConn
    Messages = {1, 2, 3}
    Calls <- MCCalls
    Sync <- MCSync
    Size <- MCSize
    ReplySizes <- MCReplySizes
    FragmentChunkSize = 2
    MaxFramePayloadLen = 3
    MaxMessageSize = 3
INVARIANTS TypeOK ReceivedAsWritten AnswerBelongsToCall 
PROPERTY HungUpIsReleased
CHECK_DEADLOCK FALSE
