SPECIFICATION Spec
CONSTANTS
    Streams <- MCLimitStreams
    LengthOf <- MCLengthOf
    SizeOf <- MCSizeOf
    ReadSize = 9
    MAX_RECEIVE_BUFFER = 10
    MAX_REQUEST_LINE_SIZE = 2
    MAX_HEADER_LINE_SIZE = 2
    MAX_HEADERS_SIZE = 9
    MAX_HEADER_COUNT = 2
    MAX_BODY_SIZE = 3
INVARIANTS
    LimitsIgnoreCuts
