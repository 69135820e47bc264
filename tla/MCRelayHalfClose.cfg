SPECIFICATION Spec
CONSTANTS
    MAX_BUFFER = 1
    WINDOW = 1
    MaxRequest = 1
    MaxResponse = 2
    MaxFailovers = 0
INVARIANT ResponseComplete
