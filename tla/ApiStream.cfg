SPECIFICATION StreamSpec
CONSTANTS
    MaxRetries = 1
    Calls = 2
    Pieces = 2
    MaxChunks = 4
INVARIANTS MessageIsOfLastAttempt
PROPERTIES StreamEnds
