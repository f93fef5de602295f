SPECIFICATION Spec
CONSTANTS
    None = None
    Bytes <- MCBytes
    MaxBytes = 4
    MaxClose = 8
    Runes <- MCRunes
    Codes = {1000, 1002, 1005, 1009, 1011, 3000, 4999}
    MaxReason = 9
    Ends <- MCEnds
    Short = 2
    Medium = 4
    Ceiling = 9
    KeyLen = 2
    Chunk = 3
    Kinds = {"text", "ping"}
    Bodies <- MCBodies
    Masks <- MCMasks
    Declared = {1, 2, 3, 4, 5, 9, 10}
    Writers = {w1, w2}
    Reader = reader
    ReadLimit = 3
    MaxControl = 2
    Payloads <- MCPayloads
    Pings = {"p"}
    Closes = {"normal"}
    Written = {}
    MaxRead = 4
    MaxWrites = 0
    Timeout = 2
    Schemes = {"ws", "http"}
    Origins = {"none", "same", "other"}
    Detours = {"list", "strip", "method", "upgrade", "version", "key", "early", "http2"}
    Canned = {"stale", "plain", "extension", "page"}
    OwnReaders = {TRUE, FALSE}
    MaxClock = 6
    MaxSent = 2
    MaxLosses = 1
INVARIANTS TextExact FramesExact MessagesExact WritesOrdered HandshakeSound
PROPERTY ReadsEnd
CHECK_DEADLOCK FALSE
