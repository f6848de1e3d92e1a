CONSTANTS
    a = a  b = b
    Comma = Comma  Space = Space  Unset = Unset  JsonErr = JsonErr  None = None
    Letters <- MCLetters
    EnvMaxLen = 4
    JsonFiles <- MCJsonFiles
    HardcodedAddrs <- MCHardcodedAddrs
    HardcodedInfo <- MCHardcodedInfo

SPECIFICATION Spec

INVARIANT TypeOK
INVARIANT NeverEmpty
INVARIANT GettersAgree
