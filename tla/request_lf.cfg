CONSTANTS
    LineDelims <- OnlyLF
    MaxLines = 4
SPECIFICATION Spec
INVARIANTS RequestLineRead HostRead LengthRead CrStaysInVersion
PROPERTIES RequestLineStable
CHECK_DEADLOCK FALSE
