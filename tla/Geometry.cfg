\* Any two numbers that a server may name, in four-bit arithmetic.
SPECIFICATION Spec
CONSTANTS
    Word = 16
    MaxChunk = 4
    MaxCount = 4
    Sizes <- FileSizes
    Claims <- Numbers
    Wants = {1, 3}
CHECK_DEADLOCK FALSE
INVARIANTS
    Partition
    WholeFile
