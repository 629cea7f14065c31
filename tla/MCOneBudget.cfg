SPECIFICATION Spec
CONSTANTS
    Models = {m, n}
    Loras = {l}
    ModelShas = {x, y, w}
    LoraShas = {z}
    Threads = {t1}
    NoId = NoId
    NoSha = NoSha
    NoFile = NoFile
    Corrupt = Corrupt
    SizeOf <- MCSizeOf
    OVERHEAD = 1
    QUOTA = 4
    MaxDownloads = 3
CHECK_DEADLOCK FALSE
INVARIANT OneBudget
