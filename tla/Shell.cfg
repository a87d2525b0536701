SPECIFICATION MCSpec
CONSTANTS
    Builtins = {b}
    Registers <- MCRegisters
    Files = {f}
    Depth = 3
    MaxLines = 2
    Room = 2
    Floor = 2
    Every = 2
    Texts = {t1, t2}
    Others = {"other"}
    Data <- MCData
    Size = 2
    Before <- MCBefore
    Stale = 1
    Alphabets <- MCAlphabets
    Longest = 5
    Width = 4
    Half = 2
    Model = 1
    Vendor = 2
    Sources <- MCSources
    Idents <- MCIdents
INVARIANTS RegistryIsTrue OutputIsInOrder FilesSurvive TextIsTakenApart TransferIsHonest PartsAreNamed
PROPERTIES FailureStopsAll WaitsEnd
