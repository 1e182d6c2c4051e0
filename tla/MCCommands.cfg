SPECIFICATION Spec
CONSTANTS
    a1 = a1
    a2 = a2
    b1 = b1
    NoNumber = NoNumber
    Files <- TwoFiles
    Stale <- OneStale
    Texts <- SomeTexts
    Blank <- BlankTexts
    Numbers <- SomeNumbers
CHECK_DEADLOCK FALSE
INVARIANTS
    TypeOK
    RequestFitsTool
    ExitZeroDone
    ExitOneUntouched
    InstalledWhole
