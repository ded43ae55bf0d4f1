CONSTANTS
    Cli = cli
    Players = {p1, p2}
    None = none
    Torn = torn
    Budgets <- Mixed
SPECIFICATION FairSpec
INVARIANTS TypeOK UnsavedHandedOver NotBehindTheFile 
PROPERTIES BackupIsPrevious OnlySavesWriteRender ComesBack
CHECK_DEADLOCK FALSE
