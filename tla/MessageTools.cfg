SPECIFICATION Spec
CONSTANTS
    ByteLists <- MCByteLists
    MsgNums <- MCMsgNums
    Garbage <- MCGarbage
INVARIANTS TypeOK InventoryIsFull RefTimeIsOldest SplitIsExact FindsInCleanFiles
PROPERTY ToolsEnd
