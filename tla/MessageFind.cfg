SPECIFICATION Spec
CONSTANTS
    ByteLists <- TdlpLists
    MsgNums <- MCMsgNums
    Garbage <- MCGarbage
INVARIANT FindsWhatIsListed
