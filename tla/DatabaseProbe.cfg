SPECIFICATION ProbedSpec
CONSTANTS
    Field <- MCField
    FileLists <- MCLists
    Requests <- MCRequests
    Names <- MCNames
    Cube = "cube"
    Torn = Torn
    Garbage <- Zeroed
    CanCrash <- MCRequests
    MaxRuns = 3
    Filter <- MCFilter
    Sight <- MCSight
    Archive <- MCArchive
    ProbeLists <- MCProbeLists
    NoFile = ""
INVARIANTS IndexSound ProbeTypeOK ProbedIsStored FindsEachOnce
PROPERTIES ProbeEnds SaveKeepsAndAdds
