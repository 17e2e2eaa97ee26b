SPECIFICATION Spec
CONSTANTS
    Field <- MCField
    FileLists <- ForgetLists
    Requests <- ForgetRequests
    Names <- MCNames
    Cube = "cube"
    Torn = Torn
    Garbage <- Zeroed
    CanCrash <- CubeRuns
    MaxRuns = 3
INVARIANTS TypeOK ReturnedIndexIsSound
PROPERTIES AppendForgetsNothing AddsAllButATail
