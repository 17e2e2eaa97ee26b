SPECIFICATION Spec
CONSTANTS
    Field <- MCField
    FileLists <- DeliveryLists
    Requests <- AllMessages
    Names <- MCNames
    Cube = "cube"
    Torn = Torn
    Garbage <- Zeroed
    CanCrash = {}
    MaxRuns = 1
INVARIANT AddsEveryGrid
