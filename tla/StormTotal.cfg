SPECIFICATION Spec
CONSTANTS
    Field <- MCField
    FileLists <- MCFileLists
    Windows <- MCWindows
    missPri = 9999
    None = None
INVARIANTS TypeOK TotalsTheWindow TellsAnEmptyWindow
PROPERTY Terminates
