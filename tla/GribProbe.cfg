SPECIFICATION Spec
CONSTANTS
    Field <- MCField
    FileLists <- MCFileLists
INVARIANT TypeOK
PROPERTY ProbesAllButATail
