SPECIFICATION Spec
CONSTANTS
    Field <- MCField
    FileLists <- MCFileLists
    Requests <- MCRequests
INVARIANT TypeOK
PROPERTIES DeliversWhatIsAsked HealthyRunSucceeds
