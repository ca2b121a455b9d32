SPECIFICATION PagingSpec
CONSTANTS
  NumTerminals = 3
  NumProcesses = 5
  BASE_SHELL = 24
  Environment <- Disciplined
INVARIANT NoStaleTranslation
INVARIANT ProgramsApart
PROPERTY VideoPageRecovers
