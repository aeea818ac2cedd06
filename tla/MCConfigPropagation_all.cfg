SPECIFICATION PartSpec
CONSTANTS
  Handlers = {h1, h2}
  Vals <- Bits
  Initial = 0
  Requests <- MCRequests
  MaxRequests = 3
  MaxFaults = 2
  WithoutAGC = WithoutAGC
  None = None
  Broken = Broken
  Nothing = Nothing
INVARIANTS ChangesArrive DetectorMatches
PROPERTIES RequestsAnswered SourceRecovers SettingsSurvive
CHECK_DEADLOCK FALSE
