SPECIFICATION StoresSpec
CONSTANTS
    Clients = {c1, c2}
    Configs <- MCConfigs
    MaxTurns = 3
    MaxLog = 5
    WindowCount = 2
    Preserve = 0
    Holders = {h1, h2}
    MaxCalls = 6
    MaxExpiries = 1
SYMMETRY AnyClient
  
PROPERTIES TranscriptContract SummaryContract AppendExtendsRead RecordContract
