SPECIFICATION MemoryRagSpec
CONSTANTS
    Tick = 2
    Score <- MCScore
    MaxScore = 2
    Clients = {c1, c2}
    Contexts <- MCContexts
    Values <- MCValues
    Queries <- MCQueries
    Scenarios <- MCScenarios
    Generated <- MCGenerated
    PageSize = 2
    Writers = {w1, w2}
    Sources = {"a.md", "b.md", "c.bin"}
    Supported = {"a.md", "b.md"}
    Allowed = {"a.md", "c.bin"}
    Batches <- MCBatches
    Lengths <- MCLengths
    ChunkSize = 3
    Overlap = 1
    Concurrency = {1, 2}
    ChunkScore <- MCChunkScore
    MaxResults = 2
    Threshold = 2
    SearchLimit = 4
    MaxIngests = 2
SYMMETRY AnyClient
INVARIANTS ForgottenStaysForgotten RecallFaithful 
 
