SPECIFICATION Spec
CONSTANTS
    Platforms <- MCPlatforms
    Metrics = {"PartialWrites", "Pmem", "PmemMemoryMode", "PmemMixedMode"}
    Ranks <- MCRanks
    ImcProfiles <- MCImc
    PcuProfiles <- MCPcu
    CsvPlatforms <- MCCsvPlatforms
    CoreFlags <- MCCoreFlags
    Cores = {0, 1, 2}
    EdcChannels = 1
    Requests <- MCRequests
    MaxRequests = 2
    MaxInput = 8
    RequestLimit = 2
    AnswerLength = 3
    BufSize = 2
    MetricPlatforms <- MCMetricPlatforms
    MaxActivities = 2
    Hosts <- MCHosts
    PCIeModels = {"GNR", "GRR", "SPR", "ICX", "SKX", "HASWELLX", "JAKETOWN"}
    SocketCount = 2
    MaxCollections = 2
    MaxDocuments = 2
    RawEvents <- MCRawEvents
    RawMachines <- MCRawMachines
    RawOptions <- MCRawOptions
    MaxDescriptions = 2
INVARIANTS
    EventsMeetReaders
    CsvAligned
    
    
    DocumentsServe
    
    RawFaithful
CHECK_DEADLOCK FALSE
