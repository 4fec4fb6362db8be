SPECIFICATION PCIeSpec
CONSTANTS
    PCIeModels = {"SPR", "SKX", "HASWELLX", "JAKETOWN"}
    SocketCount = 2
    MaxCollections = 1
    MaxDocuments = 0
INVARIANT ReadsDocumented
CHECK_DEADLOCK FALSE
