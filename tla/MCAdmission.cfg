SPECIFICATION Spec
CONSTANTS
    Scale = 2
    Catalogue <- MC_Catalogue
    ProviderStatuses <- MC_Statuses
    Prices <- MC_Prices
    SearchUsd = 1
    MAX_PAID_REQUEST_BYTES = 1
    MaxTokens = 1
    MaxImages = 2
    MaxParts = 2
INVARIANTS
    ProviderSpared
    ClientNotBlamed
    CoversListed
    FlagReachesRelay
CHECK_DEADLOCK FALSE
