SPECIFICATION Spec
CONSTANTS
    Calls = {c1, c2}
    Probes = {p1, p2}
    Nobody = Nobody
    Catalogs <- MCCatalogs
    MaxBatch = 1
    MaxTail = 1
    MaxTasks = 2
    Nothing = Nothing
    CapMax = 1
    MaxInputs = 4
SYMMETRY Symmetry
INVARIANTS
    RestartIsAbsorbed
    CatalogIsOneAnswer
    AlertPerOutage
    EventsAccounted
    RefusalsReported
