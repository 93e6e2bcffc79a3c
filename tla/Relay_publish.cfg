SPECIFICATION Spec
CONSTANTS
    Publishers = {p1, p2}
    Clients = {c1}
    Scripts = {"push-sqlite", "push-update", "push-data"}
    Attach = {"none", "pack"}
    Keep = 2
    MaxPubs = 3
    None = None
SYMMETRY PublisherSymmetry
INVARIANTS TypeOK ManifestFetchable LateFetch NeverTorn
CHECK_DEADLOCK FALSE
