\* Three databases; DATABASE_URL comes and goes between starts.
CONSTANTS
    Database = {home, d1, d2}
    Default = home
    Row = {r1, r2}
    Foreign = {r1}
    Id = {m1, m2}
    None = None
    DatabaseURL = {None, home, d1, d2}
    RenameMayRevert = TRUE
SYMMETRY Symmetry
SPECIFICATION Spec
INVARIANTS TypeOK ActiveIsTruth OccupiedKept
PROPERTIES DataStoreImplemented
