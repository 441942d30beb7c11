\* DATABASE_URL may name the target of an unfinished migration.
CONSTANTS
    Database = {home, d1}
    Default = home
    Row = {r1, r2}
    Foreign = {r1}
    Id = {m1}
    None = None
    DatabaseURL = {None, d1}
    RenameMayRevert = FALSE
SPECIFICATION Spec
INVARIANTS OnlyOwnCopiesReplaced
