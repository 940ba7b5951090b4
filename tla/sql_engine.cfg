SPECIFICATION SqlSpec
CONSTANTS
    Dyn = {t1}
    Db = {d1, d2}
    DefaultDb = d1
    Contents <- Tables
    Other = {2, 3}
    Asked <- Statements
    NoLimit = NoLimit
    Pages = {1}
    Slot = {s1, s2}
    Ttl = 2
    Patience = 1
    MaxChanges = 1
INVARIANTS SqlTypeOK OtherAnswersAreRight
PROPERTIES CatalogIsFresh StatementsEnd
