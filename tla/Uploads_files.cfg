SPECIFICATION FairSpec
CONSTANTS
    r1 = r1
    r2 = r2
    r3 = r3
    f1 = f1
    f2 = f2
    o1 = o1
    None = None
    Requests <- ThreeRequests
    Files <- OneFile
    Users <- OneOwner
    Categories <- SomeCategories
    MimeTypes <- SomeMimes
    Sizes <- SomeSizes
INVARIANTS
    TypeOK
    ServedIsStored
    StatusMatchesDeletion
    SignaturesShown
PROPERTIES
    StatusMovesForward
    DeletedObjectsGo
