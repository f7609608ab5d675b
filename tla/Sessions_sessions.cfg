SPECIFICATION Spec
CONSTANTS
    r1 = r1
    r2 = r2
    o1 = o1
    o2 = o2
    mail = mail
    phone = phone
    None = None
    Requests <- TwoRequests
    Users <- TwoUsers
    Identifiers <- MailAndPhone
    Contact <- SharedPhone
    MaxAttempts = 2
    MaxCalls = 6
    MaxRecords = 2
SYMMETRY Symmetry
CHECK_DEADLOCK FALSE
INVARIANTS
    TypeOK
    SessionsKnowPassword
    AccountsDistinct
    SettledStayClosed
    OpenCodesSent
    MistakesBounded
    SpentOnce
PROPERTY ImplementsCredentials
