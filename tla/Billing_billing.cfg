SPECIFICATION ReminderSpec
CONSTANTS
    r1 = r1
    r2 = r2
    a1 = a1
    a2 = a2
    upcoming = upcoming
    noon = noon
    None = None
    Requests <- TwoRequests
    Agreements <- TwoAgreements
    Terms <- SomeTerms
    DueDays <- LastDayOrTenth
    Targets <- SomeTargets
    Years <- Calendar
    MaxCalls = 4
    Types <- OneType
    Times <- OneTime
    MaxReminders = 2
SYMMETRY Symmetry
CHECK_DEADLOCK FALSE
INVARIANTS
    TypeOK
    OneBillPerMonth
    GenerationsComplete
    CountsAddUp
    DueInOrder
    RemindersDistinct
PROPERTIES
    GeneratedInTerm
