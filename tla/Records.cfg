SPECIFICATION Spec
SYMMETRY Symmetry
CONSTANTS
    r1 = r1
    r2 = r2
    d1 = d1
    d2 = d2
    u1 = u1
    u2 = u2
    acme = acme
    acmeLtd = acmeLtd
    zenith = zenith
    Docs <- TwoDocs
    DocRequests <- TwoRequests
    MaxVersion = 3
    Users <- TwoUsers
    Founder = u1
    AdminRequests <- TwoRequests
    Codes = {1, 2}
    Rows <- TwoDocs
    SignIns <- TwoRequests
    MaxTries = 1
    People <- TwoUsers
    Invitations <- TwoDocs
    TeamRequests <- TwoRequests
    Comments = {1, 2, 3}
    Reactors <- OneReactor
    Posts <- TwoRequests
    Names <- ThreeNames
    Alike <- SameFirm
    Files <- TwoDocs
    NameRequests <- TwoRequests
    Hours = {"four"}
    Weekdays = {"monday", "friday"}
    Levels = {1, 2, 3}
    Patches <- TwoRequests
INVARIANTS
    VersionsCollideOnlyByOverlap
    RowsHaveWhatTheyName
    AdminsRunOutOnlyByOverlap
    CodesAreSpentOnce
    AddressForksForAReason
    GoogleFailsForAReason
    InvitationsAreSpentOnce
    TogglesAddUp
    ThreadsHideOnlyUnderDeleted
    ProjectsForkOnlyByOverlap
    ValidatedIsStored
CHECK_DEADLOCK FALSE
