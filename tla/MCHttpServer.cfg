CONSTANTS
    c1 = c1
    c2 = c2
    c3 = c3
    empty = empty
    form = form
    loose = loose
    text = text
    PathLength <- Characters
    StaticFiles <- Files
    Directories <- OneDirectory
    Numbers <- TwoNumbers
    Names <- TwoNames
    Types <- TwoTypes
    Contents <- FourContents
    Empty = empty
    Matching <- FormAndLoose
    WellFormed <- OnlyForm
    WellFormedUploads <- OnlyForm
    Clients <- ThreeClients
    Plans <- ThreePlans
    Nobody = Nobody
    File = File
    SafeThreads = 2
    Requests <- TheirRequests
    MaxFds = 2
    MaxLeavers = 1
SPECIFICATION FairSpec
INVARIANTS TypeOK AnswersInOrder ClosedWhenAnswered DescriptorsAreOwned
PROPERTY FilesOpenWithRoom PatientClientsAreServed
CHECK_DEADLOCK FALSE
