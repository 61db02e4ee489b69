SPECIFICATION LibrarySpec
CONSTANTS
    Parts = {"services", "mocks", "metadata", "values", "views", "tck"}
    Hosts = {k1, k2}
    Components <- MCComponents
    Identity <- MCIdentity
    Addresses <- MCAddresses
    Metadatas = {m}
    MaxClients = 1
    MaxRequests = 2
    Overlapping = FALSE
    LateComponents = FALSE
    ReusesMetadata = FALSE
    MockCalls = {c1, c2}
    MockValues = {v1, v2}
    MaxEmits = 2
    Habits = {}
    KeyNames = {"ce-subject", "ce-dataschema", "source", "other"}
    Spellings = {"lower", "mixed"}
    TextValues = {"self", "t"}
    BufferValues = {}
    Attributes <- MCAttributes
    SourceKey <- MCSourceKey
    ServiceKey <- MCServiceKey
    HttpKey <- MCHttpKey
    HttpCodes = {99, 100, 599, 600}
    ClaimTexts <- MCClaimTexts
    MaxEntries = 3
    SetsDataschema = FALSE
    HasEmptyEntries = FALSE
    Contents = {"zero", "x"}
    MessageTypes = {"M", "N"}
    ObjectTypes = {"none", "t"}
    MaxKeys = 3
    Subjects = {"s1", "s2"}
    MaxEvents = 3
    MaxFailures = 2
    HandlerResults = {"row", "undefined", "throws", "unserializable"}
    Services <- MCServices
    Call <- MCCall
    Values <- MCTexts
    Methods <- MCMethods
    MaxSteps = 4
    MaxState = 3
    MixesFailure = FALSE
SYMMETRY HostSymmetry
INVARIANTS
    TypeOK
    MockIsEntity
    ToldIsServed
    WrittenIsRead
    RoundTrip
    RowIsFold
    AnswerShowsState
    AnswersAsAsked
CHECK_DEADLOCK FALSE
