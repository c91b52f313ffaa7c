CONSTANTS
    Paragraphs <- SomeParagraphs
    MaxLength = 3
    PageHeights = {9, 19}
    LineHeight = 5
    ImageHeight = 12
    Spacing = 2
    Tolerance = 1
    BadgeRise = 1
    BadgeSlack = 1
    Task = {"debug", "app"}
    Scoped = {"debug"}
    Letter = {"a", "b", "."}
    Host <- SomeHosts
    AccessDomains <- SomeDomains
    MaxRedirects = 1
    Cap = 3
    ChunkSize = {2}
    EntryLimit = 1
    BodyBudget = 4
    PreviewCap = 2
    MaxRequests = 2
    Feed = {"f"}
    Item = {"a", "b"}
    PageSize = 2
    MaxRuns = 2
    MaxEvents = 3
    Comment = {a, b}
    Cursor = {x, y}
    Start = Start
    MaxGen = 1
    Book = {"a"}
    ShelfFeed <- TwoFeeds
    FeedOf <- OfFirst
    MaxChapters = 2
    MaxChecks = 2
    Buffer = 2
    Id = {"i", "j"}
    PageCursor = {"x"}
    MaxPages = 4
    MaxItems = 4
    Engine = {1, 2}
    Page = {"p", "q"}
    MaxActive = 3
    MaxIndent = 8
    MaxSaves = 2
    MaxParts = 2
    LongText = {"long"}
    MaxBridge = 40
    MaxPrograms = 2
    MaxSource = 3
    Broken = Broken
    Anything = Anything
    Tag = {"p", "text", "script"}
    MaxNodes = 4
    ReadBook = {"a"}
    OtherBook = {"b"}
    ReadChapter = {1, 2}
    MaxCalls = 3
    MaxReports = 1
    MarkBook = {"a", "b"}
    MaxMarks = 2
    MaxMarkCalls = 4
    Numbers = {127, 128, 300, 400}
    FieldNumbers = {0, 15, 16, 30}
    Payloads <- SomePayloads
    MaxFields = 2
    MaxField = 20
    MaxSafeInteger = 300
    MaxMessage = 9
    SampleBytes = {0, 251, 255}
    MaxBytes = 4
    SmallBytes = {1, 2}
    MaxData = 4
    BlockSize = 2
    MaxExpansion = 4
    Absent = Absent
    EntryLists <- SomeEntries
    Chapters <- SomeChapters
    Leaf <- SomeLeaves
    Selector <- SomeSelectors
    Safe = {"a"}
    HexOf <- Hex
    Pairs <- SomePairs
SPECIFICATION Spec
INVARIANTS ScreensTrue BadgesTrue SpinnersDriven PagesTrue RequestsTrue ContentTrue ScriptsTrue
CHECK_DEADLOCK FALSE
