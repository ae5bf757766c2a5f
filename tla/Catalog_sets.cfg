CONSTANTS
    MaxRequests = 2
    TagNames = {"t1", "t2", "t3"}
    LanguageKeys = {"py", "c"}
    Titles <- MCTitles
    Edits <- MCEdits
    TagLists <- MCTagLists
    LanguageLists <- MCLanguageLists
    Filters <- MCFilters
    Seed <- MCSeed
    SlugAttempts = 3
    DefaultLimit = 2
    MaxLimit = 2
    PageSize = 1
    MaxProblems = 5
    MaxTests = 4
    MaxSubmissions = 1
    Faults = {"db", "ai"}
SPECIFICATION Spec
PROPERTIES
    TagsReplaced
