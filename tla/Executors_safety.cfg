CONSTANTS
    Calls = {c1}
    Languages = {"python", "go", "cobol"}
    DefaultLanguages = {"python", "go"}
    LanguageList = {"go"}
    FileLanguages = {"go"}
    Expected <- MCExpected
    Answers = {"yes", "no"}
    NoAnswer = NoAnswer
    Ends = {"ok", "slow", "crash", "probe"}
    Printed <- MCPrinted
    Backends = {"docker", "firecracker"}
    AllowStubExecutor = TRUE
    Faults = {"disk", "daemon", "vmm", "crash"}
    MaxBoots = 3
    NoVerdict = NoVerdict
SPECIFICATION LiveSpec
INVARIANTS
    NoLeftovers
    VerdictExplained
    PairConsistent
PROPERTIES
    CallsReturn
