\* The instance of MCPlatform.cfg, asked whether a reply without a verdict ends a
\* review: ends in a counterexample (README, 5).
SPECIFICATION MCSpec
SYMMETRY Alike
CONSTANTS
    n1 = n1
    n2 = n2
    NoName = NoName
    r1 = r1
    r2 = r2
    mail = mail
    read = read
    file = file
    NoTool = NoTool
    t1 = t1
    t2 = t2
    s1 = s1
    s2 = s2
    s3 = s3
    s4 = s4
    public = public
    guarded = guarded
    clerk = clerk
    scan = scan
    letter = letter
    o1 = o1
    o2 = o2
    NoOrder = NoOrder
    Malformed = Malformed
    Keyless = Keyless
    Name = {n1, n2}
    Request = {r1, r2}
    Process = {p1}
    TTL = 2
    Tool = {mail, file, read}
    RiskOf <- MCRiskOf
    Thread = {t1, t2}
    SpecOf <- MCSpecOf
    Asker = {r1, r2}
    Question = {q1}
    MaxGeneration = 2
    \* The token names a role the administrator also gives, and one more.
    Role = {"member", "approver"}
    TokenRoles = {"member", "approver"}
    Admin = {ad1}
    MaxRows = 2
    Suite <- MCSuite
    Size = {0, 1, 20}
    Step <- MCStep
    Trigger = {"schedule", "manual"}
    MaxSteps = 3
    Collection = {public, guarded}
    Agent = {clerk}
    AgentLevel <- MCAgentLevel
    File = {scan, letter}
    Home <- MCHome
    IsImage <- MCIsImage
    HasPii <- MCHasPii
    Tokens <- MCTokens
    Settings <- MCSettings
    TopK = 2
    TotalTokenCap = 3
    Highest = 3
    MaxTokens = 3
    MaxWords = 7
    MaxParagraphs = 4
    Length = 4
    LabelLength = {1, 3}
    MaxItems = 2
    Excerpts = {0, 2}
    Order = {o1, o2}
    OrderAmount <- MCOrderAmount
    Amount = {0, 1, 98, 99, 101, 102}
    Figure = {7, 100, 101, 102}
    Criterion = {"python", "sql"}
INVARIANTS
    SilenceIsNotClean
\* Recipes, texts, evaluations and reviews end.
CHECK_DEADLOCK FALSE
