SPECIFICATION Spec
CONSTANTS
    server = server
    cli = cli
    s1 = s1
    s2 = s2
    c1 = c1
    inv = inv
    junk = junk
    idInv = idInv
    idJunk = idJunk
    hint = hint
    Nobody = Nobody
    Procs = {server, cli}
    Workers = {s1, s2, c1}
    ProcOf <- MCProcOf
    Docs = {inv, junk}
    NaturalId <- MCNaturalId
    Verdict <- MCVerdict
    Hints = {hint}
    Requests <- MCRequests
    Legacy <- MCLegacy
    MaxCrashes = 2
SYMMETRY Handlers
INVARIANTS
    TypeOK
    UniqueExternalIds
    ChainComplete
    AnswersAreTrue
    EditsAreDetected
PROPERTIES
    AppendOnly
    LedgerSpec
