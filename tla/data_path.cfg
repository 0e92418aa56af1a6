SPECIFICATION FairSpec
CONSTANTS
    Blank = Blank
    addr_a = addr_a
    addr_A = addr_A
    addr_sp_a = addr_sp_a
    addr_a2 = addr_a2
    addr_b = addr_b
    addr_b2 = addr_b2
    plain_text = plain_text
    header_word = header_word
    cell_space = cell_space
    Cells <- MCCells
    WithAt <- MCWithAt
    HeaderWords = {header_word}
    Trimmed <- MCTrimmed
    Lower <- MCLower
    Files <- MCFiles
    Emails <- MCEmails
    Norm <- MCNorm
    Verdict <- MCVerdict
    Txs = {1, 2}
    MaxConns = 2
    PageSize = 1
    Filters = {"risky"}
    Faults = {"write_error", "read_error"}
    BatchSize = 2
    Workers = 2
INVARIANTS
    DataTypeOK
    NoCircularWait
    OldRowsExported
    JobHoldsTheFile
PROPERTIES
    ImplementsResultTable
    ExportIsTheUpload
    EverythingSettles
CHECK_DEADLOCK FALSE
