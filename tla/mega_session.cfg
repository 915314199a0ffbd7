SPECIFICATION Spec
CONSTANTS
    A = A
    B = B
    Urls = {A, B}
    Items = {A, B}
    UrlOf <- MCUrlOf
    Account = Account
    NoSession = NoSession
    Scan = Scan
    Download = Download
    Stop = Stop
    Target = Target
    Settle = Settle
    Free = Free
    MaxSelections = 2
    Initially = {Account}
    Unreliable = {"login"}
    MaxBegun = 3
CONSTRAINT Few
SYMMETRY Exchange
INVARIANTS
    WorksInItsFolder
    AccountNotEnded
PROPERTIES
    Arbitrated
    RecordsOpenFolder
    LatestWins
