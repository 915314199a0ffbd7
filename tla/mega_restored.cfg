SPECIFICATION Spec
CONSTANTS
    A = A
    B = B
    Urls = {A, B}
    Items = {A, B}
    UrlOf <- MCUrlOf
    Account = Account
    NoSession = NoSession
    Scan = Scan
    Download = Download
    Stop = Stop
    Target = Target
    Settle = Settle
    Free = Free
    MaxSelections = 2
    Initially = {Account}
    Unreliable = {}
    MaxBegun = 2
CONSTRAINT Few
INVARIANT SessionRestored
