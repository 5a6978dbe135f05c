\* Three requests, a limit of 2: two can be admitted in one window and race
\* for one receipt while the third is refused.
SPECIFICATION Spec
CONSTANTS
    tok = tok
    padded = padded
    blank = blank
    wrong = wrong
    umlaut = umlaut
    n1 = n1
    n2 = n2
    None = None
    NoToken = NoToken
    Never = Never
    Invalid = Invalid
    Infinite = Infinite
    Huge = Huge
    NoNonce = NoNonce
    Reqs = {r1, r2, r3}
    Kinds <- MCKinds
    Tokens = {tok, padded, blank, wrong, umlaut, NoToken}
    ServerToken = tok
    NonAscii = {umlaut}
    Strip <- MCStrip
    AdvertisedPrice <- MCPrice
    LimitArg = 2
    Window = 1
    TicksPerSecond = 1
    MaxTime = 1
    Receipts <- MCReceipts
    Recipient = "us"
    Asset = "USDC"
    Network = "xlayer"
    Price = 2
    Ulp = 1
    MaxWall = 1
    MaxEpoch = 1
INVARIANTS TypeOK FailClosed OwnerIsAdmitted StrangersLeaveNoTrace ChargedOnlyAdmitted ReceiptsBalance
PROPERTIES ComponentsKept SellsCalls Decided
