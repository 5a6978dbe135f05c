SPECIFICATION Spec
CONSTANTS
    tok = tok
    padded = padded
    blank = blank
    wrong = wrong
    umlaut = umlaut
    n1 = n1
    n2 = n2
    None = None
    NoToken = NoToken
    Never = Never
    Invalid = Invalid
    Infinite = Infinite
    Huge = Huge
    NoNonce = NoNonce
    Reqs = {r1, r2}
    Kinds <- PriceKinds
    Tokens = {tok, padded, blank, wrong, umlaut, NoToken}
    ServerToken = tok
    NonAscii = {umlaut}
    Strip <- MCStrip
    AdvertisedPrice <- MCPrice
    LimitArg = 0
    Window = 2
    TicksPerSecond = 1
    MaxTime = 2
    Receipts <- MCReceipts
    Recipient = "us"
    Asset = "USDC"
    Network = "xlayer"
    Price = 2
    Ulp = 1
    MaxWall = 1
    MaxEpoch = 1
INVARIANTS AdvertisedPricePaid
