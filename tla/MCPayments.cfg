SPECIFICATION FairSpec
CONSTANTS
    n1 = n1
    n2 = n2
    Never = Never
    Invalid = Invalid
    Infinite = Infinite
    Huge = Huge
    NoNonce = NoNonce
    Receipts <- MCReceipts
    Recipient = "us"
    Asset = "USDC"
    Network = "xlayer"
    Price = 4
    Ulp = 2
    MaxWall = 1
    MaxEpoch = 1
INVARIANTS TypeOK SingleUse NothingForFree BurntIffAccepted
PROPERTIES ReceiptHonoured
