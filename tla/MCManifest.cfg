\* The release as shipped and five edits of it, in any order with runs of the
\* script, one of them cut short, and deployments.
SPECIFICATION Spec
CONSTANTS
    Missing = Missing
    Torn = Torn
    Nobody = Nobody
    ExecutionSkills <- TradingSkills
    Allowlist <- VettedSkills
    OkxSkills <- OkxDataSkills
    DexSkills <- DexDataSkills
    AttestKey = "runeclaw_attest_key"
    Signed = "runeclaw_signed"
    NoSkill = "none"
    Sources <- MCSources
    DefaultPrice <- FlatPrice
    Placeholders = "placeholders"
    Operator = "operator"
INVARIANTS TypeOK ListingIsServed ListsNothingThatTrades
