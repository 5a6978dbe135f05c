\* One call is enough: a number that int() cannot hold.
SPECIFICATION Spec
CONSTANTS
    Absent = Absent
    Text = Text
    Infinite = Infinite
    Shapeless = Shapeless
    Falsy = Falsy
    NoTool = NoTool
    NoSkill = NoSkill
    NoRequest = NoRequest
    NoAttestation = NoAttestation
    Catalogues <- MCCatalogues
    ExecutionSkills <- TradingSkills
    Allowlist <- VettedSkills
    OkxSkills <- OkxDataSkills
    DexSkills <- DexDataSkills
    AttestKey = "attest_key"
    Signed = "signed"
    Lo = 1
    Hi = 3
    Requests <- MCRequests
    Calls = {c1}
    MaxEpoch = 1
INVARIANTS BadNumberIsAnswered
CHECK_DEADLOCK FALSE
