\* Three calls over two processes, for each kind of configured seed.
SPECIFICATION Spec
CONSTANTS
    Absent = Absent
    Text = Text
    Infinite = Infinite
    Shapeless = Shapeless
    Falsy = Falsy
    NoTool = NoTool
    NoSkill = NoSkill
    NoRequest = NoRequest
    NoAttestation = NoAttestation
    Catalogues <- MCCatalogues
    ExecutionSkills <- TradingSkills
    Allowlist <- VettedSkills
    OkxSkills <- OkxDataSkills
    DexSkills <- DexDataSkills
    AttestKey = "attest_key"
    Signed = "signed"
    Lo = 1
    Hi = 3
    Requests <- MCRequests
    Calls = {c1, c2, c3}
    MaxEpoch = 1
SYMMETRY CallSymmetry
INVARIANTS TypeOK NeverExecutes SkillsSeeBounds OneKey SignsOnlyRuns VerifiedIsGenuine GenuineVerifies
CHECK_DEADLOCK FALSE
