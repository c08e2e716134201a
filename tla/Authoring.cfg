CONSTANTS
    NoRef = NoRef
    None = None
    DefaultAttack = {"direct-ask"}
    Package <- ThePackages
    FreeStage = {1, 2}
    Says <- TheSays
    MaxEdits = 1
    MaxRuns = 2
    p1 = p1
    Run = {r1, r2}
    Target = {p1}
    Spelling <- Spellings
    SlugOf <- Slugs
    Input <- Inputs
    Outcome <- Outcomes
    Starting <- SomeRevisions
    TemplateFile = {f1, f2}
    MaxCommands = 3
    MaxFaults = 1
    MaxChanges = 1
SPECIFICATION BothSpec
INVARIANTS ValidationSuffices SeedConverges RecordsAgree
PROPERTY WorkSurvives
CHECK_DEADLOCK FALSE
