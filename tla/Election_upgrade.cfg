SPECIFICATION FairSpec
CONSTANTS
    n1 = n1
    n2 = n2
    None = None
    Ghost = Ghost
    Node <- TwoNodes
    Preferred <- Nobody
    NoMaster <- JustN2
    Latest = 2
    CloudDrive = FALSE
    PromptBeats = TRUE
    MaxFaults = 2
    MaxDepth = 4
    MayFail <- UpgradeKinds
PROPERTIES UpgradeEnds NoMasterStepsDown
