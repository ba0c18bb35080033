SPECIFICATION FairSpec
CONSTANTS
    n1 = n1
    n2 = n2
    None = None
    Ghost = Ghost
    Node <- TwoNodes
    Preferred <- JustN1
    NoMaster <- Nobody
    Latest = 1
    CloudDrive = TRUE
    PromptBeats = FALSE
    MaxFaults = 2
    MaxDepth = 2
    MayFail <- AllKinds
INVARIANTS NoOrphanLock ClaimNeedsLock
PROPERTIES NamedUnderLock LeadershipSpec AlwaysMasterAgain HealthyTakeover
