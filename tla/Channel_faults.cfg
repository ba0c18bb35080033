SPECIFICATION FirstSpec
CONSTANTS
    n1 = n1
    n2 = n2
    Master = Master
    Node <- TwoNodes
    MaxMessages = 2
    MaxRetries = 1
    MaxFaults = 1
    MaxSwitches = 1
    MaxCloses = 1
    MaxEvents = 2
INVARIANT NoLoss
INVARIANT OnceWhenHealthy
PROPERTY MailboxSpec
PROPERTY EventuallyHandled
CHECK_DEADLOCK FALSE
