SPECIFICATION Spec
CONSTANTS
    n1 = n1
    n2 = n2
    n3 = n3
    c1 = c1
    c2 = c2
    None = None
    Node <- ThreeNodes
    Call <- TwoCalls
    May <- Troubles
    MaxFaults = 3
SYMMETRY Alike
INVARIANTS TimeoutNeedsFault ListenersAreCalls
PROPERTIES RemoteCallSpec
CHECK_DEADLOCK FALSE
