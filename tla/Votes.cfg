SPECIFICATION FairSpec
CONSTANTS
    p1 = p1
    p2 = p2
    no = no
    yes = yes
    other = other
    Guest = Guest
    None = None
    Player <- TwoPlayers
    Option <- ThreeOptions
    Rules <- AllRules
    Threshold = 50
    May <- Nothing
    MaxVotes = 2
INVARIANTS OneVote Elected
PROPERTY VotingEnds
CHECK_DEADLOCK FALSE
