SPECIFICATION Spec
CONSTANTS
    ui = ui
    w1 = w1
    w2 = w2
    Endpoint <- StarEndpoint
    Owner <- StarOwner
    Peer <- StarPeer
    Proc = {ui, w1}
    OnlyWhenProcessing <- WebEnds
    ExitOnFailure <- WebEnds
    AsyncSenders = {}
    SendFlags = {FALSE}
    Delaying <- MainEnd
    Timed <- UIEnds
    Secondaries <- WebEnds
    Opening <- WebEnds
    Invalidating <- UIEnds
    Crashing = {w1}
    MaxSends <- OneTwo
INVARIANTS ConnectionInv EarlierMessagesFirst
PROPERTIES SendSyncEnds ImplementsSyncCall
