SPECIFICATION Spec
CONSTANTS
    ui = ui
    w1 = w1
    w2 = w2
    Endpoint <- StarEndpoint
    Owner <- StarOwner
    Peer <- StarPeer
    Proc = {ui, w1, w2}
    OnlyWhenProcessing <- WebEnds
    ExitOnFailure <- WebEnds
    AsyncSenders <- MainEnd
    SendFlags = {FALSE}
    Delaying = {}
    Timed = {}
    Secondaries = {}
    Opening = {}
    Invalidating = {}
    Crashing = {}
    MaxSends <- OneSend
INVARIANTS NothingStranded
