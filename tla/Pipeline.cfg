\* Two requests under way; a window admits two requests of an address and sees three.
CONSTANTS
    c1 = c1
    c2 = c2
    proxy = proxy
    null = null
    Requests = {r1, r2}
    Clients = {c1, c2}
    Addresses = {c1, proxy}
    AddressOf <- MCDirect
    Inputs <- MCInputs
    rateLimitMaxRequests = 2
    MaxHits = 3
SPECIFICATION FairSpec
INVARIANTS
    TypeOK
    HandlersSeeCheckedInput
    RejectedIsNotHandled
    WindowQuota
PROPERTY
    EveryRequestAnswered
