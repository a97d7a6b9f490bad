\* Both clients reach the server through the same proxy.
CONSTANTS
    c1 = c1
    c2 = c2
    proxy = proxy
    null = null
    Requests = {r1}
    Clients = {c1, c2}
    Addresses = {proxy}
    AddressOf <- MCProxied
    Inputs <- MCInputs
    rateLimitMaxRequests = 2
    MaxHits = 3
SPECIFICATION Spec
INVARIANT
    QuotaIsPerClient
