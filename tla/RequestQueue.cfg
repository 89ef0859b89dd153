\* Both threads push, as in the server: the service thread and the main loop.
SPECIFICATION FairSpec
CONSTANTS
    Service = Service
    Main = Main
    Pushers <- ServiceAndMain
    Popper = Main
    Capacity = 2
    MaxRequests = 5
    NoRequest = NoRequest
INVARIANTS
    TypeOK
    OverrunBound
PROPERTIES
    EveryStoreIsPaidOut
    ImplementsFifo
