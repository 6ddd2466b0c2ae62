SPECIFICATION FairSpec
CONSTANTS
    m1 = m1
    m2 = m2
    c1 = c1
    c2 = c2
    c3 = c3
    NULL = NULL
    Machines = {m1, m2}
    Boxes = {0, 1}
    Clients = {c1, c2, c3}
    Machine <- MCMachine
    Destinations <- MCDestinations
    MaxMail = 3
INVARIANTS OneSendAtATime AcknowledgedMeansReceived
PROPERTIES ImplementsMail MailTestEnds
CHECK_DEADLOCK FALSE
