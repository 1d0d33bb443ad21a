CONSTANTS
    c1 = c1
    NoClient = NoClient
    Clients <- OneClient
    BufSize = 2
    InboxSize = 2
    MaxVersion = 4
SPECIFICATION LiveSpec
CHECK_DEADLOCK FALSE
 
PROPERTIES GoodbyeIsLast ConnectionsClose ClientsAreKept
