CONSTANTS
    r1 = r1  r2 = r2
    home = home  shop = shop
    a = a  c = c
    NoRequest = NoRequest
    Requests <- TwoRequests
    Pages <- Home
    PageOf <- AllHome
    PlainTags <- TagA
    CoalescedTags <- TagC
CHECK_DEADLOCK FALSE
SPECIFICATION FairSpec
PROPERTY StreamCloses
