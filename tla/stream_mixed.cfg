CONSTANTS
    r1 = r1  r2 = r2
    home = home  shop = shop
    a = a  c = c
    NoRequest = NoRequest
    Requests <- TwoRequests
    Pages <- Both
    PageOf <- HomeAndShop
    PlainTags <- TagA
    CoalescedTags <- TagC
CHECK_DEADLOCK FALSE
SPECIFICATION FairSpec
INVARIANTS TypeOK ClosedAfterLastSend CompleteUnlessDropped OneFlight SharedAlike
PROPERTIES WriterProceeds SendersEnd Gathers
