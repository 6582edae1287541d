SPECIFICATION LockSpec
CONSTANTS
    o1 = o1
    o2 = o2
    o3 = o3
    n1 = n1
    n2 = n2
    t1 = t1
    t2 = t2
    OfferId = {o1, o2, o3}
    Thread = {n1, n2}
    FirstOffer <- First
    Tx = {t1, t2}
    MaxSales = 2
PROPERTIES AcceptsImplementSale TransactionsEnd
CHECK_DEADLOCK FALSE
