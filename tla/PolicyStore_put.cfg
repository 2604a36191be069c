SPECIFICATION FairSpec
CONSTANTS
    a1 = a1
    a2 = a2
    p1 = p1
    p2 = p2
    t1 = t1
    k1 = k1
    k2 = k2
    x = x
    y = y
    upper = upper
    Admin = {a1, a2}
    Policy = {p1, p2}
    TenantId = {t1}
    Key = {k1, k2}
    PrefixOf <- OnePrefix
    Body <- Bodies
    Storable = {x, y}
    Demo <- DemoRows
    NoRow = NoRow
    MaxWrites = 3
INVARIANTS OneRecord NeverUnlimited EndedKeysStayEnded 
PROPERTY PutsAnswered
CHECK_DEADLOCK FALSE
