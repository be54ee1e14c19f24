SPECIFICATION Spec
CONSTANTS
    p1 = p1
    p2 = p2
    p3 = p3
    scan = scan
    b1 = b1
    b2 = b2
    pay1 = pay1
    pay2 = pay2
    ret1 = ret1
    ret2 = ret2
    acct2 = acct2
    emp = emp
    shop = shop
    row = row
    guide = guide
    readme = readme
    ann = ann
    bob = bob
    Products = {p1, p2, p3}
    Uploads = {scan}
    Baskets = {b1, b2}
    Payments = {pay1, pay2}
    Returns = {ret1, ret2}
    Accounts = {acct2}
    Employees = {emp}
    Stores = {shop}
    Archive = {row}
    Docs = {guide}
    Readmes = {readme}
    Customers = {ann, bob}
    OwnerOf <- MCOwnerOf
    PaymentOf <- MCPaymentOf
    StoreOf <- MCStoreOf
    ItemsOn <- MCItemsOn
    Requests <- MCRequests
\* The references are computed once.
CHECK_DEADLOCK FALSE
INVARIANTS
    TypeOK
    RefusalCitesNoForeign
    OnlyCitable
    CountIsGrounded
    ExcludedStayOut
    CitedRowsSurvive
