SPECIFICATION MCSpec
CONSTANTS
    Admins = {a1, a2, a3}
    Requests = {r1, r2}
    None = None
    Apps = {p1, p2}
    Users = {u1}
    Editors = {e1, e2}
    Names = {n1, n2}
    Categories = {k1}
    NoCategory = NoCategory
    Bodies <- MCBodies
    NoApp = NoApp
    Undefined = Undefined
    MaxTime = 1
    DefaultLimit = 2
    MaxLimit = 2
    Unset = Unset
    Owners = {o1, o2}
    Nobody = Nobody
    Admin = Admin
    Contacts = {c1, c2}
    Notifications = {t1, t2}
    Histories = {h1, h2}
    Texts <- MCTexts
    NoDoc = NoDoc
INVARIANTS
    LastAdminStaysAlone
    CatalogueInv
    FavoritesStayVisible
    StoredFitsModel
PROPERTIES
    WritesStayNarrow
    OwnersOnly
CHECK_DEADLOCK FALSE
