SPECIFICATION AppSpec
CONSTANTS
    u1 = u1
    u2 = u2
    a1 = a1
    r1 = r1
    r2 = r2
    b1 = b1
    Fans = {u1, u2}
    Authors = {a1}
    Requests = {r1, r2}
    MaxRows = 2
    MaxFailures = 2
    Blogs = {b1}
    v1 = v1
    v2 = v2
    Users = {v1, v2}
    LikeBlogs = {1, 2}
    Clicks = {r1, r2}
    Width = 4
    MaxLikeFaults = 1
    ScrollBlogs = {1, 2, 3, 4}
    PageSize = 2
    MaxTime = 3
    MaxTies = 3
    Readers = {r1, r2}
    Writers = {u1, u2}
    MaxVersion = 3
    MaxShopFaults = 2
    NoShop = NoShop
    Absent = Absent
SYMMETRY Symm
INVARIANTS
    AppTypeOK
    SettledAsAsked
    FansServed
    CountWrongOnlyIfRaced
    ShownOnce
    OnlyCommittedShown
