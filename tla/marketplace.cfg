SPECIFICATION Spec
CONSTANTS
    User = {u1, u2}
    u1 = u1
    u2 = u2
    Request = {h1, h2}
    h1 = h1
    h2 = h2
    None = None
    Nowhere = Nowhere
    NoType = NoType
    Name <- MCName
    Alias <- MCAlias
    Zone = {}
    Hub <- MCHub
    Closest <- MCClosest
    RawCorridors <- MCCorridors
    Offers <- MCOffers
    Rating <- MCRating
    Step = 30
    MaxTime = 60
    MaxPosts = 3
    MaxRatings = 2
    Stars = {5}
SYMMETRY Interchangeable
INVARIANTS TypeOK NoTwinLoads OneEach MatchedHasMatch NothingMissed ForwardFirst 
CHECK_DEADLOCK FALSE
