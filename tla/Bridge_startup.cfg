SPECIFICATION Spec
CONSTANTS
    good = good
    bad = bad
    r1 = r1
    p1 = p1
    Empty = Empty
    NoProject = NoProject
    Loader = Loader
    Nobody = Nobody
    Projects <- GoodAndBad
    Buildable <- CanBeBuilt
    Requests <- OneRequest
    Pages <- OnePage
    MaxInstances = 2
    MaxEdits = 1
    MaxStops = 1
INVARIANT WebsiteComesUp
