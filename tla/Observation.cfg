CONSTANTS
    c1 = c1
    c2 = c2
    i = i
    j = j
    h1 = h1
    h2 = h2
    t1 = t1
    t2 = t2
    w1 = w1
    w2 = w2
    k1 = k1
    k2 = k2
    k3 = k3
    k4 = k4
    None = None
    Away = Away
    Outside = Outside
    Nowhere = Nowhere
    Gone = Gone
    Blob = Blob
    Unborn = Unborn
    Clients <- MCClients
    MaxEdits = 3
    Slots = 2
    Chunks <- MCChunks
    Budgets <- MCBudgets
    Heads <- MCHeads
    Ancestors <- MCAncestors
    Inventories <- MCInventories
    MaxKnown = 2
    Chats <- MCChats
    Worktrees <- MCWorktrees
    Home <- MCHome
    Backgrounds <- MCBackgrounds
    Fresh = 1
    MaxBindings = 1
    MaxClock = 3
    MaxDeeds = 2
    MaxLists = 1
    Commits <- MCCommits
    Parents <- MCParents
    TopoOrder <- MCOrder
    RefOrder <- MCRefs
    Kind <- MCKind
    MaxRefs = 2
    MaxCommits = 3
SYMMETRY MCSymmetry
SPECIFICATION Spec
INVARIANTS
    AnswersCurrent
    CapturesAgree
    RewritesShown
    PassengersHonest
    TopologyHonest
PROPERTY
    ViewNeverStepsBack
CHECK_DEADLOCK FALSE
