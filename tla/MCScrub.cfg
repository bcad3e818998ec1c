SPECIFICATION FairSpec
CONSTANTS
    e1 = e1
    e2 = e2
    e3 = e3
    b1 = b1
    b2 = b2
    b3 = b3
    txt = txt
    raw = raw
    quoted = quoted
    other = other
    None = None
    Err <- Errors
    Box <- Boxes
    Text = {txt}
    Target <- Targets
    Length <- Lengths
    Within <- Parts
    Graph <- Graphs
    Broken <- Raising
    MaxDepth = 2
INVARIANTS ScrubTypeOK ScrubbedAll
PROPERTIES WorkBounded Terminates
CHECK_DEADLOCK FALSE
