\* Every definition over three names, malformed ones included; a header of no
\* width leaves the grid as narrow as it can be.
CONSTANTS
    n1 = n1  n2 = n2  n3 = n3
    Names = {n1, n2, n3}
    Width <- MCWidth
    Height <- MCHeight
    Copies <- MCCopies
    HeaderRows = 2
    HeaderWidth = 0
SPECIFICATION LayoutSpec
INVARIANTS VerdictIsRight LayersGrow NothingIsClipped
