\* A client lists a directory of three possible names, with buffers for
\* a dot, two records and everything.
SPECIFICATION EnumFairSpec
CONSTANTS
    Order <- MCOrder
    Queries <- MCQueries
    MinRune <- MCMinRune
    Single <- MCSingle
    Composed <- MCComposed
    Ascii <- MCAscii
    FixedSize <- MCFixedSize
    MaxIOSize = 20
    MaxScans = 2
    MaxChanges = 2
INVARIANTS EntriesMatch ListedIsResolvable
PROPERTIES ImplementsListing ListingEnds
