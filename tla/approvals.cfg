SPECIFICATION FairSpec
CONSTANTS
    Docs = {inv}
    Requests = {r1, r2}
    Calls = {c1, c2}
    NoRow = NoRow
    MaxVersion = 1
    Stamps <- StampValues
INVARIANTS GrantIsCurrent PostedByGrant
PROPERTY CallsEnd
