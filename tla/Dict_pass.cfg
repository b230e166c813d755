\* fds 3, 19 (0x13) and 275 (0x113) collide on nibble 0 and 19/275 on
\* nibble 1, so chains of buckets down to level 2 form; fd 4 is deleted
CONSTANTS
    Keys = {3, 19, 275, 4}
    DelKeys = {4}
    Vals = {v1, v2}
    NULL = NULL
SPECIFICATION Spec
INVARIANT EachVisitsAll
PROPERTY Refines
