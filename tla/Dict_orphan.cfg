\* sockets with fds 3 and 19 (0x13) in socks_by_fd; either may be closed
CONSTANTS
    Keys = {3, 19}
    DelKeys = {3, 19}
    Vals = {v1}
    NULL = NULL
SPECIFICATION Spec
PROPERTY Refines
