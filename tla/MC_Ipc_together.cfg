CONSTANTS
    Pipes = {p}
    Clients = {c, d}
    Algos = {zlib}
    Zlib = zlib
    Ciphers = {aes}
    None = none
    MAX_FILES = 2
    Redirects = {}
    MaxKeep = 2
    Together = TRUE
SPECIFICATION Spec
INVARIANT FileSeesItsInput
PROPERTY EveryoneServed
