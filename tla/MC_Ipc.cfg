CONSTANTS
    Pipes = {p}
    Clients = {c}
    Algos = {zlib, lzo}
    Zlib = zlib
    Ciphers = {aes, blowfish}
    None = none
    MAX_FILES = 2
    Redirects = {1}
    MaxKeep = 2
    Together = FALSE
SPECIFICATION Spec
INVARIANTS WebAsAsked PipesForget FileSeesItsInput
