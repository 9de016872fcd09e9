CONSTANTS
    Parsed <- Names
    Literals = {"123"}
    Func = {"f", "g"}
    Formal <- Arg
    MaxArgs <- TwoOne
    MAX_VARS = 3
    Texts <- Text
    MaxDepth = 2
SPECIFICATION PlainSpec
INVARIANT IndicesStable
PROPERTIES OthersRestored ImplementsEnv
