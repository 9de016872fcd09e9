CONSTANTS
    Parsed <- Names
    Literals = {"123"}
    Func = {"f"}
    Formal <- Arg
    MaxArgs <- TwoOne
    MAX_VARS = 3
    Texts <- Text
    MaxDepth = 1
SPECIFICATION Spec
INVARIANT LiteralsFixed
