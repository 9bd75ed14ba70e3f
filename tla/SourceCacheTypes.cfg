SPECIFICATION Spec
CONSTANTS
    Func <- MCFunc
    Class = {C}
    Var = {x, p}
    ClassOrder <- MCClassOrder
    Text <- MCText
    TypeStr <- MCTypeStr
    Mentions <- MCMentions
    ClassesOf <- MCClassesOf
    Image <- MCText
    Printed <- MCPrinted
    Hash <- ApartHash
    HashVal = {1, 2}
    File = {A, B}
    NoFile = NoFile
    Partial = Partial
    ff = ff
    gg = gg
    hh = hh
    C = C
    x = x
    p = p
    f1 = f1
    f2 = f2
    g1 = g1
    h1 = h1
    h2 = h2
    c1 = c1
    c2 = c2
    I64 = I64
    U8 = U8
    CPtr = CPtr
    Fn = Fn
    FnC = FnC
    A = A
    B = B
    Program <- Changing
    MaxSources = 1
    Crashes = FALSE
INVARIANTS
    TypeChangeRecompiles
