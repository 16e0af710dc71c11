SPECIFICATION Spec
CONSTANTS
    alone = alone
    loop = loop
    tool = tool
    Procs = {"near", "far"}
    Callers = {alone, loop}
    Home <- TwoAtHome
    Ids = {m1, m2}
    Senders = {alone}
    Ackers = {loop}
    Purgers = {}
    Readers = {loop}
    MaxStats = 2
    MaxWrites = 3
    Free = Free
SYMMETRY Alike
INVARIANTS CopyCurrent
