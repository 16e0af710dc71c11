SPECIFICATION Spec
CONSTANTS
    alone = alone
    loop = loop
    tool = tool
    Procs = {"near", "far"}
    Callers = {alone, loop, tool}
    Home <- TwoAtHome
    Ids = {m1, m2}
    Senders = {alone, tool}
    Ackers = {alone, loop}
    Purgers = {alone}
    Readers = {loop, tool}
    MaxStats = 2
    MaxWrites = 4
    Free = Free
SYMMETRY Alike
INVARIANTS MessagesKept AcksKept QueryComplete
