SPECIFICATION Spec
CONSTANTS
    Anonymous = Anonymous
    NoClient = NoClient
    alice = alice
    c1 = c1
    c2 = c2
    n1 = n1
    n2 = n2
    Owners <- TwoOwners
    Names <- TwoNames
    Conns <- TwoConns
    Buffer = 1
    MaxInstances = 2
    MaxEmitting = 1
    MaxSubscribes = 1
INVARIANTS
    TablesSound
    NobodyWaits
    LookupsServe
    
SYMMETRY Symmetry
