\* All kinds of elements, more than a lap around a pool of three slots, receivers
\* that may take only some literals.
SPECIFICATION Spec
CONSTANTS
    t1 = t1
    t2 = t2
    a = a
    b = b
    c = c
    SpecialAuthor = SpecialAuthor
    NoThread = NoThread
    Thread <- TwoThreads
    Lit <- ThreeLits
    Item <- AllKinds
    Receivable <- ReceiveSome
    PoolSize = 3
    HasProof = TRUE
    MaxAdds = 4
INVARIANTS
    TypeOK
    DeliversWhatWasSent
    OnceInOrderFromOthers
    PooledClausesAreInProof
    TakesNothingStronger
PROPERTIES
    LosesWholeLapsOnly
