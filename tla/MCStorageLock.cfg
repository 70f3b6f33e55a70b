\* Five holders: an upgrade, a waiting writer and two readers meet.
CONSTANTS
    Holders = {h1, h2, h3, h4, h5}
    NoHolder = NoHolder
SPECIFICATION FairSpec
INVARIANTS
    TypeOK
    CounterMatchesKeys
    ExclusiveMeansAlone
PROPERTIES
    ImplementsReadWriteLock
    WriterNotStarved
