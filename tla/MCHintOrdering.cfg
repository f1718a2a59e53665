SPECIFICATION FairSpec
CONSTANTS
    MaxReasons = 3
    Vars <- Variables
    Records <- Derivations
INVARIANTS
    TypeOK
    EachHintOnce
    OrderedPropagates
    CountsExact
    CleanBetweenCalls
PROPERTIES
    OrderingEnds
