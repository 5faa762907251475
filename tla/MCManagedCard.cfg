\* Every operation and two transaction plans; two card changes.
SPECIFICATION Spec
CONSTANTS
    k1 = k1
    k2 = k2
    f1 = f1
    f2 = f2
    Picc = "picc"
    Applications = {"picc", "app"}
    Keys = {k1, k2}
    Commands <- AllCommands
    Files = {f1, f2}
    Plans <- TwoPlans
    MaxGeneration = 2
    MaxAuthentications = 2
INVARIANTS
    TypeOK
    BeliefsAreTrue
    SuccessOnOwnCard
    PlansAreAtomic
    NotSentChangesNothing
