CONSTANTS
    None = None
    r1 = r1
    r2 = r2
    embedding = embedding
    layer = layer
    output = output
    Ranks = {r1, r2}
    Params = {embedding, layer, output}
    Groups = 2
    GroupOf <- TwoGroups
    HooksOf <- TiedTwice
    Microbatches = 2
    Iterations = 3
    Setups <- AllSetups
    Plans <- AllPlans
SPECIFICATION Spec
INVARIANTS
    AssertionsHold
    CollectivesMatch
    GradientsComplete
    WeightsLatest
