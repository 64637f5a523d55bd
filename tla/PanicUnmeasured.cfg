\* One request through the chain of the example service.
CONSTANTS
    Requests = {r1}
    Methods = {m1}
    NoCell = NoCell
    Nobody = Nobody
    Chains <- ExampleChain
SPECIFICATION Spec
INVARIANTS
    EveryRequestMeasured
