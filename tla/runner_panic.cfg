\* A recovered panic counts as the first success.
SPECIFICATION Spec
CONSTANTS
    a1 = a1
    a2 = a2
    s1 = s1
    s2 = s2
    Awakers <- TwoAwakers
    Stoppers <- TwoStoppers
INVARIANTS
    ExitsOnSuccessOnly
