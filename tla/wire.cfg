SPECIFICATION Spec
CONSTANT
    OtherCases <- TwoOddFacts
INVARIANTS
    ArgumentsArrive
    HeardIsTrue
    ServedThroughItsDoor
