CONSTANTS
    Heights = {0, 108299, 108300, 151599, 151600, 224999, 225000,
               292799, 292800, 322699, 322700, 889523, 889524}
    Rater = Rater
    Author = Author
    NoData = NoData
    RepValues = {499, 500, 1000}
    LikerValues = {99, 100}
    CountValues = {1, 2, 19, 20}
SPECIFICATION Spec
INVARIANTS
    DecisionMatchesSpec
