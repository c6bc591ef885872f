CONSTANTS
    Probes = {0, 1, 108299, 108300, 151599, 151600, 224999, 225000, 292799, 292800,
              322699, 322700, 889523, 889524, 1123999, 1124000, 10000000}
    Deltas = {2591999, 2592000, 29030399, 29030400}
    ContentTypes = {"CONTENT_POST", "CONTENT_VIDEO"}
SPECIFICATION Spec
INVARIANTS
    RuleTableRefinement
    OldPostsWindow
