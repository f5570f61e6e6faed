SPECIFICATION Spec
CONSTANTS
    Images <- AllImages
    Dests <- AllDests
    Bad = TRUE
INVARIANTS
    LastEntryDecides
    Reproducible
