SPECIFICATION Spec
SYMMETRY MCSymmetry
CONSTANTS
    Threads = {t1, t2}
    Releases <- MCReleases
    Needs <- MCNeeds
    Catalogs <- MCCatalogs
    Experiences <- MCExperiences
    Default <- MCDefault
INVARIANTS
    ActiveIsInstalled
    OfferedUpdateIsTaken
PROPERTIES
    MarkerMeansReady
