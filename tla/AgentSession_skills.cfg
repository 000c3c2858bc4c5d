SPECIFICATION Spec
CONSTANTS
    Hosts = {"module", "embedder"}
    Callers = {c1, c2}
    Labels = {"a", "b"}
    Groups = {"g"}
    Faults = {"rejected", "lost"}
    MaxFaults = 1
    MaxSessions = 2
    MaxSkills = 1
    MaxUploads = 2
    MaxMessages = 1
    NoUpload = NoUpload
SYMMETRY AlikeCallers
CHECK_DEADLOCK FALSE
INVARIANTS
    TypeOK
    OneSessionOwned
    ReturnedIsListed
    ListedIsStored
    JoinedHears
