SPECIFICATION Spec
CONSTANTS
    Registry <- MCRegistry
    Required = {"name"}
    Docs <- MCDocs
    MAX_QUESTIONS = 1
    CUTOFF = 70
    None = None
    MaxCalls = 3
    Run = {r1, r2}
    Requests <- MCRequests
    Turn = {t1}
    WINDOW = 2
SYMMETRY Symmetry
INVARIANTS AgentTypeOK StoredCleared Resumable AsksWhatIsOpen SoundStart CallsSound
    AnswersCleared
CHECK_DEADLOCK FALSE
