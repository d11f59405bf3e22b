SPECIFICATION Spec
CONSTANTS
    Decisions = {d1}
    Handlers = {h1, h2}
    Messages = {m1, m2, m3, m4}
    MaxVersion = 2
    MaxFaults = 2
    Notes <- AllNotes
SYMMETRY Symmetric
INVARIANTS
    OneMessage
    AnswerIsTrue
    EveryMessageFits
