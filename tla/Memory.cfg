\* Two processes remember and forget, on the file or on Engram.
SPECIFICATION Spec
CONSTANTS
    Process = {p1, p2}
    Topic = {a, b}
    MaxNotes = 3
    MaxForgets = 2
INVARIANTS
    NotesSurvive
    ForgottenStaysGone
SYMMETRY MCSymmetry
CHECK_DEADLOCK FALSE
