SPECIFICATION Spec
CONSTANTS
    Slot = {name, wines}
    Place <- MCPlace
    Name = name
    Companion = {}
    Lead = {name}
    Text = {text, odd}
    Word = {word}
    Short = {odd}
    Quotes = {odd}
    Refused <- MCRefused
    Blank = blank
    Nothing = nothing
    NoSlot = noslot
    Turn = {t1, t2}
    MaxTurns = 3
    MaxResends = 1
SYMMETRY Symmetry
INVARIANT ChatTypeOK Complete OnlyAdmitted
PROPERTY NeverForgets
CHECK_DEADLOCK FALSE
