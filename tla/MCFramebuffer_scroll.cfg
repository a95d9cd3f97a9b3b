SPECIFICATION Spec
CONSTANTS
    width = 8
    height = 10
    glyphWidth = 2
    glyphHeight = 3
INVARIANTS
    ScrollKeepsText
