SPECIFICATION Spec
CONSTANT MaxLines = 5
CONSTRAINT Bounded
PROPERTIES
    OwnersLinesKept
    EditsDoTheirJob
