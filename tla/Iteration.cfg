CONSTANT Programs <- CheckedPrograms
SPECIFICATION Spec
INVARIANTS TypeOK Accepted ReturnsItsMeaning NothingIsUndefined
PROPERTIES GoesOnByOne LoopsEnd
