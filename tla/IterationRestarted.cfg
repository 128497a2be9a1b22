SPECIFICATION Spec
CONSTANT Programs <- RestartedPrograms
INVARIANT ReturnsItsMeaning
