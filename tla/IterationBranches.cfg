SPECIFICATION Spec
CONSTANT Programs <- BranchesPrograms
INVARIANT ReturnsItsMeaning
