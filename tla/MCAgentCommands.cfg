SPECIFICATION Spec
CONSTANTS
    Documents <- ThreeDocuments
    MaxCommands = 2
INVARIANTS SoundDocument
PROPERTIES NothingElseMoves LandsWhereAsked LinesMatch TablesKept
CHECK_DEADLOCK FALSE
