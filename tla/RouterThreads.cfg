SPECIFICATION FairSpec
CONSTANTS
    Operations <- DisciplinedOperations
    MAX_ACTIVE = 2
INVARIANTS TypeOK NoRace NoDeadlock ChangesAreNoticed
PROPERTIES UpdatesAreSent
