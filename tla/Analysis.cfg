SPECIFICATION Spec
CONSTANTS
    Programs <- ProgramsChecked
    Mints <- MintsChecked
    Persons <- PersonsChecked
    Agents <- AgentsChecked
    MaxNews = 6
INVARIANTS
    TypeOK OnchainGradeFollows RegistriesFailClosed FindingsNeverHelp
PROPERTIES
    NewsCountsItsWay
CHECK_DEADLOCK FALSE
