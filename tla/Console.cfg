SPECIFICATION Spec
CONSTANTS
  Users = {"me", "you"}
  NoUser = "nobody"
  Cmds <- AllCmds
  ArgNames <- AllArgNames
  Args <- CommandArgs
  Steps <- CommandSteps
  Scenarios <- MCScenarios
INVARIANTS
  TypeOK AnswersLand TasksHaveTheirArgs TokenTasksAreGated ActsAsShown PromptFits
  NoStrayPrompt OutputLands LinesStandAlone
  OptionsAreOptions AnswersStayWhole ListsAreTrue
