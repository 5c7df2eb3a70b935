---------------------------- MODULE ConsoleProps ----------------------------
(***************************************************************************)
(* What the console promises to whoever types, to the tasks it runs, and   *)
(* about whose session they run in.  Where the code does not keep such a   *)
(* promise, the property names the commands or the scenarios that break it *)
(* and excludes just those; the README lists them.                         *)
(***************************************************************************)
EXTENDS Console

Prompts == ArgNames \cup {"main", "none"}
Reprompts == Cmds \X ArgNames \X (1 .. 2)

Lines == [cmd : env.cmds, vals : Seq(Values), output : BOOLEAN]

LineOK ==
  line = NoLine \/ (line \in Lines /\ Len(line.vals) <= Len(CmdArgs[line.cmd].args))

DialogueOK ==
  /\ incomplete \in BOOLEAN /\ mask \in BOOLEAN /\ echo \in BOOLEAN
  /\ asked \in Prompts \ {"main"} /\ prompt \in Prompts
  /\ count \subseteq Reprompts
  /\ blanks \in 0 .. 3 /\ validated \subseteq env.cmds

OutputOK ==
  /\ stdout \in {"console", "file"} /\ redirecting \in BOOLEAN
  /\ types \in {"null", "empty", "full"} /\ trapped \in BOOLEAN

\* The stack holds a line exactly while a command is worked on, so that AddAction and
\* CTRL+C never take the front of an empty one.
ConsoleOK ==
  /\ env \in Scenarios
  /\ pc \in {"launch", "early", "start", "prompt", "run", "stopping", "stopped", "crashed"}
  /\ LineOK /\ DialogueOK /\ OutputOK /\ SessionOK
  /\ pc = "run" => line # NoLine /\ at \in 1 .. End
  /\ pc = "launch" => line = NoLine /\ ~incomplete
  /\ AtPrompt => (incomplete <=> line # NoLine)
  /\ AtPrompt /\ incomplete => asked # "none"

\* The type invariant.
TypeOK == ConsoleOK /\ severed \in BOOLEAN

-----------------------------------------------------------------------------
(* Answers and arguments.                                                  *)

Bills(c) == \E i \in DOMAIN CmdSteps[c] : CmdSteps[c][i].op = "billing"

\* What was typed for one argument is never bound to another.  Not for billing data: a
\* value that is refused takes the last one off the line, whichever that is.
AnswersLand ==
  line # NoLine /\ ~Bills(line.cmd) =>
    \A k \in DOMAIN line.vals : line.vals[k].for = ArgAt(line.cmd, k)

\* The handlers that go on when their helper has given up asking.
GoesOn == {"createuser", "subscribe"}

\* Step j of the handler has asked for its arguments, when the handler is at step i.
AskedBy(c, i, j) ==
  /\ ~Steps[c][j].maybe
  /\ \/ Steps[c][j].op = "ask"
     \/ Steps[c][j].op = "asklogin" /\ c = "login"
     \/ Steps[c][j].op = "billing" /\ i = j + 1
  /\ \A k \in j + 1 .. i - 1 : Steps[c][k].op # "billing"

\* The other handlers ask for what a task needs before they run it.
ASSUME AsksBefore ==
  \A c \in Cmds \ GoesOn : \A i \in 1 .. Len(Steps[c]) :
    Steps[c][i].op \in {"do", "download"} =>
      \/ Steps[c][i].task.needs = {}
      \/ \E j \in 1 .. i - 1 :
           AskedBy(c, i, j) /\ Steps[c][i].task.needs \subseteq Range(Steps[c][j].args)

\* No task is run without the arguments it needs.  A user name and password may come
\* from the profile.  Not for createuser, which goes on without those that it may no
\* longer ask for, nor for a subscription without billing data.
TasksHaveTheirArgs ==
  Running("do") \/ Running("download") =>
    \/ Step.task.needs \subseteq Bound(line)
    \/ line.cmd = "login" /\ line.vals = <<>> /\ HasLogin
    \/ line.cmd \in GoesOn

-----------------------------------------------------------------------------
(* The session.                                                            *)

\* A token without a user name cannot be renewed: RepeatLastTask replaces it by an
\* empty one.
Unnamed == env.errors /\ user = NoUser

\* A task that sends the session token is run only when there is one: the handlers
\* look at m_bConnected first, whatever the tasks, logins and starts before have made
\* of the two.
TokenTasksAreGated ==
  /\ connected => token # NoUser \/ Unnamed
  /\ (Running("do") \/ Running("download")) /\ Step.task.token => token # NoUser \/ Unnamed

\* The session that is used is that of the user who is shown, also if it comes from
\* the profile of an earlier DioCLI, wherever that one has stopped or been killed.  Not
\* once a login has been cut off between its saves, nor after createuser on the system
\* command line: both may leave one user's token in the profile beside another's name.
ActsAsShown ==
  ~severed /\ ~(System /\ "createuser" \in env.cmds) =>
    (connected /\ user # NoUser => token = user)

-----------------------------------------------------------------------------
(* Prompts.                                                                *)

Passwords == {"password", "old", "new"}

\* The handler sets the text of the prompt whenever it asks.
NamesAlways(c) ==
  \A i \in DOMAIN CmdSteps[c] :
    CmdSteps[c][i].op \in {"ask", "asklogin", "askuser", "billing"} =>
      CmdSteps[c][i].names = "always"

\* The prompt a user sees names the argument the answer will be taken for, and typing
\* is hidden exactly when that is a password.  A dialogue that was broken off leaves its
\* reprompt count and the mask behind: after it a handler that names its argument only
\* the first time it asks may show another prompt, and what is no password may be
\* hidden, but a password is never shown.
PromptFits ==
  /\ pc = "prompt" /\ incomplete =>
       /\ echo /\ NamesAlways(line.cmd) => prompt = asked
       /\ asked \in Passwords => mask
  /\ pc = "prompt" /\ ~env.slips =>
       /\ incomplete /\ echo => prompt = asked
       /\ mask <=> incomplete /\ asked \in Passwords

\* Nobody is prompted without end, nor if they cannot answer, nor for what they did not
\* ask: but for login, a command gives up when its second prompt for an argument is not
\* answered; a batch file is asked for nothing; and from the system command line, where
\* there is one command, the console prompts for its arguments but never for another
\* command.  Not for billing data, where a value that is refused changes what is asked
\* for; not in a batch file if the arguments of the command were not registered as
\* required; nor after a line on the system command line that is refused, as it also is
\* when a batch file has been asked for billing data.
NoStrayPrompt ==
  /\ AtPrompt /\ incomplete /\ line.cmd # "login" => Bills(line.cmd) \/ blanks <= 1
  /\ Batch /\ incomplete => Bills(line.cmd) \/ ~CmdArgs[line.cmd].required
  /\ System /\ pc = "prompt" /\ ~env.slips =>
       incomplete \/ (Batch /\ \E c \in env.cmds : Bills(c))

\* A handler hides the passwords it asks for and nothing else, and the billing data has
\* none.
ASSUME MasksPasswords ==
  \A c \in Cmds : \A i \in 1 .. Len(Steps[c]) :
    /\ Steps[c][i].op \in {"ask", "asklogin", "askuser"} =>
         Steps[c][i].masked = Range(Steps[c][i].args) \cap Passwords
    /\ Steps[c][i].op = "billing" => Range(Args[c].args) \cap Passwords = {}

\* A handler that names its argument only the first time it asks has just this one.
ASSUME NamesOnce ==
  \A c \in Cmds : \A i \in 1 .. Len(Steps[c]) :
    Steps[c][i].op \in {"ask", "asklogin", "askuser", "billing"} =>
      Steps[c][i].names = "always" \/ (Len(Args[c].args) = 1 /\ ~Bills(c))

\* Only login asks without end, and echo asks for nothing.
ASSUME AsksForLogin ==
  \A c \in Cmds : \A i \in 1 .. Len(Steps[c]) :
    /\ Steps[c][i].op = "asklogin" => c = "login"
    /\ Steps[c][i].op = "echo" =>
         \A j \in 1 .. Len(Steps[c]) :
           Steps[c][j].op \notin {"ask", "asklogin", "askuser", "billing"}

-----------------------------------------------------------------------------
(* Output.                                                                 *)

\* The commands that end without EndRedirect when there is nothing to show, or that do
\* not read their -output.
Leaking == {"resume", "getmyproducts", "getmycontracts", "getallcontracts",
            "getdefreplicationpolicy"}

\* The output has been redirected on the way to step i, and not restored.
Redirected(c, i) ==
  \E j \in 1 .. i - 1 : /\ Steps[c][j].op = "redirect"
                       /\ \A k \in j + 1 .. i - 1 : Steps[c][k].op # "restore"

\* A step that goes to the next one, or restores the output first.
KeepsOutput(step) ==
  \/ step.op \in {"show", "needtypes", "newtypes", "filltypes"}
  \/ step.op = "may" /\ step.restore
  \/ step.op = "do" /\ {step.error, step.nothing} \subseteq {"go", "restore"}
  \/ step.op = "restore" /\ ~step.maybe

\* The other handlers restore the output on every way out, and show nothing before it
\* has been redirected.
ASSUME RestoresOutput ==
  \A c \in Cmds \ Leaking :
    /\ ~Redirected(c, Len(Steps[c]) + 1)
    /\ \A i \in 1 .. Len(Steps[c]) :
         /\ Redirected(c, i) => KeepsOutput(Steps[c][i])
         /\ Steps[c][i].op = "redirect" => ~Steps[c][i].maybe
         /\ Steps[c][i].op = "show" /\ Args[c].output => Redirected(c, i)

Restores == Windows /\ env.cmds \cap Leaking = {}

\* Results go to the output file if there is one and else to the console, and the
\* prompt is shown on the console, whatever became of the command before.  Not on
\* POSIX, where the redirection is not noted.
OutputLands ==
  Restores =>
    /\ pc = "prompt" => stdout = "console"
    /\ Running("show") => (stdout = "file" <=> line.output)
=============================================================================
