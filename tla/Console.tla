------------------------------ MODULE Console ------------------------------
(***************************************************************************)
(* The console of src/DioCLI: the loop of DioCLI.cpp that reads a line or  *)
(* an answer, the action stack of ConsoleControl.cpp that holds the        *)
(* command being put together, the prompts for the arguments it lacks, the *)
(* steps of its handler, and the session of Session that they work on.     *)
(*                                                                         *)
(* Of a value only this counts: for which argument it was typed, and       *)
(* whether it would pass the checks of that argument.  Values that hold    *)
(* blanks are left out.  Uploads are in UploadFlow: here their task runs   *)
(* and comes back with one of its outcomes.                                *)
(***************************************************************************)
EXTENDS Integers, Sequences, FiniteSets, FiniteSetsExt, Functions, Session

CONSTANTS
  Cmds,      \* the commands
  ArgNames,  \* the names of their arguments
  Args,      \* CommandArgs and CommandSteps of Commands
  Steps,
  Scenarios  \* how DioCLI is used, and by whom

\* system: each command is given on a system command line of its own.
\* batch: the lines are read from a file.
\* windows: else POSIX.
\* slips: the user types what the parser refuses, and CTRL+C.
\* errors: a task may come back with an error of the session.
\* checks: the account may be checked after a login (GEN_AUTO_CHECK_ACCOUNT): setconfig
\*   can switch this on and off at any time, so a login may check it or not.
\* again: DioCLI may be killed at any step, and when it has stopped it is started again.
\* cmds, users: the commands that are used, and who logs in.
\* profiles: what the profile may hold at first.
Switches == {"system", "batch", "windows", "slips", "errors", "checks", "again"}

ASSUME ConsoleAssumption ==
  /\ \A s \in Scenarios :
       /\ \A x \in Switches : s[x] \in BOOLEAN
       /\ s.cmds \subseteq Cmds /\ s.users \subseteq Users
       /\ s.profiles \subseteq Profiles
  /\ "none" \notin Cmds \cup ArgNames
  /\ {"main", "none"} \cap ArgNames = {}
  /\ \A c \in Cmds :
       /\ Args[c].args \in Seq(ArgNames)
       /\ {Args[c].many, Args[c].required, Args[c].output} \subseteq BOOLEAN
       /\ Args[c].many => Len(Args[c].args) = 1
       /\ Len(Steps[c]) \in Nat /\ DOMAIN Steps[c] = 1 .. Len(Steps[c])
       /\ \A i \in 1 .. Len(Steps[c]) :
            Steps[c][i].op \in {"ask", "asklogin", "askuser", "billing"} =>
              /\ Steps[c][i].args \in Seq(Range(Args[c].args))
              /\ Steps[c][i].limit \in 1 .. 2

\* A handler asks for all the arguments of its command, in the order in which
\* SetupCommands has registered them: an answer is only appended to the line.  The
\* billing data is asked for by HandleBillingDataInput.
ASSUME AsksInOrder ==
  \A c \in Cmds : \A i \in 1 .. Len(Steps[c]) :
    Steps[c][i].op \in {"ask", "asklogin", "askuser"} => Steps[c][i].args = Args[c].args

\* No argument is registered twice.
ASSUME ArgsDiffer ==
  \A c \in Cmds : \A i, j \in DOMAIN Args[c].args :
    Args[c].args[i] = Args[c].args[j] => i = j

\* LoginUser is called when there is a name and a password, and what it begins is
\* carried through; its steps are in no other handler.
LoginOrder ==
  <<"asklogin", "do", "token", "account", "connectlast", "connect", "keeplogin">>

ASSUME LoginInOrder ==
  \A c \in Cmds :
    \/ \A i \in 1 .. Len(Steps[c]) :
         Steps[c][i].op \notin {"asklogin", "token", "account", "connectlast", "connect",
                               "keeplogin"}
    \/ /\ Len(Steps[c]) = 7 /\ Len(Args[c].args) > 0
       /\ \A i \in 1 .. 7 : Steps[c][i].op = LoginOrder[i] /\ ~Steps[c][i].maybe

\* A handler looks at m_bConnected before it runs a task that sends the token, on every
\* way to the task, and does not disconnect in between.
ASSUME GatesFirst ==
  \A c \in Cmds : \A i \in 1 .. Len(Steps[c]) :
    Steps[c][i].op \in {"do", "download"} /\ Steps[c][i].task.token =>
      \E j \in 1 .. i - 1 :
        /\ Steps[c][j].op = "gate" /\ ~Steps[c][j].maybe
        /\ \A k \in j + 1 .. i - 1 : Steps[c][k].op # "disconnect"

\* At first, too, the profile holds the token of the user it would log in.
ASSUME OwnTokenAtFirst ==
  \A s \in Scenarios : \A p \in s.profiles :
    p.auto /\ p.creds # NoUser => p.token \in {NoUser, p.creds}

\* Only createuser makes a login of what is on the line.
ASSUME CreatesLogin ==
  \A c \in Cmds : \A i \in 1 .. Len(Steps[c]) :
    Steps[c][i].op = "assumelogin" => c = "createuser"

\* The step that is left out when the account is as it should be, or when the billing data
\* has not been given, runs a task or is the way out of LoginUser.
ASSUME LeavesOut ==
  \A c \in Cmds : \A i \in 1 .. Len(Steps[c]) :
    Steps[c][i].op \in {"account", "billing"} =>
      i < Len(Steps[c]) /\ Steps[c][i + 1].op \in {"do", "connectlast"}

\* m_listCommands: the commands with their arguments and the steps of their handlers.
CmdArgs == [c \in Cmds |-> Args[c]]
CmdSteps == [c \in Cmds |-> Steps[c]]

\* What HandleBillingDataInput checks.
Checked == {"number", "cvv", "expires"}
Values == [for : ArgNames, kind : {"good", "bad"}]
NoLine == [cmd |-> "none", vals |-> <<>>, output |-> FALSE]

VARIABLES
  env,          \* the scenario
  pc,           \* "launch", "early", "start", "prompt", "run", "stopping", "stopped",
                \* "crashed"
  line,         \* m_actionStack: its one entry, or NoLine
  incomplete,   \* m_bIncompleteCommand
  at,           \* the step of the handler
  asked,        \* the argument its last prompt was for
  prompt,       \* m_szCommandPrompt: an argument, "main" or "none"
  mask,         \* m_bMaskInput
  count,        \* <<c, a, n>>: the n-th reprompt for argument a of command c
  validated,    \* the commands whose card number isValidated
  blanks,       \* history: blank answers since the last other one
  echo,         \* m_bEchoOn
  stdout,       \* "console" or "file"
  redirecting,  \* iIsRedirecting
  types,        \* m_pListStorageTypes: "null", "empty" or "full"
  trapped,      \* ConsoleCtrlHandler is the last handler of CTRL+C
  severed       \* history: a login has been cut off between its saves of the profile

dialogue == <<incomplete, asked, prompt, mask, count, blanks>>
output == <<stdout, redirecting>>
service == <<session, types, trapped>>
vars == <<env, pc, line, at, dialogue, validated, service, echo, output, severed>>

System == env.system
Batch == env.batch
Windows == env.windows

Init ==
  /\ env \in Scenarios /\ pc = "launch"
  /\ user = NoUser /\ token = NoUser /\ connected = FALSE /\ budget = MaxLoginRetries
  /\ profile \in env.profiles
  /\ line = NoLine /\ at = 0 /\ incomplete = FALSE /\ asked = "none"
  /\ prompt = "main" /\ mask = FALSE /\ blanks = 0
  /\ count = {} /\ validated = {}
  /\ echo = TRUE /\ stdout = "console" /\ redirecting = FALSE /\ types = "null"
  /\ trapped = FALSE /\ severed = FALSE

-----------------------------------------------------------------------------
(* Lines, and what the parser makes of them.                               *)

\* The argument the k-th word of a line is bound to.
ArgAt(c, k) == IF CmdArgs[c].many THEN CmdArgs[c].args[1] ELSE CmdArgs[c].args[k]

Bound(l) == {ArgAt(l.cmd, k) : k \in DOMAIN l.vals}

\* Whether the check of argument a refuses what is bound to it.
Wrong(l, a) ==
  \E k \in DOMAIN l.vals :
    /\ ArgAt(l.cmd, k) = a
    /\ l.vals[k].kind = "bad" \/ l.vals[k].for # a

Missing(l) == CmdArgs[l.cmd].required /\ Len(l.vals) < Len(CmdArgs[l.cmd].args)

\* Mutant of Parses: the same for lines that are typed and for lines of a file.
ParsesAny(l) == Len(l.vals) <= Len(CmdArgs[l.cmd].args)

\* CmdLine::parse.  In a batch file nothing required may be missing.
Parses(l) == Len(l.vals) <= Len(CmdArgs[l.cmd].args) /\ ~(Batch /\ Missing(l))

\* ClearLastArgumentFromActionStack, n times.
ClearLast(l, n) == [l EXCEPT !.vals = SubSeq(@, 1, Len(@) - n)]

\* SetCommandPrompt, when no command is incomplete.
MainPrompt == IF ~echo THEN "none" ELSE IF System THEN prompt ELSE "main"

-----------------------------------------------------------------------------
(* The loop of _tmain and ProcessActionStack, up to the handler.           *)

Run(l) ==
  /\ Parses(l)
  /\ line' = l /\ at' = 1 /\ pc' = "run"
  /\ UNCHANGED <<incomplete, asked, prompt, mask, count, validated, service, echo, output>>

\* Mutant of Refuse: the line stays on the stack.
RefuseKeeping ==
  /\ incomplete' = FALSE /\ prompt' = MainPrompt
  /\ pc' = IF pc = "prompt" THEN "prompt" ELSE "stopping"
  /\ UNCHANGED <<line, at, asked, mask, count, blanks, validated, service, echo, output>>

\* ParseCommandError, UnknownCommandError: the line is dropped and nothing else.
Refuse ==
  /\ line' = NoLine /\ incomplete' = FALSE /\ prompt' = MainPrompt
  /\ pc' = IF pc = "prompt" THEN "prompt" ELSE "stopping"
  /\ UNCHANGED <<at, asked, mask, count, blanks, validated, service, echo, output>>

\* ProcessActionStack: a line that parses goes to its handler.
Submit(l, n) ==
  \/ Run(l) /\ blanks' = n
  \/ ~Parses(l) /\ Refuse

AtPrompt == pc \in {"early", "start", "prompt"}

\* A command with some of its arguments.
TypeLine(c) ==
  /\ pc # "prompt" => (pc = "early" <=> c \in {"login", "logout", "help"})
  /\ \E k \in 0 .. Len(CmdArgs[c].args), out \in {FALSE, CmdArgs[c].output},
        bad \in SUBSET (Checked \cap Range(CmdArgs[c].args)) :
       LET l == [cmd |-> c, output |-> out,
                 vals |-> [i \in 1 .. k |->
                             [for |-> ArgAt(c, i),
                              kind |-> IF ArgAt(c, i) \in bad THEN "bad" ELSE "good"]]]
       IN  Submit(l, 0)

\* A line that is no command, or that the parser refuses.
TypeNonsense == pc \in {"start", "prompt"} /\ ~incomplete /\ env.slips /\ Refuse

\* Mutant of Answer: a second answer takes the place of the first.
AnswerOver(kind) ==
  /\ AtPrompt /\ incomplete
  /\ kind = "bad" => asked \in Checked
  /\ Submit([line EXCEPT !.vals = <<[for |-> asked, kind |-> kind]>>], 0)

\* AddAction: an answer is added to the end of the line.
Answer(kind) ==
  /\ AtPrompt /\ incomplete
  /\ kind = "bad" => asked \in Checked
  /\ Submit([line EXCEPT !.vals = Append(@, [for |-> asked, kind |-> kind])], 0)

Blank ==
  /\ AtPrompt /\ incomplete
  /\ Submit(line, IF blanks < 3 THEN blanks + 1 ELSE 3)

\* An answer that looks like an option, or leaves a quote open.
AnswerNonsense == AtPrompt /\ incomplete /\ env.slips /\ Refuse

\* CTRL+C at a prompt, on Windows: ProcessControlHandler breaks off the dialogue.  Once
\* a task has installed ConsoleCtrlHandler that comes first and only notes the key; the
\* read that was waiting returns an empty line or nothing (Blank, EndOfInput).
CtrlC ==
  /\ pc = "prompt" /\ incomplete /\ env.slips /\ Windows /\ ~trapped /\ Refuse

EndOfInput == pc = "prompt" /\ pc' = "stopping"
              /\ UNCHANGED <<line, at, dialogue, validated, service, echo, output>>

-----------------------------------------------------------------------------
(* The steps of a handler.                                                 *)

Step == CmdSteps[line.cmd][at]
Running(op) == pc = "run" /\ at <= Len(CmdSteps[line.cmd]) /\ Step.op = op
End == Len(CmdSteps[line.cmd]) + 1
Reset(c) == {r \in count : r[1] # c}
Count(c, a) == Cardinality({r \in count : r[1] = c /\ r[2] = a})

\* Mutant of Finish: resetRepromptCount is not called.
FinishCounted(c, next) ==
  /\ line' = NoLine /\ at' = 0 /\ pc' = next
  /\ incomplete' = FALSE /\ mask' = FALSE /\ count' = count
  /\ prompt' = MainPrompt /\ asked' = "none" /\ blanks' = 0
  /\ UNCHANGED <<validated, service, echo, output>>

\* ProcessActionStack, after the handler: from the system command line one command
\* is all there is.
Finish(c, next) ==
  /\ line' = NoLine /\ at' = 0 /\ pc' = next
  /\ incomplete' = FALSE /\ mask' = FALSE /\ count' = Reset(c)
  /\ prompt' = MainPrompt /\ asked' = "none" /\ blanks' = 0
  /\ UNCHANGED <<validated, service, echo, output>>

Afterwards == IF System THEN "stopping" ELSE "prompt"

Finished ==
  /\ pc = "run" /\ at = End
  /\ Finish(line.cmd, Afterwards)

\* ShowUsage: a "?" on the line, or as an answer.
AskUsage(c) == AtPrompt /\ Finish(c, Afterwards)

Exit == Running("exit") /\ Finish(line.cmd, "stopping")

\* The handler goes on with step n.
Goto(n) == at' = n /\ UNCHANGED <<pc, line, dialogue, validated>>
Quiet == UNCHANGED <<service, echo, output>>

Skip == pc = "run" /\ at < End /\ Step.maybe /\ Goto(at + 1) /\ Quiet

GateStep ==
  /\ Running("gate")
  /\ Goto(IF connected THEN at + 1 ELSE End) /\ Quiet

\* ProcessLogoutCommand.
ForgetStep ==
  /\ Running("forgetlogin")
  /\ IF System THEN Goto(End) /\ ForgetLogin ELSE Goto(at + 1) /\ UNCHANGED session
  /\ UNCHANGED <<types, trapped, echo, output>>

ShowStep == Running("show") /\ Goto(at + 1) /\ Quiet

\* The arguments of the step that are empty, by their place in the order in which it
\* asks for them.
Empty == {i \in DOMAIN Step.args : Step.args[i] \notin Bound(line)}
FirstEmpty == Step.args[Min(Empty)]

\* Leaves the command incomplete, with a prompt for argument a.
Await(a) ==
  /\ pc' = "prompt" /\ at' = 0 /\ incomplete' = TRUE /\ asked' = a
  /\ prompt' = IF ~echo THEN "none"
               ELSE IF Step.names = "always" \/ Count(line.cmd, a) = 0 THEN a
               ELSE prompt
  /\ UNCHANGED <<blanks, service, echo, output>>

Masked(a) == mask' = IF Step.masked = {} THEN mask ELSE a \in Step.masked
\* Mutant of Reminded: incrementRepromptCount is not called.
RemindedNot(a) == count' = count

Reminded(a) == count' = count \cup {<<line.cmd, a, Count(line.cmd, a) + 1>>}
MayAsk(a) == Count(line.cmd, a) < Step.limit

AllGiven ==
  /\ pc = "run" /\ at < End /\ Step.op \in {"ask", "asklogin", "askuser"}
  /\ Empty = {}
  /\ at' = at + 1 /\ mask' = (mask /\ Step.masked = {})
  /\ UNCHANGED <<pc, line, incomplete, asked, prompt, count, blanks, validated>> /\ Quiet

AskStep ==
  /\ Running("ask") \/ Running("askuser")
  /\ Empty # {} /\ MayAsk(FirstEmpty)
  /\ Await(FirstEmpty) /\ Masked(FirstEmpty) /\ Reminded(FirstEmpty)
  /\ UNCHANGED <<line, validated>>

\* Mutant of GiveUp: the handler goes on after the help.
GiveUpOn ==
  /\ Running("ask") \/ Running("askuser")
  /\ Empty # {} /\ ~MayAsk(FirstEmpty)
  /\ Goto(at + 1) /\ Quiet

\* Shows the help and ends the command.  But GetUserInfo looks at the other arguments
\* too, and when it may ask for none of those that are empty CreateUser goes on without
\* them.
GiveUp ==
  /\ Running("ask") \/ Running("askuser")
  /\ Empty # {} /\ ~MayAsk(FirstEmpty)
  /\ Goto(IF Step.op = "askuser" /\ \A i \in Empty : ~MayAsk(Step.args[i]) THEN at + 1
          ELSE End)
  /\ Quiet

\* ProcessLoginCommand: without both it tries the profile, and it never gives up.
AskLogin ==
  /\ Running("asklogin") /\ Empty # {}
  /\ ~(HasLogin /\ line.vals = <<>>)
  /\ Await(FirstEmpty) /\ Masked(FirstEmpty)
  /\ UNCHANGED <<line, count, validated>>

LoginFromProfile ==
  /\ Running("asklogin") /\ HasLogin /\ line.vals = <<>>
  /\ at' = at + 1 /\ mask' = FALSE
  /\ UNCHANGED <<pc, line, incomplete, asked, prompt, count, blanks, validated>> /\ Quiet

\* HandleBillingDataInput: a card number is checked until one has been valid.
Refused ==
  {a \in Checked : Wrong(line, a) /\ ~(a = "number" /\ line.cmd \in validated)}

\* What it asks for: the last that was refused, or else the first that is empty.
BillingAsks ==
  IF "expires" \in Refused THEN "expires"
  ELSE IF "cvv" \in Refused THEN "cvv"
  ELSE IF "number" \in Refused THEN "number"
  ELSE FirstEmpty

BillingComplete == Refused = {} /\ Empty = {}

Validated ==
  IF "number" \in Bound(line) /\ ~Wrong(line, "number") THEN validated \cup {line.cmd}
  ELSE validated

BillingGiven ==
  /\ Running("billing") /\ BillingComplete
  /\ validated' = Validated /\ at' = at + 1
  /\ UNCHANGED <<pc, line, dialogue>> /\ Quiet

\* Every value that is refused takes the last value off the line.
AskBilling ==
  /\ Running("billing") /\ ~BillingComplete /\ MayAsk(BillingAsks)
  /\ Await(BillingAsks) /\ Reminded(BillingAsks)
  /\ line' = ClearLast(line, Cardinality(Refused)) /\ validated' = Validated
  /\ UNCHANGED mask

\* The data is not stored, but the handler returns as if it had been.
BillingGivenUp ==
  /\ Running("billing") /\ ~BillingComplete /\ ~MayAsk(BillingAsks)
  /\ line' = ClearLast(line, Cardinality(Refused)) /\ validated' = Validated
  /\ at' = at + 2
  /\ UNCHANGED <<pc, dialogue>> /\ Quiet

\* Mutant of EndRedirect: the old descriptors are not restored.
EndRedirectClosed == stdout' = stdout /\ redirecting' = FALSE

\* EndRedirect does nothing unless StartRedirect has noted that it redirected.
EndRedirect ==
  /\ stdout' = IF redirecting THEN "console" ELSE stdout
  /\ redirecting' = FALSE

MayEndStep ==
  /\ Running("may") /\ Goto(End)
  /\ IF Step.restore THEN EndRedirect ELSE UNCHANGED output
  /\ UNCHANGED <<service, echo>>

\* While it waits for a task PauseProcess installs ConsoleCtrlHandler.
Traps == trapped' \in {trapped, Windows}

\* What the handler makes of an outcome.
Then(outcome) == CASE outcome = "done" -> "go"
                   [] outcome = "failed" -> Step.error
                   [] outcome = "nothing" -> Step.nothing

TaskStep ==
  /\ Running("do")
  /\ \E outcome \in {"done", "failed", "nothing"} :
       /\ HandleTask(Step.task, outcome, env.errors /\ Step.repeats)
       /\ Goto(IF Then(outcome) = "go" THEN at + 1 ELSE End)
       /\ IF Then(outcome) = "restore" THEN EndRedirect ELSE UNCHANGED output
  /\ Traps /\ UNCHANGED <<types, echo>>

\* CTRL+C, pressed now or noted before, may cancel the download: then it has failed.
DownloadStep ==
  /\ Running("download") /\ Goto(End)
  /\ \E outcome \in {"done", "failed"} : HandleDownload(Step.task, outcome, env.errors)
  /\ Traps /\ UNCHANGED <<types, echo, output>>

\* The users whose name may be on the line, or in the profile.
Named == IF line.vals = <<>> THEN {profile.creds} ELSE env.users

TokenStep ==
  /\ Running("token") /\ Goto(at + 1)
  /\ \E u \in Named : TakeToken(u)
  /\ UNCHANGED <<types, trapped, echo, output>>

\* The check of the account, if it is switched on.  GEN_AUTO_CHECK_ACCOUNT has not been
\* read when login is the system command line.
AccountStep ==
  /\ Running("account")
  /\ \/ Goto(at + 2) /\ UNCHANGED session
     \/ /\ env.checks /\ ~System
        /\ \E outcome \in {"done", "failed"} :
             /\ HandleTask(GetUserInfoTask, outcome, env.errors)
             /\ Goto(IF outcome = "done" THEN at + 2 ELSE at + 1)
  /\ UNCHANGED <<types, trapped, echo, output>>

ConnectStep ==
  /\ Running("connect") \/ Running("connectlast")
  /\ Goto(IF Step.op = "connect" THEN at + 1 ELSE End) /\ Connect
  /\ UNCHANGED <<types, trapped, echo, output>>

\* ProcessLoginCommand, ProcessChangePasswordCommand.
KeepStep ==
  /\ Running("keeplogin") \/ Running("keepauto")
  /\ Goto(at + 1) /\ KeepIf(Step.op = "keeplogin" /\ System)
  /\ UNCHANGED <<types, trapped, echo, output>>

\* ProcessCreateUserCommand.
AssumeStep ==
  /\ Running("assumelogin") /\ Goto(at + 1)
  /\ \E u \in env.users : AssumeLogin(System, u)
  /\ UNCHANGED <<types, trapped, echo, output>>

ConfigureStep ==
  /\ Running("configure") /\ Goto(at + 1) /\ Configure
  /\ UNCHANGED <<types, trapped, echo, output>>

DisconnectStep ==
  /\ Running("disconnect") /\ Goto(at + 1) /\ ResetLoginData(System)
  /\ UNCHANGED <<types, trapped, echo, output>>

\* StartRedirect.  The dup2 of POSIX returns the descriptor, which is not 0: the
\* output goes to the file, but this is not noted.  That the file cannot be opened is
\* left out.
RedirectStep ==
  /\ Running("redirect") /\ Goto(at + 1)
  /\ IF line.output
       THEN stdout' = "file" /\ redirecting' = Windows
       ELSE UNCHANGED output
  /\ UNCHANGED <<service, echo>>

RestoreStep == Running("restore") /\ Goto(at + 1) /\ EndRedirect
               /\ UNCHANGED <<service, echo>>

\* GetStorageTypes fills the list only if it is empty, and may leave it so.
Filled == IF types = "full" THEN {"full"} ELSE {"empty", "full"}

NeedTypesStep == Running("needtypes") /\ Goto(at + 1) /\ types' \in Filled
                 /\ UNCHANGED <<session, trapped, echo, output>>

NewTypesStep == Running("newtypes") /\ Goto(at + 1) /\ types' = "empty"
                /\ UNCHANGED <<session, trapped, echo, output>>

FillTypesStep ==
  /\ Running("filltypes")
  /\ \/ types' = "full" /\ Goto(at + 1) /\ UNCHANGED output
     \/ types' = "empty" /\ Goto(End) /\ EndRedirect
  /\ UNCHANGED <<session, trapped, echo>>

\* DisplayPhysicalFileInfoEntry does not look whether there is a list.
UseTypesStep ==
  /\ Running("usetypes")
  /\ IF types = "null"
       THEN pc' = "crashed" /\ UNCHANGED <<line, at, dialogue, validated, types>>
       ELSE Goto(at + 1) /\ types' \in Filled
  /\ UNCHANGED <<session, trapped, echo, output>>

EchoStep ==
  /\ Running("echo") /\ Goto(at + 1)
  /\ echo' \in IF line.vals = <<>> THEN {echo} ELSE BOOLEAN
  /\ UNCHANGED <<service, output>>

-----------------------------------------------------------------------------
(* The processes.                                                          *)

Idle == UNCHANGED <<line, at, dialogue, validated, types, trapped, echo, output>>

\* StartDioCLI.  From the system command line a login that fails ends the program.
Launch ==
  /\ pc = "launch"
  /\ \/ System /\ pc' = "early" /\ StartEarly
     \/ /\ StartWithToken(System) \/ StartWithout(System)
        /\ pc' = IF System THEN "start" ELSE "prompt"
     \/ \E outcome \in {"done", "failed"} :
          /\ StartWithLogin(System, outcome, env.errors, env.checks)
          /\ pc' = IF ~System THEN "prompt" ELSE IF outcome = "done" THEN "start" ELSE "stopped"
  /\ Idle

Stop ==
  /\ pc = "stopping" /\ pc' = "stopped" /\ StopSession(System, env.errors) /\ Idle

\* DioCLI is killed: what it has not saved by then is lost.
Kill ==
  /\ env.again /\ pc \in {"early", "start", "prompt", "run", "stopping"} /\ pc' = "crashed"
  /\ UNCHANGED session /\ Idle

\* LoginUser saves the token, and its caller the name and the password after that.  In
\* between a check of the account that failed ends the login, or a kill does; a check may
\* have saved a renewed token before.
Severs ==
  \/ Running("connectlast")
  \/ pc' = "crashed" /\ (Running("keeplogin") \/ (env.checks /\ Running("connect")))

\* Only the profile is left for the next process.
Relaunch ==
  /\ pc \in {"stopped", "crashed"} /\ env.again /\ pc' = "launch"
  /\ line' = NoLine /\ at' = 0 /\ incomplete' = FALSE /\ asked' = "none"
  /\ prompt' = "main" /\ mask' = FALSE /\ blanks' = 0
  /\ count' = {} /\ validated' = {}
  /\ echo' = TRUE /\ stdout' = "console" /\ redirecting' = FALSE /\ types' = "null"
  /\ trapped' = FALSE
  /\ user' = NoUser /\ token' = NoUser /\ connected' = FALSE
  /\ budget' = MaxLoginRetries /\ UNCHANGED profile

-----------------------------------------------------------------------------

UserStep ==
  /\ AtPrompt
  /\ \/ ~incomplete /\ \E c \in env.cmds : TypeLine(c)
     \/ \E c \in IF incomplete THEN {line.cmd} ELSE env.cmds : AskUsage(c)
     \/ \E kind \in {"good", "bad"} : Answer(kind)
     \/ TypeNonsense \/ Blank \/ AnswerNonsense \/ CtrlC \/ EndOfInput

AskingStep ==
  AllGiven \/ AskStep \/ GiveUp \/ AskLogin \/ LoginFromProfile
  \/ BillingGiven \/ AskBilling \/ BillingGivenUp

ServiceStep ==
  TaskStep \/ DownloadStep \/ NeedTypesStep \/ NewTypesStep \/ FillTypesStep \/ UseTypesStep

SessionStep ==
  TokenStep \/ AccountStep \/ ConnectStep \/ KeepStep \/ ForgetStep \/ AssumeStep
  \/ ConfigureStep \/ DisconnectStep

ConsoleStep ==
  Finished \/ Exit \/ Skip \/ GateStep \/ ShowStep \/ MayEndStep
  \/ RedirectStep \/ RestoreStep \/ EchoStep

HandlerStep == pc = "run" /\ (AskingStep \/ ServiceStep \/ SessionStep \/ ConsoleStep)

ProcessStep == Launch \/ Stop \/ Kill \/ Relaunch

Stopped == pc \in {"stopped", "crashed"} /\ ~env.again /\ UNCHANGED vars

Next ==
  \/ /\ UserStep \/ HandlerStep \/ ProcessStep
     /\ UNCHANGED env /\ severed' = (severed \/ Severs)
  \/ Stopped

Spec == Init /\ [][Next]_vars
=============================================================================
