--------------------------- MODULE Console_proofs ---------------------------
(***************************************************************************)
(* The console and its session, for any commands whose handlers keep the   *)
(* order that Console assumes, for any users and any way to use DioCLI.    *)
(***************************************************************************)
EXTENDS ConsoleProps, FiniteSetTheorems, WellFoundedInduction, TLAPS

-----------------------------------------------------------------------------
(* Lemmas about operators.                                                 *)

\* A set of numbers has a least one.
LEMMA FirstOf ==
  ASSUME NEW S \in SUBSET Nat, S # {}
  PROVE  Min(S) \in S /\ \A y \in S : Min(S) <= y
<1> DEFINE R == {ss \in Nat \X Nat : ss[1] < ss[2]}
<1>1. IsWellFoundedOn(R, Nat)
  BY NatLessThanWellFounded DEF OpToRel
<1>2. \E x \in S : \A y \in S : <<y, x>> \notin R
  <2> HIDE DEF R
  <2> QED  BY <1>1, WFMin
<1>3. PICK x \in S : \A y \in S : <<y, x>> \notin R
  BY <1>2
<1>4. ASSUME NEW y \in S PROVE x <= y
  <2>1. x \in Nat /\ y \in Nat /\ <<y, x>> \in Nat \X Nat
    OBVIOUS
  <2>2. ~(<<y, x>>[1] < <<y, x>>[2])
    BY <1>3, <2>1
  <2> QED
    BY <2>1, <2>2
<1> QED
  BY <1>4 DEF Min

\* What is assumed of the commands.
LEMMA CommandOK ==
  ASSUME NEW c \in Cmds
  PROVE  /\ CmdArgs[c] = Args[c] /\ CmdSteps[c] = Steps[c]
         /\ Args[c].args \in Seq(ArgNames) /\ Len(Args[c].args) \in Nat
         /\ Args[c].many \in BOOLEAN /\ Args[c].required \in BOOLEAN
         /\ Args[c].output \in BOOLEAN
         /\ Len(Steps[c]) \in Nat
BY ConsoleAssumption DEF CmdArgs, CmdSteps

\* What is assumed of the scenarios.
LEMMA ScenarioOK ==
  ASSUME env \in Scenarios
  PROVE  /\ env.cmds \subseteq Cmds /\ env.users \subseteq Users
         /\ env.profiles \subseteq Profiles
         /\ env.system \in BOOLEAN /\ env.batch \in BOOLEAN /\ env.windows \in BOOLEAN
         /\ env.slips \in BOOLEAN /\ env.errors \in BOOLEAN /\ env.checks \in BOOLEAN
         /\ env.again \in BOOLEAN
<1>1. \A x \in Switches : env[x] \in BOOLEAN
  BY ConsoleAssumption
<1> QED
  BY <1>1, ConsoleAssumption DEF Switches

\* The arguments a step asks for are among those of its command.
LEMMA AskedOK ==
  ASSUME ConsoleOK, pc = "run", at < End,
         Step.op \in {"ask", "asklogin", "askuser", "billing"}, Empty # {}
  PROVE  FirstEmpty \in ArgNames /\ Step.limit \in 1 .. 2
<1> DEFINE c == line.cmd
<1>1. c \in Cmds /\ at \in 1 .. Len(Steps[c]) /\ Step = Steps[c][at]
  BY CommandOK, ScenarioOK DEF ConsoleOK, LineOK, Lines, NoLine, End, Step
<1>2. Step.args \in Seq(Range(Args[c].args)) /\ Step.limit \in 1 .. 2
  BY <1>1, ConsoleAssumption
<1>3. Empty \in SUBSET Nat
  BY <1>2 DEF Empty
<1>4. Min(Empty) \in DOMAIN Step.args
  BY <1>3, FirstOf DEF Empty
<1>5. Step.args[Min(Empty)] \in Range(Args[c].args)
  BY <1>2, <1>4
<1>6. Range(Args[c].args) \subseteq ArgNames
  BY <1>1, CommandOK DEF Range
<1> QED
  BY <1>2, <1>5, <1>6 DEF FirstEmpty

-----------------------------------------------------------------------------
(* Types.                                                                  *)

\* The initial state has the right type.
LEMMA InitType == Init => ConsoleOK
<1> SUFFICES ASSUME Init PROVE ConsoleOK
  OBVIOUS
<1> USE DEF Init
<1>1. SessionOK
  <2>1. profile \in Profiles
    BY ScenarioOK
  <2> QED
    <3>1. user \in Somebody /\ token \in Somebody
      BY DEF Somebody
    <3>2. connected \in BOOLEAN
      OBVIOUS
    <3>3. budget \in -1 .. MaxLoginRetries
      BY DEF MaxLoginRetries
    <3> QED
      BY <2>1, <3>1, <3>2, <3>3 DEF SessionOK
<1>2. DialogueOK
  <2>1. incomplete \in BOOLEAN /\ mask \in BOOLEAN /\ echo \in BOOLEAN
    OBVIOUS
  <2>2. asked \in Prompts \ {"main"}
    BY DEF Prompts
  <2>3. prompt \in Prompts
    BY DEF Prompts
  <2>4. count \subseteq Reprompts
    OBVIOUS
  <2>5. blanks \in 0 .. 3
    OBVIOUS
  <2>6. validated \subseteq env.cmds
    OBVIOUS
  <2> QED
    BY <2>1, <2>2, <2>3, <2>4, <2>5, <2>6 DEF DialogueOK
<1>3. OutputOK
  BY DEF OutputOK
<1> QED
  BY <1>1, <1>2, <1>3 DEF ConsoleOK, LineOK, AtPrompt

\* What the tasks do to the session.
LEMMA HandleType ==
  ASSUME SessionOK, NEW task, NEW outcome, NEW errors,
         \/ HandleTask(task, outcome, errors)
         \/ HandleDownload(task, outcome, errors)
  PROVE  SessionOK'
<1> USE DEF SessionOK, Somebody, MaxLoginRetries, Profiles
<1>1. CASE FirstAnswer(task, outcome)
  BY <1>1 DEF FirstAnswer, session
<1>2. CASE GiveBack(outcome)
  BY <1>2 DEF GiveBack, Spent
<1>3. CASE RepeatOnly(task, outcome)
  BY <1>3 DEF RepeatOnly, Spent, MayRepeat
<1>4. CASE LoginAgain(task, outcome)
  BY <1>4 DEF LoginAgain
<1> QED
  BY <1>1, <1>2, <1>3, <1>4 DEF HandleTask, HandleDownload

\* A task that is not repeated is one that is answered at once.
LEMMA TaskPlain ==
  ASSUME NEW task, NEW outcome, NEW repeats, HandleTask(task, outcome, env.errors /\ repeats)
  PROVE  HandleTask(task, outcome, env.errors)
BY DEF HandleTask

\* Logging in and out.
LEMMA LoginType ==
  ASSUME SessionOK, NEW u \in Somebody, NEW on \in BOOLEAN, NEW system \in BOOLEAN,
         \/ TakeToken(u) \/ Connect \/ ResetLoginData(system) \/ KeepLogin(u)
         \/ ForgetLogin \/ KeepIf(on) \/ AssumeLogin(system, u) \/ Configure
  PROVE  SessionOK'
<1> USE DEF SessionOK, Somebody, MaxLoginRetries, Profiles
<1>1. ASSUME NEW v \in Somebody, KeepLogin(v) PROVE SessionOK'
  BY <1>1 DEF KeepLogin
<1>2. ASSUME ForgetLogin PROVE SessionOK'
  BY <1>2 DEF ForgetLogin
<1>3. CASE TakeToken(u)
  BY <1>3 DEF TakeToken
<1>4. CASE Connect
  BY <1>4 DEF Connect
<1>5. CASE ResetLoginData(system)
  BY <1>5 DEF ResetLoginData
<1>6. CASE KeepIf(on)
  BY <1>1, <1>6 DEF KeepIf, session
<1>7. CASE AssumeLogin(system, u)
  BY <1>1, <1>2, <1>7 DEF AssumeLogin
<1>8. CASE Configure
  <2>1. CASE \E stays \in BOOLEAN : profile' = [profile EXCEPT !.stays = stays]
             /\ UNCHANGED <<user, token, connected, budget>>
    BY <2>1
  <2> QED
    BY <1>1, <1>2, <1>8, <2>1 DEF Configure, session
<1> QED
  BY <1>1, <1>2, <1>3, <1>4, <1>5, <1>6, <1>7, <1>8

\* Start and stop.
LEMMA StartType ==
  ASSUME SessionOK, NEW system \in BOOLEAN, NEW outcome, NEW errors \in BOOLEAN,
         NEW checks \in BOOLEAN,
         \/ StartEarly \/ StartWithToken(system) \/ StartWithout(system)
         \/ StartWithLogin(system, outcome, errors, checks) \/ StopSession(system, errors)
  PROVE  SessionOK'
<1> USE DEF SessionOK, Somebody, MaxLoginRetries, Profiles
<1>1. CASE StartEarly \/ StartWithout(system)
  BY <1>1 DEF StartEarly, StartWithout, session
<1>2. CASE StartWithToken(system)
  BY <1>2 DEF StartWithToken
<1>3. CASE StartWithLogin(system, outcome, errors, checks)
  <2> USE <1>3 DEF StartWithLogin
  <2>1. CASE StartConnected(outcome, checks)
    BY <2>1 DEF StartConnected
  <2>2. CASE StartFailed(outcome, errors)
    <3>1. budget' \in -1 .. 1
      BY <2>2 DEF StartFailed
    <3>2. token' \in Somebody /\ profile' \in Profiles
      BY <2>2 DEF StartFailed
    <3>3. user' \in Somebody /\ connected' \in BOOLEAN
      BY <2>2 DEF StartFailed
    <3> QED
      BY <3>1, <3>2, <3>3
  <2> QED
    BY <2>1, <2>2
<1>4. CASE StopSession(system, errors)
  <2>1. profile' = profile \/ profile' = [profile EXCEPT !.token = user]
    BY <1>4 DEF StopSession
  <2>2. profile' \in Profiles
    BY <2>1
  <2>3. budget' \in -1 .. 1
    BY <1>4 DEF StopSession
  <2>4. user' \in Somebody /\ token' \in Somebody /\ connected' \in BOOLEAN
    BY <1>4 DEF StopSession
  <2> QED
    BY <2>2, <2>3, <2>4
<1> QED
  BY <1>1, <1>2, <1>3, <1>4

\* The line that is worked on, and its handler's steps.
LEMMA InRun ==
  ASSUME ConsoleOK, pc = "run"
  PROVE  /\ line \in Lines /\ line # NoLine /\ line.cmd \in Cmds /\ line.cmd \in env.cmds
         /\ Len(line.vals) <= Len(CmdArgs[line.cmd].args)
         /\ Len(Steps[line.cmd]) \in Nat /\ End = Len(Steps[line.cmd]) + 1
         /\ at \in 1 .. End /\ CmdSteps[line.cmd] = Steps[line.cmd]
         /\ Step = Steps[line.cmd][at]
<1>1. line \in Lines /\ line.cmd \in env.cmds /\ line # NoLine
      /\ Len(line.vals) <= Len(CmdArgs[line.cmd].args)
  BY DEF ConsoleOK, LineOK, Lines
<1>2. line.cmd \in Cmds
  BY <1>1, ScenarioOK DEF ConsoleOK
<1>3. Len(Steps[line.cmd]) \in Nat /\ CmdSteps[line.cmd] = Steps[line.cmd]
  BY <1>2, CommandOK
<1> QED
  BY <1>1, <1>2, <1>3 DEF ConsoleOK, End, Step

\* A handler goes on.
LEMMA GotoType ==
  ASSUME ConsoleOK, env' = env, pc = "run", NEW n \in 1 .. End, Goto(n),
         SessionOK', OutputOK', echo' \in BOOLEAN
  PROVE  ConsoleOK'
<1>1. pc' = pc /\ line' = line /\ at' = n
  BY DEF Goto
<1>2. line # NoLine /\ LineOK
  BY InRun DEF ConsoleOK
<1>3. LineOK'
  BY <1>1, <1>2 DEF LineOK, Lines, CmdArgs
<1>4. DialogueOK'
  BY DEF Goto, dialogue, ConsoleOK, DialogueOK
<1>5. End' = End
  BY <1>1 DEF End, CmdSteps
<1> QED
  BY <1>1, <1>2, <1>3, <1>4, <1>5 DEF ConsoleOK, AtPrompt

\* Where a handler goes on, and what is then redirected.
LEMMA NextStep ==
  ASSUME ConsoleOK, pc = "run"
  PROVE  /\ End \in 1 .. End
         /\ at < End => at + 1 \in 1 .. End
         /\ \A op : Running(op) => at < End /\ at + 1 \in 1 .. End
         /\ Running("account") \/ Running("billing") => at + 2 \in 1 .. End
<1> USE InRun
<1>1. \A op : Running(op) => at < End /\ Steps[line.cmd][at].op = op
  BY DEF Running
<1>2. Running("account") => at + 2 \in 1 .. End
  <2> SUFFICES ASSUME Running("account") PROVE at + 2 \in 1 .. End
    OBVIOUS
  <2>1. at \in 1 .. Len(Steps[line.cmd]) /\ Steps[line.cmd][at].op = "account"
    BY <1>1
  <2>2. /\ Len(Steps[line.cmd]) = 7
        /\ \A i \in 1 .. 7 : Steps[line.cmd][i].op = LoginOrder[i]
    BY <2>1, LoginInOrder
  <2>3. at # 7
    BY <2>1, <2>2 DEF LoginOrder
  <2> QED
    BY <2>1, <2>2, <2>3
<1>3. Running("billing") => at + 2 \in 1 .. End
  <2> SUFFICES ASSUME Running("billing") PROVE at + 2 \in 1 .. End
    OBVIOUS
  <2>1. at \in 1 .. Len(Steps[line.cmd]) /\ Steps[line.cmd][at].op = "billing"
    BY <1>1
  <2>2. at < Len(Steps[line.cmd])
    BY <2>1, LeavesOut
  <2> QED
    BY <2>1, <2>2
<1> QED
  BY <1>1, <1>2, <1>3

\* A command ends.
LEMMA FinishType ==
  ASSUME ConsoleOK, env' = env, NEW c, NEW next \in {"prompt", "stopping"}, Finish(c, next)
  PROVE  ConsoleOK'
<1> USE DEF Finish, ConsoleOK
<1>1. LineOK'
  BY DEF LineOK
<1>2. DialogueOK'
  <2>1. count' \subseteq Reprompts
    BY DEF DialogueOK, Reset
  <2>2. prompt' \in Prompts
    BY DEF DialogueOK, MainPrompt, Prompts
  <2>3. incomplete' \in BOOLEAN /\ mask' \in BOOLEAN /\ echo' \in BOOLEAN
    BY DEF DialogueOK
  <2>4. asked' \in Prompts \ {"main"}
    BY DEF Prompts
  <2>5. blanks' \in 0 .. 3
    OBVIOUS
  <2>6. validated' \subseteq env'.cmds
    BY DEF DialogueOK
  <2> QED
    BY <2>1, <2>2, <2>3, <2>4, <2>5, <2>6 DEF DialogueOK
<1>3. OutputOK'
  BY DEF OutputOK, output, service
<1>4. SessionOK'
  BY DEF SessionOK, session, service
<1>5. /\ pc' = next /\ line' = NoLine /\ incomplete' = FALSE
  OBVIOUS
<1> QED
  BY <1>1, <1>2, <1>3, <1>4, <1>5 DEF AtPrompt

\* The steps that change the session.
LEMMA SessionStepType ==
  ASSUME ConsoleOK, env' = env, pc = "run", SessionStep
  PROVE  ConsoleOK'
<1> USE NextStep
<1>1. SessionOK /\ OutputOK /\ echo \in BOOLEAN /\ System \in BOOLEAN
  BY ScenarioOK DEF ConsoleOK, DialogueOK, System
<1>2. ASSUME UNCHANGED <<types, trapped, echo, output>>
      PROVE  OutputOK' /\ echo' \in BOOLEAN
  BY <1>1, <1>2 DEF OutputOK, output
<1>3. CASE TokenStep
  <2>1. PICK u \in Named : TakeToken(u)
    BY <1>3 DEF TokenStep
  <2>2. u \in Somebody
    BY ScenarioOK DEF Named, ConsoleOK, SessionOK, Profiles, Somebody
  <2>3. SessionOK'
    BY <1>1, <2>1, <2>2, LoginType
  <2> QED
    BY <1>2, <1>3, <2>3, GotoType DEF TokenStep
<1>4. CASE AccountStep
  <2>1. SessionOK'
    BY <1>1, <1>4, HandleType DEF AccountStep, session, SessionOK
  <2>2. Goto(at + 1) \/ Goto(at + 2)
    BY <1>4 DEF AccountStep
  <2> QED
    BY <1>2, <1>4, <2>1, <2>2, GotoType DEF AccountStep
<1>5. CASE ConnectStep
  <2>1. SessionOK'
    BY <1>1, <1>5, LoginType DEF ConnectStep, Somebody
  <2>2. Goto(at + 1) \/ Goto(End)
    BY <1>5 DEF ConnectStep
  <2> QED
    BY <1>2, <1>5, <2>1, <2>2, GotoType DEF ConnectStep
<1>6. CASE KeepStep
  <2>1. SessionOK'
    BY <1>1, <1>6, LoginType DEF KeepStep, Somebody
  <2> QED
    BY <1>2, <1>6, <2>1, GotoType DEF KeepStep
<1>7. CASE ForgetStep
  <2>1. SessionOK'
    <3>1. CASE ForgetLogin
      BY <1>1, <3>1, LoginType DEF Somebody
    <3>2. CASE UNCHANGED session
      BY <1>1, <3>2 DEF session, SessionOK
    <3> QED
      BY <1>7, <3>1, <3>2 DEF ForgetStep
  <2>2. Goto(at + 1) \/ Goto(End)
    BY <1>7 DEF ForgetStep
  <2> QED
    BY <1>2, <1>7, <2>1, <2>2, GotoType DEF ForgetStep
<1>8. CASE AssumeStep
  <2>1. PICK u \in env.users : AssumeLogin(System, u)
    BY <1>8 DEF AssumeStep
  <2>2. u \in Somebody
    BY ScenarioOK DEF ConsoleOK, Somebody
  <2>3. SessionOK'
    BY <1>1, <2>1, <2>2, LoginType
  <2> QED
    BY <1>2, <1>8, <2>3, GotoType DEF AssumeStep
<1>9. CASE ConfigureStep
  <2>1. SessionOK'
    BY <1>1, <1>9, LoginType DEF ConfigureStep, Somebody
  <2> QED
    BY <1>2, <1>9, <2>1, GotoType DEF ConfigureStep
<1>10. CASE DisconnectStep
  <2>1. SessionOK'
    BY <1>1, <1>10, LoginType DEF DisconnectStep, Somebody
  <2> QED
    BY <1>2, <1>10, <2>1, GotoType DEF DisconnectStep
<1> QED
  BY <1>3, <1>4, <1>5, <1>6, <1>7, <1>8, <1>9, <1>10 DEF SessionStep

\* The steps that run a task or want the list of storage types.
LEMMA ServiceStepType ==
  ASSUME ConsoleOK, env' = env, pc = "run", ServiceStep
  PROVE  ConsoleOK'
<1> USE NextStep
<1>1. SessionOK /\ OutputOK /\ echo \in BOOLEAN /\ Windows \in BOOLEAN
  BY ScenarioOK DEF ConsoleOK, DialogueOK, Windows
<1>2. ASSUME UNCHANGED session PROVE SessionOK'
  BY <1>1, <1>2 DEF SessionOK, session
<1>3. CASE TaskStep
  <2>1. SessionOK'
    BY <1>1, <1>3, HandleType, TaskPlain DEF TaskStep
  <2>2. Goto(at + 1) \/ Goto(End)
    BY <1>3 DEF TaskStep
  <2>3. OutputOK' /\ echo' \in BOOLEAN
    BY <1>1, <1>3 DEF TaskStep, Traps, OutputOK, EndRedirect, output
  <2> QED
    BY <1>3, <2>1, <2>2, <2>3, GotoType DEF TaskStep
<1>4. CASE DownloadStep
  <2>1. SessionOK'
    BY <1>1, <1>4, HandleType DEF DownloadStep
  <2>2. OutputOK' /\ echo' \in BOOLEAN
    BY <1>1, <1>4 DEF DownloadStep, Traps, OutputOK, output
  <2> QED
    BY <1>4, <2>1, <2>2, GotoType DEF DownloadStep
<1>5. CASE NeedTypesStep
  <2>1. OutputOK' /\ echo' \in BOOLEAN
    BY <1>1, <1>5 DEF NeedTypesStep, Filled, OutputOK, output
  <2> QED
    BY <1>2, <1>5, <2>1, GotoType DEF NeedTypesStep
<1>6. CASE NewTypesStep
  <2>1. OutputOK' /\ echo' \in BOOLEAN
    BY <1>1, <1>6 DEF NewTypesStep, OutputOK, output
  <2> QED
    BY <1>2, <1>6, <2>1, GotoType DEF NewTypesStep
<1>7. CASE FillTypesStep
  <2>1. OutputOK' /\ echo' \in BOOLEAN
    BY <1>1, <1>7 DEF FillTypesStep, EndRedirect, OutputOK, output
  <2>2. Goto(at + 1) \/ Goto(End)
    BY <1>7 DEF FillTypesStep
  <2> QED
    BY <1>2, <1>7, <2>1, <2>2, GotoType DEF FillTypesStep
<1>8. CASE UseTypesStep
  <2>1. OutputOK' /\ echo' \in BOOLEAN /\ SessionOK'
    BY <1>1, <1>2, <1>8 DEF UseTypesStep, Filled, OutputOK, output
  <2>2. CASE Goto(at + 1)
    BY <1>8, <2>1, <2>2, GotoType DEF UseTypesStep
  <2>3. CASE pc' = "crashed" /\ UNCHANGED <<line, at, dialogue, validated, types>>
    <3>1. LineOK'
      BY <2>3 DEF ConsoleOK, LineOK, Lines, CmdArgs
    <3>2. DialogueOK'
      BY <2>1, <2>3 DEF ConsoleOK, DialogueOK, dialogue
    <3> QED
      BY <2>1, <2>3, <3>1, <3>2 DEF ConsoleOK, AtPrompt
  <2> QED
    BY <1>8, <2>2, <2>3 DEF UseTypesStep
<1> QED
  BY <1>3, <1>4, <1>5, <1>6, <1>7, <1>8 DEF ServiceStep

\* The other steps that go on or end the command.
LEMMA ConsoleStepType ==
  ASSUME ConsoleOK, env' = env, pc = "run", ConsoleStep
  PROVE  ConsoleOK'
<1> USE NextStep
<1>1. SessionOK /\ OutputOK /\ echo \in BOOLEAN /\ Windows \in BOOLEAN
  BY ScenarioOK DEF ConsoleOK, DialogueOK, Windows
<1>2. ASSUME UNCHANGED service PROVE SessionOK'
  BY <1>1, <1>2 DEF SessionOK, session, service
<1>3. ASSUME Quiet PROVE SessionOK' /\ OutputOK' /\ echo' \in BOOLEAN
  BY <1>1, <1>2, <1>3 DEF Quiet, OutputOK, output, service
<1>4. CASE Finished \/ Exit
  BY <1>4, FinishType DEF Finished, Exit, Afterwards
<1>5. CASE Skip \/ ShowStep
  BY <1>3, <1>5, GotoType DEF Skip, ShowStep
<1>6. CASE GateStep
  <2>1. Goto(at + 1) \/ Goto(End)
    BY <1>6 DEF GateStep
  <2> QED
    BY <1>3, <1>6, <2>1, GotoType DEF GateStep
<1>7. CASE MayEndStep
  <2>1. OutputOK' /\ echo' \in BOOLEAN
    BY <1>1, <1>7 DEF MayEndStep, EndRedirect, OutputOK, output, service
  <2> QED
    BY <1>2, <1>7, <2>1, GotoType DEF MayEndStep
<1>8. CASE RedirectStep
  <2>1. OutputOK' /\ echo' \in BOOLEAN
    BY <1>1, <1>8 DEF RedirectStep, OutputOK, output, service
  <2> QED
    BY <1>2, <1>8, <2>1, GotoType DEF RedirectStep
<1>9. CASE RestoreStep
  <2>1. OutputOK' /\ echo' \in BOOLEAN
    BY <1>1, <1>9 DEF RestoreStep, EndRedirect, OutputOK, output, service
  <2> QED
    BY <1>2, <1>9, <2>1, GotoType DEF RestoreStep
<1>10. CASE EchoStep
  <2>1. OutputOK' /\ echo' \in BOOLEAN
    BY <1>1, <1>10 DEF EchoStep, OutputOK, output, service
  <2> QED
    BY <1>2, <1>10, <2>1, GotoType DEF EchoStep
<1> QED
  BY <1>4, <1>5, <1>6, <1>7, <1>8, <1>9, <1>10 DEF ConsoleStep

\* How often a user has been reminded is a number.
LEMMA CountOK ==
  ASSUME count \subseteq Reprompts, NEW c, NEW a
  PROVE  Count(c, a) \in Nat
<1> DEFINE S == {r \in count : r[1] = c /\ r[2] = a}
<1>1. IsFiniteSet({<<c, a, 1>>, <<c, a, 2>>})
  <2> DEFINE s == <<c, a, 1>>  t == <<c, a, 2>>
  <2>1. IsFiniteSet({s} \cup {t})
    <3> HIDE DEF s, t
    <3> QED  BY FS_Singleton, FS_AddElement
  <2>2. {s, t} = {s} \cup {t}
    OBVIOUS
  <2> QED
    BY <2>1, <2>2
<1>2. S \subseteq {<<c, a, 1>>, <<c, a, 2>>}
  BY DEF Reprompts
<1> QED
  BY <1>1, <1>2, FS_Subset, FS_CardinalityType DEF Count

\* A reminder is counted.
LEMMA RemindedOK ==
  ASSUME ConsoleOK, pc = "run", NEW a \in ArgNames, Step.limit \in 1 .. 2, MayAsk(a),
         Reminded(a)
  PROVE  count' \subseteq Reprompts
<1>1. count \subseteq Reprompts
  BY DEF ConsoleOK, DialogueOK
<1>2. Count(line.cmd, a) \in Nat
  BY <1>1, CountOK
<1>3. Count(line.cmd, a) + 1 \in 1 .. 2
  BY <1>2 DEF MayAsk
<1> QED
  BY <1>1, <1>3, InRun DEF Reminded, Reprompts

\* A word of the line is bound to an argument of the command.
LEMMA BoundOK ==
  ASSUME ConsoleOK, line \in Lines, line.cmd \in Cmds,
         Len(line.vals) <= Len(CmdArgs[line.cmd].args), NEW k \in DOMAIN line.vals
  PROVE  ArgAt(line.cmd, k) \in ArgNames
<1>1. CmdArgs[line.cmd] = Args[line.cmd] /\ Args[line.cmd].args \in Seq(ArgNames)
  BY CommandOK
<1>2. k \in 1 .. Len(Args[line.cmd].args)
  BY <1>1 DEF Lines
<1>3. 1 \in 1 .. Len(Args[line.cmd].args)
  BY <1>1, <1>2
<1> QED
  BY <1>1, <1>2, <1>3 DEF ArgAt

\* What is asked for is an argument.
LEMMA BillingAsksOK ==
  ASSUME ConsoleOK, Running("billing"), ~BillingComplete
  PROVE  BillingAsks \in ArgNames /\ Step.limit \in 1 .. 2
<1>1. ASSUME NEW a \in Refused PROVE a \in ArgNames
  <2>1. \E k \in DOMAIN line.vals : ArgAt(line.cmd, k) = a
    BY <1>1 DEF Refused, Wrong
  <2> QED
    BY <2>1, BoundOK, InRun DEF Running
<1>2. pc = "run" /\ at < End /\ Step.op = "billing"
  BY InRun DEF Running
<1>3. Step.limit \in 1 .. 2
  <2>1. at \in 1 .. Len(Steps[line.cmd]) /\ Step = Steps[line.cmd][at]
    BY <1>2, InRun
  <2> QED
    BY <1>2, <2>1, InRun, ConsoleAssumption
<1>4. CASE Refused = {}
  BY <1>2, <1>3, <1>4, AskedOK DEF BillingComplete, BillingAsks
<1>5. CASE Refused # {}
  <2>1. "expires" \in Refused \/ "cvv" \in Refused \/ "number" \in Refused
    BY <1>5 DEF Refused, Checked
  <2>2. BillingAsks \in Refused
    BY <2>1 DEF BillingAsks
  <2> QED
    BY <1>1, <1>3, <2>2
<1> QED
  BY <1>4, <1>5

\* The values that are refused are taken off the end of the line.
LEMMA ClearLastOK ==
  ASSUME line \in Lines, NEW n \in Nat
  PROVE  /\ ClearLast(line, n) \in Lines /\ ClearLast(line, n).cmd = line.cmd
         /\ Len(ClearLast(line, n).vals) <= Len(line.vals)
<1> DEFINE v == SubSeq(line.vals, 1, Len(line.vals) - n)
<1>1. line.vals \in Seq(Values) /\ Len(line.vals) \in Nat
  BY DEF Lines
<1>2. v \in Seq(Values) /\ Len(v) <= Len(line.vals)
  BY <1>1
<1>3. ClearLast(line, n) = [line EXCEPT !.vals = v]
  BY DEF ClearLast
<1> HIDE DEF v
<1> QED
  BY <1>2, <1>3 DEF Lines

\* There are few of them.
LEMMA RefusedOK == Cardinality(Refused) \in Nat
<1>1. IsFiniteSet(Checked)
  <2>1. Checked = ({"number"} \cup {"cvv"}) \cup {"expires"}
    BY DEF Checked
  <2> QED
    BY <2>1, FS_Singleton, FS_AddElement
<1> QED
  BY <1>1, FS_Subset, FS_CardinalityType DEF Refused

\* A handler waits for an answer.
LEMMA AwaitType ==
  ASSUME ConsoleOK, env' = env, pc = "run", NEW a \in ArgNames, Await(a),
         mask' \in BOOLEAN, count' \subseteq Reprompts, validated' \subseteq env.cmds,
         line' \in Lines, line'.cmd = line.cmd, Len(line'.vals) <= Len(line.vals)
  PROVE  ConsoleOK'
<1>1. LineOK'
  <2>1. Len(line'.vals) <= Len(CmdArgs[line.cmd].args)
    <3>1. Len(line.vals) \in Nat /\ Len(line'.vals) \in Nat
      BY InRun DEF Lines
    <3>2. Len(CmdArgs[line.cmd].args) \in Nat
      BY InRun, CommandOK
    <3> QED
      BY <3>1, <3>2, InRun
  <2> QED
    BY <2>1 DEF LineOK, Lines, CmdArgs
<1>2. DialogueOK'
  <2>1. a # "main" /\ a # "none" /\ a \in Prompts
    BY ConsoleAssumption DEF Prompts
  <2>2. prompt' \in Prompts
    BY <2>1 DEF Await, ConsoleOK, DialogueOK, Prompts
  <2>3. blanks' \in 0 .. 3 /\ echo' \in BOOLEAN
    BY DEF Await, ConsoleOK, DialogueOK
  <2>4. asked' \in Prompts \ {"main"} /\ incomplete' \in BOOLEAN
    BY <2>1 DEF Await
  <2> QED
    BY <2>2, <2>3, <2>4 DEF DialogueOK
<1>3. OutputOK'
  BY DEF Await, ConsoleOK, OutputOK, output, service
<1>4. SessionOK'
  BY DEF Await, ConsoleOK, SessionOK, session, service
<1>5. line' # NoLine
  BY InRun, ConsoleAssumption DEF NoLine
<1>6. pc' = "prompt" /\ incomplete' = TRUE /\ asked' # "none"
  BY ConsoleAssumption DEF Await
<1> QED
  BY <1>1, <1>2, <1>3, <1>4, <1>5, <1>6 DEF ConsoleOK, AtPrompt

\* An answer is shown or not.
LEMMA MaskedOK ==
  ASSUME ConsoleOK, NEW a, Masked(a)
  PROVE  mask' \in BOOLEAN
<1>1. mask \in BOOLEAN
  BY DEF ConsoleOK, DialogueOK
<1>2. CASE Step.masked = {}
  BY <1>1, <1>2 DEF Masked
<1>3. CASE Step.masked # {}
  <2>1. mask' = (a \in Step.masked)
    BY <1>3, Zenon DEF Masked
  <2>2. (a \in Step.masked) \in BOOLEAN
    OBVIOUS
  <2> QED
    BY <2>1, <2>2, Zenon
<1> QED
  BY <1>2, <1>3

\* The steps that ask.
LEMMA AskingStepType ==
  ASSUME ConsoleOK, env' = env, pc = "run", AskingStep
  PROVE  ConsoleOK'
<1> USE NextStep
<1>1. /\ line \in Lines /\ Len(line.vals) <= Len(line.vals)
      /\ mask \in BOOLEAN /\ count \subseteq Reprompts /\ validated \subseteq env.cmds
      /\ incomplete \in BOOLEAN
  BY InRun DEF ConsoleOK, DialogueOK, Lines
<1>2. ASSUME Quiet PROVE SessionOK' /\ OutputOK' /\ echo' \in BOOLEAN
  BY <1>2 DEF Quiet, OutputOK, output, service, ConsoleOK, DialogueOK, SessionOK, session
<1>3. Validated \subseteq env.cmds
  BY <1>1, InRun DEF Validated
<1>4. ASSUME at' \in 1 .. End, UNCHANGED <<pc, incomplete, asked, prompt, count, blanks>>,
             mask' \in BOOLEAN, validated' \subseteq env.cmds, line' \in Lines,
             line'.cmd = line.cmd, Len(line'.vals) <= Len(line.vals), Quiet
      PROVE  ConsoleOK'
  <2>1. LineOK'
    <3>1. Len(line.vals) \in Nat /\ Len(line'.vals) \in Nat
      BY <1>4 DEF Lines
    <3>2. Len(CmdArgs[line.cmd].args) \in Nat
      BY InRun, CommandOK
    <3>3. Len(line'.vals) <= Len(CmdArgs[line.cmd].args)
      BY <1>4, <3>1, <3>2, InRun
    <3> QED
      BY <1>4, <3>3 DEF LineOK, Lines, CmdArgs
  <2>2. DialogueOK'
    BY <1>2, <1>4 DEF ConsoleOK, DialogueOK
  <2>3. line' # NoLine /\ End' = End
    BY <1>4, InRun, ConsoleAssumption DEF NoLine, End, CmdSteps
  <2> QED
    BY <1>2, <1>4, <2>1, <2>2, <2>3 DEF ConsoleOK, AtPrompt
<1>5. CASE AllGiven
  <2>1. at' \in 1 .. End /\ mask' \in BOOLEAN
    BY <1>5 DEF AllGiven
  <2> QED
    BY <1>1, <1>4, <1>5, <2>1 DEF AllGiven
<1>6. CASE AskStep
  <2>1. FirstEmpty \in ArgNames /\ Step.limit \in 1 .. 2
    BY <1>6, AskedOK, InRun DEF AskStep, Running
  <2>2. count' \subseteq Reprompts
    BY <1>6, <2>1, RemindedOK DEF AskStep
  <2>3. mask' \in BOOLEAN
    BY <1>6, MaskedOK DEF AskStep
  <2> QED
    BY <1>1, <1>6, <2>1, <2>2, <2>3, AwaitType DEF AskStep
<1>7. CASE GiveUp
  <2>1. Goto(at + 1) \/ Goto(End)
    BY <1>7 DEF GiveUp
  <2>2. at + 1 \in 1 .. End
    BY <1>7 DEF GiveUp
  <2> QED
    BY <1>2, <1>7, <2>1, <2>2, GotoType DEF GiveUp
<1>8. CASE AskLogin
  <2>1. FirstEmpty \in ArgNames
    BY <1>8, AskedOK, InRun DEF AskLogin, Running
  <2>2. mask' \in BOOLEAN
    BY <1>8, MaskedOK DEF AskLogin
  <2> QED
    BY <1>1, <1>8, <2>1, <2>2, AwaitType DEF AskLogin
<1>9. CASE LoginFromProfile
  BY <1>1, <1>4, <1>9 DEF LoginFromProfile
<1>10. CASE BillingGiven
  BY <1>1, <1>3, <1>4, <1>10 DEF BillingGiven, dialogue
<1>11. line' = ClearLast(line, Cardinality(Refused)) =>
         line' \in Lines /\ line'.cmd = line.cmd /\ Len(line'.vals) <= Len(line.vals)
  BY <1>1, ClearLastOK, RefusedOK
<1>12. CASE AskBilling
  <2>1. BillingAsks \in ArgNames /\ Step.limit \in 1 .. 2
    BY <1>12, BillingAsksOK DEF AskBilling
  <2>2. count' \subseteq Reprompts
    BY <1>12, <2>1, RemindedOK DEF AskBilling
  <2> QED
    BY <1>1, <1>3, <1>11, <1>12, <2>1, <2>2, AwaitType DEF AskBilling
<1>13. CASE BillingGivenUp
  BY <1>1, <1>3, <1>4, <1>11, <1>13 DEF BillingGivenUp, dialogue
<1> QED
  BY <1>5, <1>6, <1>7, <1>8, <1>9, <1>10, <1>12, <1>13 DEF AskingStep

\* A line that is refused is forgotten.
LEMMA RefuseType ==
  ASSUME ConsoleOK, env' = env, AtPrompt, Refuse
  PROVE  ConsoleOK'
<1> USE DEF Refuse, ConsoleOK
<1>1. LineOK'
  BY DEF LineOK
<1>2. DialogueOK'
  <2>1. prompt' \in Prompts
    BY DEF DialogueOK, MainPrompt, Prompts
  <2> QED
    BY <2>1 DEF DialogueOK
<1>3. OutputOK' /\ SessionOK'
  BY DEF OutputOK, output, service, SessionOK, session
<1>4. line' = NoLine /\ incomplete' = FALSE /\ pc' \in {"prompt", "stopping"}
  OBVIOUS
<1> QED
  BY <1>1, <1>2, <1>3, <1>4 DEF AtPrompt

\* A line or an answer goes to the handler, or is refused.
LEMMA SubmitType ==
  ASSUME ConsoleOK, env' = env, AtPrompt, NEW l \in Lines, NEW n \in 0 .. 3, Submit(l, n)
  PROVE  ConsoleOK'
<1>1. CASE Run(l) /\ blanks' = n
  <2> USE <1>1 DEF Run
  <2>1. line' = l /\ at' = 1 /\ pc' = "run"
    OBVIOUS
  <2>2. LineOK'
    BY <2>1 DEF Parses, LineOK, Lines, CmdArgs
  <2>3. DialogueOK'
    BY DEF ConsoleOK, DialogueOK
  <2>4. OutputOK' /\ SessionOK'
    BY DEF ConsoleOK, OutputOK, output, service, SessionOK, session
  <2>5. l # NoLine /\ l.cmd \in Cmds
    BY ScenarioOK, ConsoleAssumption DEF ConsoleOK, Lines, NoLine
  <2>6. End' = Len(Steps[l.cmd]) + 1 /\ 1 \in 1 .. End'
    BY <2>1, <2>5, CommandOK DEF End, CmdSteps
  <2> QED
    BY <2>1, <2>2, <2>3, <2>4, <2>5, <2>6 DEF ConsoleOK, AtPrompt
<1>2. CASE Refuse
  BY <1>2, RefuseType
<1> QED
  BY <1>1, <1>2 DEF Submit

\* What the user does.
LEMMA UserStepType ==
  ASSUME ConsoleOK, env' = env, UserStep
  PROVE  ConsoleOK'
<1>1. AtPrompt /\ (incomplete => line \in Lines)
  BY DEF UserStep, ConsoleOK, LineOK
<1>2. ASSUME NEW c \in env.cmds, TypeLine(c) PROVE ConsoleOK'
  <2>1. PICK k \in 0 .. Len(CmdArgs[c].args), out \in {FALSE, CmdArgs[c].output},
          bad \in SUBSET (Checked \cap Range(CmdArgs[c].args)) :
          Submit([cmd |-> c, output |-> out,
                  vals |-> [i \in 1 .. k |->
                              [for |-> ArgAt(c, i),
                               kind |-> IF ArgAt(c, i) \in bad THEN "bad" ELSE "good"]]], 0)
    BY <1>2 DEF TypeLine
  <2> DEFINE v == [i \in 1 .. k |->
                     [for |-> ArgAt(c, i),
                      kind |-> IF ArgAt(c, i) \in bad THEN "bad" ELSE "good"]]
  <2>2. c \in Cmds
    BY ScenarioOK DEF ConsoleOK
  <2>3. /\ CmdArgs[c] = Args[c] /\ Args[c].args \in Seq(ArgNames)
        /\ Len(Args[c].args) \in Nat /\ k \in Nat /\ out \in BOOLEAN
    <3>1. /\ CmdArgs[c] = Args[c] /\ Args[c].args \in Seq(ArgNames)
          /\ Len(Args[c].args) \in Nat /\ Args[c].output \in BOOLEAN
      BY <2>2, CommandOK
    <3>2. k \in 0 .. Len(Args[c].args) /\ out \in {FALSE, Args[c].output}
      BY <3>1
    <3>3. k \in Nat
      BY <3>1, <3>2
    <3>4. out \in BOOLEAN
      BY <3>1, <3>2
    <3> QED
      BY <3>1, <3>3, <3>4
  <2>4. \A i \in 1 .. k : ArgAt(c, i) \in ArgNames
    BY <2>3 DEF ArgAt
  <2>5. v \in Seq(Values)
    <3>1. \A i \in 1 .. k : v[i] \in Values
      BY <2>4 DEF Values
    <3> QED
      BY <2>3, <3>1
  <2>6. [cmd |-> c, output |-> out, vals |-> v] \in Lines
    <3> HIDE DEF v
    <3> QED  BY <2>3, <2>5 DEF Lines
  <2> QED
    BY <1>1, <2>1, <2>6, SubmitType
<1>3. ASSUME NEW c, AskUsage(c) PROVE ConsoleOK'
  BY <1>3, FinishType DEF AskUsage, Afterwards
<1>4. ASSUME NEW kind \in {"good", "bad"}, Answer(kind) PROVE ConsoleOK'
  <2> DEFINE a == [for |-> asked, kind |-> kind]
             l == [line EXCEPT !.vals = Append(@, a)]
  <2>1. incomplete /\ AtPrompt /\ Submit(l, 0)
    BY <1>4 DEF Answer
  <2>2. asked \in ArgNames
    BY <2>1 DEF ConsoleOK, DialogueOK, Prompts
  <2>3. a \in Values
    BY <2>2 DEF Values
  <2>4. l \in Lines
    <3> HIDE DEF a
    <3> QED  BY <1>1, <2>1, <2>3 DEF Lines
  <2> QED
    BY <2>1, <2>4, SubmitType
<1>5. CASE Blank
  <2>1. Submit(line, IF blanks < 3 THEN blanks + 1 ELSE 3) /\ incomplete
    BY <1>5 DEF Blank
  <2>2. (IF blanks < 3 THEN blanks + 1 ELSE 3) \in 0 .. 3
    BY DEF ConsoleOK, DialogueOK
  <2> QED
    BY <1>1, <2>1, <2>2, SubmitType
<1>6. CASE TypeNonsense \/ AnswerNonsense \/ CtrlC
  BY <1>1, <1>6, RefuseType DEF TypeNonsense, AnswerNonsense, CtrlC
<1>7. CASE EndOfInput
  <2> USE <1>7 DEF EndOfInput
  <2>1. LineOK'
    BY DEF ConsoleOK, LineOK, Lines, CmdArgs
  <2>2. DialogueOK'
    BY DEF ConsoleOK, DialogueOK, dialogue
  <2>3. OutputOK' /\ SessionOK'
    BY DEF ConsoleOK, OutputOK, output, service, SessionOK, session
  <2> QED
    BY <2>1, <2>2, <2>3 DEF ConsoleOK, AtPrompt
<1> QED
  BY <1>2, <1>3, <1>4, <1>5, <1>6, <1>7 DEF UserStep

\* The start and the end of a process.
LEMMA ProcessStepType ==
  ASSUME ConsoleOK, env' = env, ProcessStep
  PROVE  ConsoleOK'
<1>1. SessionOK /\ env.system \in BOOLEAN /\ env.errors \in BOOLEAN /\ env.checks \in BOOLEAN
  BY ScenarioOK DEF ConsoleOK
<1>2. ASSUME Idle PROVE LineOK' /\ DialogueOK' /\ OutputOK'
  <2> USE <1>2 DEF Idle
  <2>1. LineOK'
    BY DEF ConsoleOK, LineOK, Lines, CmdArgs
  <2>2. DialogueOK'
    BY DEF ConsoleOK, DialogueOK, dialogue
  <2>3. OutputOK'
    BY DEF ConsoleOK, OutputOK, output
  <2> QED
    BY <2>1, <2>2, <2>3
<1>3. CASE Launch
  <2>1. SessionOK'
    BY <1>1, <1>3, StartType DEF Launch, System
  <2>2. pc' \in {"early", "start", "prompt", "stopped"}
    BY <1>3 DEF Launch
  <2>3. pc = "launch" /\ Idle
    BY <1>3 DEF Launch
  <2> QED
    BY <1>2, <2>1, <2>2, <2>3 DEF ConsoleOK, AtPrompt, Idle, dialogue
<1>4. CASE Stop
  <2>1. SessionOK'
    BY <1>1, <1>4, StartType DEF Stop, System
  <2> QED
    BY <1>2, <1>4, <2>1 DEF Stop, ConsoleOK, AtPrompt
<1>5. CASE Relaunch
  <2> USE <1>5 DEF Relaunch
  <2>1. LineOK'
    BY DEF LineOK
  <2>2. DialogueOK'
    <3>1. prompt' \in Prompts /\ asked' \in Prompts \ {"main"}
      BY DEF Prompts
    <3>2. count' \subseteq Reprompts /\ validated' \subseteq env'.cmds /\ blanks' \in 0 .. 3
      OBVIOUS
    <3>3. incomplete' \in BOOLEAN /\ mask' \in BOOLEAN /\ echo' \in BOOLEAN
      OBVIOUS
    <3> QED
      BY <3>1, <3>2, <3>3 DEF DialogueOK
  <2>3. OutputOK'
    BY DEF OutputOK
  <2>4. SessionOK'
    <3>1. user' \in Somebody /\ token' \in Somebody /\ connected' \in BOOLEAN
      BY DEF Somebody
    <3>2. budget' \in -1 .. MaxLoginRetries
      BY DEF MaxLoginRetries
    <3>3. profile' \in Profiles
      BY <1>1 DEF SessionOK
    <3> QED
      BY <3>1, <3>2, <3>3 DEF SessionOK
  <2>5. pc' = "launch"
    OBVIOUS
  <2> QED
    BY <2>1, <2>2, <2>3, <2>4, <2>5 DEF ConsoleOK, AtPrompt
<1>6. CASE Kill
  <2>1. SessionOK'
    BY <1>1, <1>6 DEF Kill, SessionOK, session
  <2> QED
    BY <1>2, <1>6, <2>1 DEF Kill, ConsoleOK, AtPrompt
<1> QED
  BY <1>3, <1>4, <1>5, <1>6 DEF ProcessStep

\* Nothing happens any more.
LEMMA StutterType ==
  ASSUME ConsoleOK, UNCHANGED vars
  PROVE  ConsoleOK'
<1> USE DEF vars
<1>1. LineOK'
  BY DEF ConsoleOK, LineOK, Lines, CmdArgs
<1>2. DialogueOK'
  BY DEF ConsoleOK, DialogueOK, dialogue
<1>3. OutputOK'
  BY DEF ConsoleOK, OutputOK, output, service
<1>4. SessionOK'
  BY DEF ConsoleOK, SessionOK, session, service
<1>5. UNCHANGED <<env, pc, at, line, incomplete, asked>> /\ End' = End
  BY DEF dialogue, End, CmdSteps
<1> QED
  BY <1>1, <1>2, <1>3, <1>4, <1>5 DEF ConsoleOK, AtPrompt

\* Every step keeps the type.
LEMMA NextType ==
  ASSUME ConsoleOK, [Next]_vars
  PROVE  ConsoleOK'
<1>1. CASE UserStep /\ UNCHANGED env
  BY <1>1, UserStepType
<1>2. CASE HandlerStep /\ UNCHANGED env
  BY <1>2, AskingStepType, ServiceStepType, SessionStepType, ConsoleStepType
     DEF HandlerStep
<1>3. CASE ProcessStep /\ UNCHANGED env
  BY <1>3, ProcessStepType
<1>4. CASE Stopped \/ UNCHANGED vars
  BY <1>4, StutterType DEF Stopped
<1> QED
  BY <1>1, <1>2, <1>3, <1>4 DEF Next

\* Type correctness.  The stack holds a line exactly while a command is worked on, so
\* that ProcessActionStack, AddAction and CTRL+C never take the front of an empty one.
THEOREM TypeCorrect == Spec => []TypeOK
<1>1. Init => TypeOK
  BY InitType DEF Init, TypeOK
<1>2. TypeOK /\ [Next]_vars => TypeOK'
  <2> SUFFICES ASSUME TypeOK, [Next]_vars PROVE TypeOK'
    OBVIOUS
  <2>1. ConsoleOK'
    BY NextType DEF TypeOK
  <2>2. severed' \in BOOLEAN
    BY DEF TypeOK, Next, Stopped, vars
  <2> QED
    BY <2>1, <2>2 DEF TypeOK
<1> QED
  BY <1>1, <1>2, PTL DEF Spec

-----------------------------------------------------------------------------
(* Answers.                                                                *)

\* The argument that is asked for is the one that the next word is bound to.
AskedInTurn ==
  AtPrompt /\ incomplete /\ ~Bills(line.cmd) /\ Len(line.vals) < Len(CmdArgs[line.cmd].args)
    => asked = ArgAt(line.cmd, Len(line.vals) + 1)

\* The inductive invariant.
AnswersInv == ConsoleOK /\ AnswersLand /\ AskedInTurn

\* Handlers ask for the arguments in the order in which they are bound.
LEMMA InTurn ==
  ASSUME ConsoleOK, pc = "run", at < End, Step.op \in {"ask", "asklogin", "askuser"},
         Empty # {}
  PROVE  FirstEmpty = ArgAt(line.cmd, Len(line.vals) + 1)
<1> DEFINE c == line.cmd  args == Args[c].args  n == Len(line.vals)
<1>1. /\ c \in Cmds /\ CmdArgs[c] = Args[c] /\ args \in Seq(ArgNames)
      /\ Len(args) \in Nat /\ n \in Nat /\ n <= Len(args)
      /\ DOMAIN line.vals = 1 .. n /\ DOMAIN args = 1 .. Len(args)
      /\ Args[c].many \in BOOLEAN
  BY InRun, CommandOK DEF Lines
<1>2. Step.args = args
  BY <1>1, InRun, AsksInOrder
<1>3. Empty = {i \in 1 .. Len(args) : \A k \in 1 .. n : args[i] # ArgAt(c, k)}
  BY <1>1, <1>2 DEF Empty, Bound
<1>4. /\ Empty \in SUBSET Nat /\ Min(Empty) \in Empty
      /\ \A i \in Empty : Min(Empty) <= i
  <2>1. Empty \in SUBSET Nat
    BY <1>3
  <2> QED
    BY <2>1, FirstOf
<1>5. CASE Args[c].many
  <2>1. Len(args) = 1
    BY <1>1, <1>5, ConsoleAssumption
  <2>2. Min(Empty) = 1
    BY <1>3, <1>4, <2>1
  <2> QED
    BY <1>1, <1>2, <1>5, <2>2 DEF ArgAt, FirstEmpty
<1>6. CASE ~Args[c].many
  <2>1. \A k : ArgAt(c, k) = args[k]
    BY <1>1, <1>6 DEF ArgAt
  <2>2. \A i, k \in 1 .. Len(args) : args[i] = args[k] => i = k
    BY <1>1, ArgsDiffer
  <2>3. Empty = n + 1 .. Len(args)
    BY <1>1, <1>3, <2>1, <2>2
  <2>4. Min(Empty) = n + 1
    <3>1. PICK m \in n + 1 .. Len(args) : m = Min(Empty)
      BY <1>4, <2>3
    <3>2. n + 1 \in Empty
      BY <1>1, <2>3, <3>1
    <3>3. m <= n + 1
      BY <1>4, <3>1, <3>2
    <3> QED
      BY <1>1, <3>1, <3>3
  <2> QED
    BY <1>2, <2>1, <2>4 DEF FirstEmpty
<1> QED
  BY <1>1, <1>5, <1>6

\* What a handler makes of the line.
LEMMA HandlerLine ==
  ASSUME ConsoleOK, HandlerStep
  PROVE  \/ line' = NoLine
         \/ line' = line /\ ~AtPrompt'
         \/ /\ line' = line /\ asked' = FirstEmpty /\ Empty # {} /\ at < End
            /\ Step.op \in {"ask", "asklogin", "askuser"}
         \/ Bills(line.cmd) /\ line'.cmd = line.cmd
<1> USE DEF HandlerStep, AtPrompt
<1>1. ASSUME NEW n, Goto(n) PROVE line' = line /\ ~AtPrompt'
  BY <1>1 DEF Goto
<1>2. CASE SessionStep
  BY <1>1, <1>2 DEF SessionStep, TokenStep, AccountStep, ConnectStep, KeepStep,
     ForgetStep, AssumeStep, ConfigureStep, DisconnectStep
<1>3. CASE ServiceStep
  BY <1>1, <1>3 DEF ServiceStep, TaskStep, DownloadStep, NeedTypesStep, NewTypesStep,
     FillTypesStep, UseTypesStep
<1>4. CASE ConsoleStep
  BY <1>1, <1>4 DEF ConsoleStep, Finished, Exit, Finish, Skip, GateStep, ShowStep,
     MayEndStep, RedirectStep, RestoreStep, EchoStep
<1>5. CASE AllGiven \/ GiveUp \/ LoginFromProfile
  BY <1>1, <1>5 DEF AllGiven, GiveUp, LoginFromProfile
<1>6. CASE AskStep \/ AskLogin
  BY <1>6, InRun DEF AskStep, AskLogin, Running, Await
<1>7. CASE BillingGiven \/ AskBilling \/ BillingGivenUp
  <2>1. Running("billing")
    BY <1>7 DEF BillingGiven, AskBilling, BillingGivenUp
  <2>2. Bills(line.cmd)
    <3>1. at \in 1 .. Len(Steps[line.cmd]) /\ Steps[line.cmd][at].op = "billing"
      BY <2>1, InRun DEF Running
    <3>2. at \in DOMAIN CmdSteps[line.cmd] /\ CmdSteps[line.cmd][at].op = "billing"
      BY <3>1, InRun, ConsoleAssumption
    <3> QED
      BY <3>2 DEF Bills
  <2>3. line'.cmd = line.cmd
    BY <1>7, InRun, ClearLastOK, RefusedOK DEF BillingGiven, AskBilling, BillingGivenUp
  <2> QED
    BY <2>2, <2>3
<1> QED
  BY <1>2, <1>3, <1>4, <1>5, <1>6, <1>7 DEF AskingStep

\* A line that is typed or has got an answer.
LEMMA SubmitAnswers ==
  ASSUME NEW l, NEW n, Submit(l, n),
         ~Bills(l.cmd) => \A k \in DOMAIN l.vals : l.vals[k].for = ArgAt(l.cmd, k)
  PROVE  AnswersLand' /\ AskedInTurn'
<1>1. CASE Run(l)
  BY <1>1 DEF Run, AnswersLand, AskedInTurn, AtPrompt, ArgAt, Bills
<1>2. CASE Refuse
  BY <1>2 DEF Refuse, AnswersLand, AskedInTurn
<1> QED
  BY <1>1, <1>2 DEF Submit

\* What the user does.
LEMMA UserAnswers ==
  ASSUME AnswersInv, UserStep
  PROVE  AnswersLand' /\ AskedInTurn'
<1> USE DEF AnswersInv
<1>1. ASSUME NEW c, TypeLine(c) PROVE AnswersLand' /\ AskedInTurn'
  <2>1. PICK k \in 0 .. Len(CmdArgs[c].args), out \in {FALSE, CmdArgs[c].output},
          bad \in SUBSET (Checked \cap Range(CmdArgs[c].args)) :
          Submit([cmd |-> c, output |-> out,
                  vals |-> [i \in 1 .. k |->
                              [for |-> ArgAt(c, i),
                               kind |-> IF ArgAt(c, i) \in bad THEN "bad" ELSE "good"]]], 0)
    BY <1>1 DEF TypeLine
  <2> QED
    BY <2>1, SubmitAnswers
<1>2. ASSUME NEW c, AskUsage(c) PROVE AnswersLand' /\ AskedInTurn'
  BY <1>2 DEF AskUsage, Finish, AnswersLand, AskedInTurn
<1>3. ASSUME NEW kind \in {"good", "bad"}, Answer(kind) PROVE AnswersLand' /\ AskedInTurn'
  <2> DEFINE a == [for |-> asked, kind |-> kind]
             l == [line EXCEPT !.vals = Append(@, a)]
  <2>1. incomplete /\ AtPrompt /\ Submit(l, 0)
    BY <1>3 DEF Answer
  <2>2. /\ line \in Lines /\ line # NoLine /\ line.cmd \in Cmds
        /\ Len(line.vals) \in Nat /\ line.vals \in Seq(Values)
    BY <2>1, ScenarioOK DEF ConsoleOK, LineOK, Lines
  <2>3. l.cmd = line.cmd /\ l.vals = Append(line.vals, a)
    <3> HIDE DEF a
    <3> QED  BY <2>2 DEF Lines
  <2>4. CASE ~Parses(l)
    BY <2>1, <2>4 DEF Submit, Run, Refuse, AnswersLand, AskedInTurn
  <2>5. CASE Parses(l)
    <3>1. a \in Values
      BY <2>1 DEF ConsoleOK, DialogueOK, Prompts, Values
    <3>2. /\ DOMAIN l.vals = 1 .. Len(line.vals) + 1
          /\ Len(l.vals) = Len(line.vals) + 1
          /\ \A k \in 1 .. Len(line.vals) : l.vals[k] = line.vals[k]
          /\ l.vals[Len(line.vals) + 1] = a
      <4> HIDE DEF a, l
      <4> QED  BY <2>2, <2>3, <3>1
    <3>3. Len(line.vals) < Len(CmdArgs[line.cmd].args)
      <4>1. Len(CmdArgs[line.cmd].args) \in Nat
        BY <2>2, CommandOK
      <4>2. Len(l.vals) <= Len(CmdArgs[line.cmd].args)
        BY <2>3, <2>5 DEF Parses
      <4> QED
        BY <2>2, <3>2, <4>1, <4>2
    <3>4. ~Bills(line.cmd) => asked = ArgAt(line.cmd, Len(line.vals) + 1)
      BY <2>1, <3>3 DEF AskedInTurn
    <3>5. a.for = asked
      OBVIOUS
    <3>6. ~Bills(line.cmd) => \A k \in 1 .. Len(line.vals) :
                                line.vals[k].for = ArgAt(line.cmd, k)
      BY <2>2 DEF AnswersLand
    <3>7. ~Bills(l.cmd) => \A k \in DOMAIN l.vals : l.vals[k].for = ArgAt(l.cmd, k)
      <4> HIDE DEF a, l
      <4> QED  BY <2>2, <2>3, <3>2, <3>4, <3>5, <3>6
    <3> QED
      BY <2>1, <3>7, SubmitAnswers
  <2> QED
    BY <2>4, <2>5
<1>4. CASE Blank
  <2>1. incomplete /\ AtPrompt /\ \E n : Submit(line, n)
    BY <1>4 DEF Blank
  <2>2. line # NoLine
    BY <2>1 DEF ConsoleOK
  <2> QED
    BY <2>1, <2>2, SubmitAnswers DEF AnswersLand
<1>5. CASE TypeNonsense \/ AnswerNonsense \/ CtrlC
  BY <1>5 DEF TypeNonsense, AnswerNonsense, CtrlC, Refuse, AnswersLand, AskedInTurn
<1>6. CASE EndOfInput
  BY <1>6 DEF EndOfInput, AnswersLand, AskedInTurn, AtPrompt, ArgAt, Bills
<1> QED
  BY <1>1, <1>2, <1>3, <1>4, <1>5, <1>6 DEF UserStep

\* Every step keeps the answers where they belong.
LEMMA NextAnswers ==
  ASSUME AnswersInv, [Next]_vars
  PROVE  AnswersInv'
<1> USE DEF AnswersInv
<1>1. ConsoleOK'
  BY NextType
<1>2. CASE UserStep
  BY <1>1, <1>2, UserAnswers
<1>3. CASE HandlerStep
  <2>1. CASE line' = NoLine
    BY <1>1, <2>1 DEF AnswersLand, AskedInTurn, ConsoleOK
  <2>2. CASE line' = line /\ ~AtPrompt'
    BY <1>1, <2>2 DEF AnswersLand, AskedInTurn, ArgAt, Bills
  <2>3. CASE /\ line' = line /\ asked' = FirstEmpty /\ Empty # {} /\ at < End
             /\ Step.op \in {"ask", "asklogin", "askuser"}
    <3>1. asked' = ArgAt(line.cmd, Len(line.vals) + 1)
      BY <1>3, <2>3, InTurn DEF HandlerStep
    <3>2. AnswersLand'
      BY <2>3 DEF AnswersLand, ArgAt, Bills
    <3>3. AskedInTurn'
      BY <2>3, <3>1 DEF AskedInTurn, ArgAt
    <3> QED
      BY <1>1, <3>2, <3>3
  <2>4. CASE Bills(line.cmd) /\ line'.cmd = line.cmd
    BY <1>1, <2>4 DEF AnswersLand, AskedInTurn, Bills
  <2> QED
    BY <1>3, <2>1, <2>2, <2>3, <2>4, HandlerLine
<1>4. CASE ProcessStep
  <2>1. CASE Launch
    <3>1. line' = NoLine
      BY <2>1 DEF Launch, Idle, ConsoleOK
    <3>2. ~(AtPrompt' /\ incomplete')
      BY <1>1, <3>1 DEF ConsoleOK
    <3> QED
      BY <1>1, <3>1, <3>2 DEF AnswersLand, AskedInTurn
  <2>2. CASE Stop \/ Kill
    <3>1. line' = line /\ ~AtPrompt'
      BY <2>2 DEF Stop, Kill, Idle, AtPrompt
    <3> QED
      BY <1>1, <3>1 DEF AnswersLand, AskedInTurn, ArgAt, Bills
  <2>3. CASE Relaunch
    BY <1>1, <2>3 DEF Relaunch, AnswersLand, AskedInTurn
  <2> QED
    BY <1>4, <2>1, <2>2, <2>3 DEF ProcessStep
<1>5. CASE UNCHANGED vars
  <2>1. UNCHANGED <<pc, line, incomplete, asked>>
    BY <1>5 DEF vars, dialogue
  <2>2. AnswersLand'
    BY <2>1 DEF AnswersLand, ArgAt, Bills
  <2>3. AskedInTurn'
    BY <2>1 DEF AskedInTurn, AtPrompt, ArgAt, Bills
  <2> QED
    BY <1>1, <2>2, <2>3
<1> QED
  BY <1>1, <1>2, <1>3, <1>4, <1>5 DEF Next, Stopped

\* What was typed for one argument is never bound to another, for any table of commands
\* whose handlers ask in the order in which the arguments were registered.
THEOREM AnswersAreBound == Spec => []AnswersLand
<1>1. Init => AnswersInv
  BY InitType DEF Init, AnswersInv, AnswersLand, AskedInTurn, AtPrompt
<1>2. AnswersInv /\ [Next]_vars => AnswersInv'
  BY NextAnswers
<1>3. AnswersInv => AnswersLand
  BY DEF AnswersInv
<1> QED
  BY <1>1, <1>2, <1>3, PTL DEF Spec

-----------------------------------------------------------------------------
(* The session.                                                            *)

IsLogin(c) ==
  /\ Len(Steps[c]) = 7 /\ Len(Args[c].args) > 0
  /\ \A i \in 1 .. 7 : Steps[c][i].op = LoginOrder[i] /\ ~Steps[c][i].maybe

\* The handler is at one of these steps of LoginUser.
LoggingIn(places) == pc = "run" /\ IsLogin(line.cmd) /\ at \in places

\* A gate has been passed on the way to step i, and nothing has closed it.
Gated(c, i) ==
  \E j \in 1 .. i - 1 :
    /\ Steps[c][j].op = "gate" /\ ~Steps[c][j].maybe
    /\ \A k \in j + 1 .. i - 1 : Steps[c][k].op # "disconnect"

PastGate == pc = "run" /\ at < End /\ Gated(line.cmd, at) => connected

\* There is a name to log in with, then there is a token for it.
LoginReady == LoggingIn({2, 3}) /\ line.vals = <<>> => profile.creds # NoUser
LoginTaken == LoggingIn(4 .. 7) => user # NoUser /\ token = user
LoginConnected == LoggingIn({7}) => connected

\* Who is connected has a token.
HasToken == connected => token # NoUser \/ Unnamed

\* The inductive invariant.
SessionInv ==
  ConsoleOK /\ PastGate /\ LoginReady /\ LoginTaken /\ LoginConnected /\ HasToken

\* The order of the steps of LoginUser.
LEMMA LoginOps ==
  ASSUME ConsoleOK, pc = "run", at < End
  PROVE  /\ Step.op \in {"asklogin", "token", "account", "connectlast", "connect",
                         "keeplogin"} => IsLogin(line.cmd)
         /\ IsLogin(line.cmd) => /\ End = 8 /\ at \in 1 .. 7 /\ ~Step.maybe
                                 /\ Step.op = LoginOrder[at]
<1>1. line.cmd \in Cmds /\ at \in 1 .. Len(Steps[line.cmd]) /\ Step = Steps[line.cmd][at]
      /\ End = Len(Steps[line.cmd]) + 1
  BY InRun
<1>2. CASE IsLogin(line.cmd)
  BY <1>1, <1>2 DEF IsLogin
<1>3. CASE ~IsLogin(line.cmd)
  BY <1>1, <1>3, LoginInOrder DEF IsLogin
<1> QED
  BY <1>2, <1>3

\* A step that is not passed over is taken by its own action.
LEMMA OneAction ==
  ASSUME ConsoleOK, HandlerStep, at < End, ~Step.maybe
  PROVE  /\ Step.op = "asklogin" => AllGiven \/ AskLogin \/ LoginFromProfile
         /\ Step.op = "do" => TaskStep
         /\ Step.op = "token" => TokenStep
         /\ Step.op = "account" => AccountStep
         /\ Step.op \in {"connectlast", "connect"} => ConnectStep
         /\ Step.op = "keeplogin" => KeepStep
         /\ Step.op = "gate" => GateStep
<1> USE DEF Running
<1>1. CASE SessionStep
  <2>1. \/ (TokenStep /\ Step.op = "token")
        \/ (AccountStep /\ Step.op = "account")
        \/ (ConnectStep /\ Step.op \in {"connectlast", "connect"})
        \/ (KeepStep /\ Step.op \in {"keeplogin", "keepauto"})
        \/ Step.op \in {"forgetlogin", "assumelogin", "configure", "disconnect"}
    BY <1>1 DEF SessionStep, TokenStep, AccountStep, ConnectStep, KeepStep, ForgetStep,
       AssumeStep, ConfigureStep, DisconnectStep
  <2> QED
    BY <2>1
<1>2. CASE ServiceStep
  <2>1. \/ (TaskStep /\ Step.op = "do")
        \/ Step.op \in {"download", "needtypes", "newtypes", "filltypes", "usetypes"}
    BY <1>2 DEF ServiceStep, TaskStep, DownloadStep, NeedTypesStep, NewTypesStep,
       FillTypesStep, UseTypesStep
  <2> QED
    BY <2>1
<1>3. CASE ConsoleStep
  <2>1. at # End
    BY InRun DEF HandlerStep
  <2>2. ~Finished /\ ~Skip
    BY <2>1 DEF Finished, Skip
  <2>3. \/ (GateStep /\ Step.op = "gate")
        \/ Step.op \in {"exit", "show", "may", "redirect", "restore", "echo"}
    BY <1>3, <2>2 DEF ConsoleStep, Exit, GateStep, ShowStep, MayEndStep, RedirectStep,
       RestoreStep, EchoStep
  <2> QED
    BY <2>3
<1>4. CASE AskingStep
  <2>1. \/ (AllGiven /\ Step.op \in {"ask", "asklogin", "askuser"})
        \/ ((AskLogin \/ LoginFromProfile) /\ Step.op = "asklogin")
        \/ Step.op \in {"ask", "askuser", "billing"}
    BY <1>4 DEF AskingStep, AllGiven, AskStep, GiveUp, AskLogin, LoginFromProfile,
       BillingGiven, AskBilling, BillingGivenUp
  <2> QED
    BY <2>1
<1> QED
  BY <1>1, <1>2, <1>3, <1>4 DEF HandlerStep

\* Where a handler that goes on goes to.
LEMMA HandlerMoves ==
  ASSUME ConsoleOK, HandlerStep, pc' = "run"
  PROVE  /\ line'.cmd = line.cmd /\ End' = End
         /\ \/ at' = End
            \/ at < End /\ at' = at + 1
            \/ at < End /\ at' = at + 2 /\ Step.op \in {"account", "billing"}
         /\ at < End /\ Step.op # "billing" => line' = line
<1> USE DEF Goto, Running
<1>1. CASE SessionStep
  BY <1>1, InRun DEF SessionStep, TokenStep, AccountStep, ConnectStep, KeepStep,
     ForgetStep, AssumeStep, ConfigureStep, DisconnectStep, End, CmdSteps
<1>2. CASE ServiceStep
  BY <1>2, InRun DEF ServiceStep, TaskStep, DownloadStep, NeedTypesStep, NewTypesStep,
     FillTypesStep, UseTypesStep, End, CmdSteps
<1>3. CASE ConsoleStep
  BY <1>3, InRun DEF ConsoleStep, Finished, Exit, Finish, Afterwards, Skip, GateStep,
     ShowStep, MayEndStep, RedirectStep, RestoreStep, EchoStep, End, CmdSteps
<1>4. CASE AllGiven \/ AskStep \/ GiveUp \/ AskLogin \/ LoginFromProfile
  BY <1>4, InRun DEF AllGiven, AskStep, GiveUp, AskLogin, LoginFromProfile, Await, End,
     CmdSteps
<1>5. CASE BillingGiven \/ AskBilling \/ BillingGivenUp
  <2>1. line'.cmd = line.cmd
    BY <1>5, InRun, ClearLastOK, RefusedOK DEF BillingGiven, AskBilling, BillingGivenUp
  <2> QED
    BY <1>5, <2>1, InRun DEF BillingGiven, AskBilling, BillingGivenUp, Await, End, CmdSteps
<1> QED
  BY <1>1, <1>2, <1>3, <1>4, <1>5 DEF HandlerStep, AskingStep

\* A gate that counts for the next step has been passed already, or is passed now.
LEMMA GateKept ==
  ASSUME ConsoleOK, PastGate, HandlerStep, pc' = "run", at' < End, Gated(line.cmd, at')
  PROVE  connected /\ at < End /\ Step.op # "disconnect"
<1> DEFINE c == line.cmd
<1>1. /\ at \in 1 .. End /\ at < End /\ End \in Nat /\ Step = Steps[c][at]
      /\ \/ at' = at + 1
         \/ at' = at + 2 /\ Step.op \in {"account", "billing"}
  <2>1. pc = "run"
    BY DEF HandlerStep
  <2>2. at \in 1 .. End /\ End \in Nat /\ Step = Steps[c][at]
    <3> HIDE DEF c
    <3>1. c = line.cmd
      BY DEF c
    <3> QED
      BY <2>1, <3>1, InRun
  <2>3. at' # End
    BY <2>2
  <2> QED
    BY <2>2, <2>3, HandlerMoves
<1>2. PICK j \in 1 .. at' - 1 :
        /\ Steps[c][j].op = "gate" /\ ~Steps[c][j].maybe
        /\ \A k \in j + 1 .. at' - 1 : Steps[c][k].op # "disconnect"
  BY DEF Gated
<1>3. CASE j < at
  <2>1. j \in 1 .. at - 1 /\ \A k \in j + 1 .. at - 1 : Steps[c][k].op # "disconnect"
    BY <1>1, <1>2, <1>3
  <2>2. Gated(c, at)
    BY <1>2, <2>1 DEF Gated
  <2>3. at \in j + 1 .. at' - 1
    BY <1>1, <1>2, <1>3
  <2>4. Step.op # "disconnect"
    BY <1>1, <1>2, <2>3
  <2>5. connected
    BY <1>1, <2>2 DEF PastGate, HandlerStep
  <2> QED
    BY <1>1, <2>4, <2>5
<1>4. CASE j = at
  <2>1. Step.op = "gate" /\ ~Step.maybe
    BY <1>1, <1>2, <1>4
  <2>2. GateStep
    BY <1>1, <2>1, OneAction
  <2> QED
    BY <1>1, <2>1, <2>2 DEF GateStep, Goto
<1>5. CASE j > at
  <2>1. j = at + 1 /\ Step.op \in {"account", "billing"} /\ at \in 1 .. Len(Steps[c])
    BY <1>1, <1>2, <1>5, InRun DEF HandlerStep
  <2>2. Steps[c][j].op \in {"do", "connectlast"}
    BY <1>1, <2>1, InRun, LeavesOut DEF HandlerStep
  <2> QED
    BY <1>2, <2>2
<1> QED
  BY <1>1, <1>2, <1>3, <1>4, <1>5

\* A task may end with a new token for the user.
Same == UNCHANGED <<user, token, connected, profile>>
Renewed ==
  /\ env.errors /\ token' = user /\ profile' = [profile EXCEPT !.token = user]
  /\ UNCHANGED <<user, connected>>

\* A task leaves the session as it is, or renews its token.
LEMMA TaskSession ==
  ASSUME NEW task, NEW outcome,
         HandleTask(task, outcome, env.errors) \/ HandleDownload(task, outcome, env.errors)
  PROVE  Same \/ Renewed
BY DEF HandleTask, HandleDownload, FirstAnswer, GiveBack, RepeatOnly, LoginAgain, session,
   Same, Renewed

\* What a handler does to the session.
LEMMA HandlerSession ==
  ASSUME HandlerStep
  PROVE  \/ Same \/ Renewed \/ TokenStep \/ ConnectStep \/ KeepStep \/ ForgetStep
         \/ AssumeStep \/ ConfigureStep \/ DisconnectStep
<1>1. ASSUME UNCHANGED session PROVE Same
  BY <1>1 DEF session, Same
<1>2. CASE AccountStep
  <2>1. CASE UNCHANGED session
    BY <1>1, <2>1
  <2>2. CASE \E outcome \in {"done", "failed"} :
               HandleTask(GetUserInfoTask, outcome, env.errors)
    BY <2>2, TaskSession
  <2> QED
    BY <1>2, <2>1, <2>2 DEF AccountStep
<1>3. CASE TaskStep
  BY <1>3, TaskSession, TaskPlain DEF TaskStep
<1>4. CASE DownloadStep
  BY <1>4, TaskSession DEF DownloadStep
<1>5. CASE NeedTypesStep \/ NewTypesStep \/ FillTypesStep \/ UseTypesStep
  BY <1>1, <1>5 DEF NeedTypesStep, NewTypesStep, FillTypesStep, UseTypesStep
<1>6. CASE ConsoleStep
  <2>1. UNCHANGED session
    BY <1>6 DEF ConsoleStep, Finished, Exit, Finish, Skip, GateStep, ShowStep, MayEndStep,
       RedirectStep, RestoreStep, EchoStep, Quiet, service
  <2> QED
    BY <1>1, <2>1
<1>7. CASE AskingStep
  <2>1. UNCHANGED session
    BY <1>7 DEF AskingStep, AllGiven, AskStep, GiveUp, AskLogin, LoginFromProfile,
       BillingGiven, AskBilling, BillingGivenUp, Await, Quiet, service
  <2> QED
    BY <1>1, <2>1
<1> QED
  BY <1>2, <1>3, <1>4, <1>5, <1>6, <1>7 DEF HandlerStep, ServiceStep, SessionStep

\* The switches and the credentials in the profile do not concern the session.
LEMMA ProfileSteps ==
  ASSUME KeepStep \/ ForgetStep \/ AssumeStep \/ ConfigureStep
  PROVE  UNCHANGED <<user, token, connected>>
<1>1. ASSUME NEW u, KeepLogin(u) PROVE UNCHANGED <<user, token, connected>>
  BY <1>1 DEF KeepLogin
<1>2. ASSUME ForgetLogin PROVE UNCHANGED <<user, token, connected>>
  BY <1>2 DEF ForgetLogin
<1>3. ASSUME UNCHANGED session PROVE UNCHANGED <<user, token, connected>>
  BY <1>3 DEF session
<1>4. CASE KeepStep
  BY <1>1, <1>3, <1>4 DEF KeepStep, KeepIf
<1>5. CASE ForgetStep
  BY <1>2, <1>3, <1>5 DEF ForgetStep
<1>6. CASE AssumeStep
  BY <1>1, <1>2, <1>6 DEF AssumeStep, AssumeLogin
<1>7. CASE ConfigureStep
  BY <1>1, <1>2, <1>3, <1>7 DEF ConfigureStep, Configure
<1> QED
  BY <1>4, <1>5, <1>6, <1>7

\* Where a login comes from when it goes on.
LEMMA LoginMoves ==
  ASSUME ConsoleOK, HandlerStep, LoggingIn(2 .. 7)'
  PROVE  /\ IsLogin(line.cmd) /\ End = 8 /\ at \in 1 .. 6 /\ line' = line
         /\ at = 1 => at' = 2 /\ (AllGiven \/ LoginFromProfile)
         /\ at = 2 => at' = 3 /\ TaskStep
         /\ at = 3 => at' = 4 /\ TokenStep
         /\ at = 4 => at' \in {5, 6} /\ AccountStep
         /\ at # 5
         /\ at = 6 => at' = 7 /\ ConnectStep
<1>1. /\ line'.cmd = line.cmd /\ at \in 1 .. End
      /\ \/ at' = End
         \/ at < End /\ at' = at + 1
         \/ at < End /\ at' = at + 2 /\ Step.op \in {"account", "billing"}
      /\ at < End /\ Step.op # "billing" => line' = line
  BY HandlerMoves, InRun DEF LoggingIn, HandlerStep
<1>2. IsLogin(line.cmd) /\ at' \in 2 .. 7 /\ pc' = "run"
  BY <1>1 DEF LoggingIn, IsLogin
<1>3. End = 8
  BY <1>2, InRun DEF HandlerStep, IsLogin
<1>4. at < End
  BY <1>1, <1>2, <1>3
<1>5. at \in 1 .. 7 /\ ~Step.maybe /\ Step.op = LoginOrder[at]
  BY <1>2, <1>4, LoginOps DEF HandlerStep
<1>6. /\ at = 1 => Step.op = "asklogin"
      /\ at = 2 => Step.op = "do"
      /\ at = 3 => Step.op = "token"
      /\ at = 4 => Step.op = "account"
      /\ at = 5 => Step.op = "connectlast"
      /\ at = 6 => Step.op = "connect"
      /\ at = 7 => Step.op = "keeplogin"
  BY <1>5 DEF LoginOrder
<1>7. /\ line' = line /\ at # 7
      /\ at # 4 => at' = at + 1
      /\ at = 4 => at' \in {5, 6}
  BY <1>1, <1>2, <1>3, <1>4, <1>5, <1>6
<1>8. at = 1 => AllGiven \/ LoginFromProfile
  <2>1. AskLogin => pc' # "run"
    BY DEF AskLogin, Await
  <2> QED
    BY <1>2, <1>4, <1>5, <1>6, <2>1, OneAction
<1>9. at # 5
  <2>1. ASSUME at = 5 PROVE FALSE
    <3>1. ConnectStep
      BY <1>4, <1>5, <1>6, <2>1, OneAction
    <3>2. at' = End
      BY <1>6, <2>1, <3>1 DEF ConnectStep, Goto
    <3> QED
      BY <1>2, <1>3, <3>2
  <2> QED
    BY <2>1
<1> QED
  BY <1>2, <1>3, <1>4, <1>5, <1>6, <1>7, <1>8, <1>9, OneAction

\* A gate that is passed stays so.
LEMMA HandlerPastGate ==
  ASSUME ConsoleOK, PastGate, HandlerStep
  PROVE  PastGate'
<1> SUFFICES ASSUME pc' = "run", (at < End)', Gated(line.cmd, at)' PROVE connected'
  BY DEF PastGate
<1>1. line'.cmd = line.cmd /\ at' < End
  BY HandlerMoves
<1>2. Gated(line.cmd, at')
  BY <1>1 DEF Gated
<1>3. connected /\ at < End /\ Step.op # "disconnect"
  BY <1>1, <1>2, GateKept
<1>4. ~DisconnectStep
  BY <1>3 DEF DisconnectStep, Running
<1>5. CASE ConnectStep
  BY <1>5 DEF ConnectStep, Connect
<1>6. CASE TokenStep
  BY <1>3, <1>6 DEF TokenStep, TakeToken
<1>7. CASE Same \/ Renewed
  BY <1>3, <1>7 DEF Same, Renewed
<1> QED
  BY <1>3, <1>4, <1>5, <1>6, <1>7, HandlerSession, ProfileSteps

\* LoginUser is called with a name, and gets a token for it.
LEMMA HandlerLogin ==
  ASSUME ConsoleOK, LoginReady, LoginTaken, HandlerStep
  PROVE  LoginReady' /\ LoginTaken' /\ LoginConnected'
<1>1. ASSUME LoggingIn({2, 3})', line'.vals = <<>> PROVE profile'.creds # NoUser
  <2>1. LoggingIn(2 .. 7)' /\ at' \in {2, 3}
    BY <1>1 DEF LoggingIn
  <2>2. /\ line' = line /\ IsLogin(line.cmd) /\ at \in 1 .. 6
        /\ at = 1 => AllGiven \/ LoginFromProfile
        /\ at = 2 => TaskStep
        /\ at \in {1, 2}
    BY <2>1, LoginMoves
  <2>3. CASE AllGiven /\ at = 1
    <3>1. Step.op = "asklogin"
      <4>1. at < End
        BY <2>2, <2>3 DEF AllGiven
      <4>2. Step.op = LoginOrder[1]
        BY <2>2, <2>3, <4>1, LoginOps DEF HandlerStep
      <4> QED
        BY <4>2 DEF LoginOrder
    <3>2. line.cmd \in Cmds /\ Step = Steps[line.cmd][1] /\ 1 \in 1 .. Len(Steps[line.cmd])
      BY <2>2, <2>3, InRun DEF HandlerStep, IsLogin
    <3>3. Step.args = Args[line.cmd].args
      BY <3>1, <3>2, AsksInOrder
    <3>4. 1 \in DOMAIN Step.args
      BY <2>2, <3>2, <3>3, CommandOK DEF IsLogin
    <3>5. Bound(line) = {}
      BY <1>1, <2>2 DEF Bound
    <3>6. 1 \in Empty
      BY <3>4, <3>5 DEF Empty
    <3> QED
      BY <2>3, <3>6 DEF AllGiven
  <2>4. CASE LoginFromProfile
    BY <2>4 DEF LoginFromProfile, HasLogin, Quiet, service, session
  <2>5. CASE TaskStep /\ at = 2
    <3>1. LoggingIn({2, 3})
      BY <2>2, <2>5 DEF LoggingIn, HandlerStep
    <3>2. profile.creds # NoUser
      BY <1>1, <2>2, <3>1 DEF LoginReady
    <3>3. Same \/ Renewed
      BY <2>5, TaskSession, TaskPlain DEF TaskStep
    <3>4. profile'.creds = profile.creds
      BY <3>3 DEF Same, Renewed, ConsoleOK, SessionOK, Profiles
    <3> QED
      BY <3>2, <3>4
  <2> QED
    BY <2>2, <2>3, <2>4, <2>5
<1>2. ASSUME LoggingIn(4 .. 7)' PROVE user' # NoUser /\ token' = user'
  <2>1. LoggingIn(2 .. 7)' /\ at' \in 4 .. 7
    BY <1>2 DEF LoggingIn
  <2>2. /\ line' = line /\ IsLogin(line.cmd) /\ at \in {3, 4, 6}
        /\ at = 3 => TokenStep
        /\ at = 4 => AccountStep
        /\ at = 6 => ConnectStep
    BY <2>1, LoginMoves
  <2>3. CASE at = 3
    <3>1. LoggingIn({2, 3})
      BY <2>2, <2>3 DEF LoggingIn, HandlerStep
    <3>2. PICK u \in Named : TakeToken(u)
      BY <2>2, <2>3 DEF TokenStep
    <3>3. u # NoUser
      BY <3>1, ScenarioOK, SessionAssumption DEF Named, LoginReady, ConsoleOK
    <3> QED
      BY <3>2, <3>3 DEF TakeToken
  <2>4. at # 3 => user # NoUser /\ token = user
    BY <2>2 DEF LoginTaken, LoggingIn, HandlerStep
  <2>5. CASE at = 4
    <3>1. Same \/ Renewed
      BY <2>2, <2>5, TaskSession DEF AccountStep, session, Same
    <3> QED
      BY <2>4, <2>5, <3>1 DEF Same, Renewed
  <2>6. CASE at = 6
    BY <2>2, <2>4, <2>6 DEF ConnectStep, Connect
  <2> QED
    BY <2>2, <2>3, <2>5, <2>6
<1>3. ASSUME LoggingIn({7})' PROVE connected'
  <2>1. LoggingIn(2 .. 7)' /\ at' = 7
    BY <1>3 DEF LoggingIn
  <2>2. ConnectStep
    BY <2>1, LoginMoves
  <2> QED
    BY <2>2 DEF ConnectStep, Connect
<1> QED
  BY <1>1, <1>2, <1>3 DEF LoginReady, LoginTaken, LoginConnected

\* Who is connected keeps a token.
LEMMA HandlerToken ==
  ASSUME ConsoleOK, LoginReady, LoginTaken, HasToken, HandlerStep, UNCHANGED env
  PROVE  HasToken'
<1> USE DEF HasToken, Unnamed
<1>1. CASE Same
  BY <1>1 DEF Same
<1>2. CASE Renewed
  BY <1>2 DEF Renewed
<1>3. ASSUME Running("token") \/ Running("connect") \/ Running("connectlast")
      PROVE  LoggingIn(1 .. 7) /\ (Running("token") => LoggingIn({2, 3}))
             /\ (~Running("token") => LoggingIn(4 .. 7))
  <2>1. pc = "run" /\ at < End /\ Step.op \in {"token", "connectlast", "connect"}
    BY <1>3, InRun DEF Running
  <2>2. IsLogin(line.cmd) /\ at \in 1 .. 7 /\ Step.op = LoginOrder[at]
    BY <2>1, LoginOps
  <2>3. Step.op = "token" => at = 3
    BY <2>2 DEF LoginOrder
  <2>4. Step.op # "token" => at \in {5, 6}
    BY <2>1, <2>2 DEF LoginOrder
  <2> QED
    BY <1>3, <2>1, <2>2, <2>3, <2>4 DEF LoggingIn, Running
<1>4. CASE TokenStep
  <2>1. PICK u \in Named : TakeToken(u)
    BY <1>4 DEF TokenStep
  <2>2. LoggingIn({2, 3})
    BY <1>3, <1>4 DEF TokenStep
  <2>3. u # NoUser
    BY <2>2, ScenarioOK, SessionAssumption DEF Named, LoginReady, ConsoleOK
  <2> QED
    BY <2>1, <2>3 DEF TakeToken
<1>5. CASE ConnectStep
  <2>1. LoggingIn(4 .. 7)
    <3>1. ~Running("token")
      BY <1>5 DEF ConnectStep, Running
    <3> QED
      BY <1>3, <1>5, <3>1 DEF ConnectStep
  <2> QED
    BY <1>5, <2>1 DEF ConnectStep, Connect, LoginTaken
<1>6. CASE DisconnectStep
  BY <1>6 DEF DisconnectStep, ResetLoginData
<1> QED
  BY <1>1, <1>2, <1>4, <1>5, <1>6, HandlerSession, ProfileSteps

\* What the user does does not touch the session; a handler that begins is at its first
\* step.
LEMMA UserSession ==
  ASSUME UserStep
  PROVE  UNCHANGED service /\ (pc' # "run" \/ at' = 1)
<1>1. ASSUME NEW l, NEW n, Submit(l, n) PROVE UNCHANGED service /\ (pc' # "run" \/ at' = 1)
  BY <1>1 DEF Submit, Run, Refuse
<1>2. ASSUME Refuse PROVE UNCHANGED service /\ pc' # "run"
  BY <1>2 DEF Refuse
<1>3. ASSUME NEW c, TypeLine(c) PROVE UNCHANGED service /\ (pc' # "run" \/ at' = 1)
  BY <1>1, <1>3 DEF TypeLine
<1>4. ASSUME NEW c, AskUsage(c) PROVE UNCHANGED service /\ pc' # "run"
  BY <1>4 DEF AskUsage, Finish, Afterwards
<1>5. ASSUME NEW kind, Answer(kind) PROVE UNCHANGED service /\ (pc' # "run" \/ at' = 1)
  BY <1>1, <1>5 DEF Answer
<1>6. CASE Blank
  BY <1>1, <1>6 DEF Blank
<1>7. CASE TypeNonsense \/ AnswerNonsense \/ CtrlC
  BY <1>2, <1>7 DEF TypeNonsense, AnswerNonsense, CtrlC
<1>8. CASE EndOfInput
  BY <1>8 DEF EndOfInput
<1> QED
  BY <1>3, <1>4, <1>5, <1>6, <1>7, <1>8 DEF UserStep

\* No handler runs when DioCLI starts or stops, and who is then connected has a token.
LEMMA ProcessSession ==
  ASSUME ConsoleOK, HasToken, ProcessStep, UNCHANGED env
  PROVE  pc' # "run" /\ HasToken'
<1> USE DEF HasToken, Unnamed
<1>1. CASE Launch
  <2>1. CASE StartEarly \/ StartWithout(System)
    BY <1>1, <2>1 DEF Launch, StartEarly, StartWithout, session
  <2>2. CASE StartWithToken(System)
    BY <1>1, <2>2 DEF Launch, StartWithToken
  <2>3. ASSUME NEW outcome, StartWithLogin(System, outcome, env.errors, env.checks)
        PROVE  HasToken'
    BY <2>3 DEF StartWithLogin, StartConnected, StartFailed, HasLogin
  <2>4. pc' # "run"
    BY <1>1 DEF Launch
  <2> QED
    BY <1>1, <2>1, <2>2, <2>3, <2>4 DEF Launch
<1>2. CASE Stop
  BY <1>2 DEF Stop, StopSession
<1>3. CASE Relaunch
  BY <1>3 DEF Relaunch
<1>4. CASE Kill
  BY <1>4 DEF Kill, session
<1> QED
  BY <1>1, <1>2, <1>3, <1>4 DEF ProcessStep

\* Every step keeps the invariant.
LEMMA NextSession ==
  ASSUME SessionInv, [Next]_vars
  PROVE  SessionInv'
<1> USE DEF SessionInv
<1>1. ConsoleOK'
  BY NextType
<1>2. CASE HandlerStep /\ UNCHANGED env
  BY <1>1, <1>2, HandlerPastGate, HandlerLogin, HandlerToken
<1>3. ASSUME pc' # "run" PROVE PastGate' /\ LoginReady' /\ LoginTaken' /\ LoginConnected'
  BY <1>3 DEF PastGate, LoginReady, LoginTaken, LoginConnected, LoggingIn
<1>4. CASE UserStep /\ UNCHANGED env
  <2>1. HasToken'
    BY <1>4, UserSession DEF HasToken, Unnamed, service, session
  <2>2. ASSUME at' = 1 PROVE PastGate' /\ LoginReady' /\ LoginTaken' /\ LoginConnected'
    BY <2>2 DEF PastGate, Gated, LoginReady, LoginTaken, LoginConnected, LoggingIn
  <2>3. pc' # "run" \/ at' = 1
    BY <1>4, UserSession
  <2>4. PastGate' /\ LoginReady' /\ LoginTaken' /\ LoginConnected'
    BY <1>3, <2>2, <2>3
  <2> QED
    BY <1>1, <2>1, <2>4
<1>5. CASE ProcessStep /\ UNCHANGED env
  BY <1>1, <1>3, <1>5, ProcessSession
<1>6. CASE UNCHANGED vars
  <2>1. UNCHANGED <<env, pc, line, at, user, token, connected, profile>>
    BY <1>6 DEF vars, service, session
  <2> QED
    BY <1>1, <2>1 DEF PastGate, Gated, End, CmdSteps, LoginReady, LoginTaken,
       LoginConnected, LoggingIn, HasToken, Unnamed
<1> QED
  BY <1>2, <1>4, <1>5, <1>6 DEF Next, Stopped

\* A task that sends the token is run by a handler that has looked at m_bConnected, and
\* who is connected has a token: for any commands that look as GatesFirst says.
THEOREM TasksAreGated == Spec => []TokenTasksAreGated
<1>1. Init => SessionInv
  BY InitType DEF Init, SessionInv, PastGate, LoginReady, LoginTaken, LoginConnected,
     LoggingIn, HasToken
<1>2. SessionInv /\ [Next]_vars => SessionInv'
  BY NextSession
<1>3. SessionInv => TokenTasksAreGated
  <2> SUFFICES ASSUME SessionInv, Running("do") \/ Running("download"), Step.task.token
               PROVE  connected
    BY DEF SessionInv, HasToken, TokenTasksAreGated
  <2> USE DEF SessionInv
  <2>1. /\ pc = "run" /\ at < End /\ line.cmd \in Cmds
        /\ at \in 1 .. Len(Steps[line.cmd]) /\ Step = Steps[line.cmd][at]
    BY InRun DEF Running
  <2>2. Step.op \in {"do", "download"}
    BY DEF Running
  <2>3. Gated(line.cmd, at)
    BY <2>1, <2>2, GatesFirst DEF Gated
  <2> QED
    BY <2>1, <2>3 DEF PastGate
<1> QED
  BY <1>1, <1>2, <1>3, PTL DEF Spec

-----------------------------------------------------------------------------
(* Whose session it is.                                                    *)

\* The ways to use DioCLI in which the session is that of the user who is shown.
Fair == ~severed /\ ~(System /\ "createuser" \in env.cmds)

\* The token is the user's.
OwnToken == connected /\ user # NoUser => token = user

\* The user is the one that the profile would log in, unless a login is on its way.
UserFits == HasLogin /\ user # NoUser => user = profile.creds

\* The profile's token is that of the user it would log in, unless a login has saved the
\* one and not yet the other.
TokenFits == HasLogin => profile.token \in {NoUser, profile.creds}

ProfileFits == UserFits /\ TokenFits

Tearing == LoggingIn({7}) \/ (env.checks /\ LoggingIn({5, 6}))

\* The inductive invariant.
OwnInv ==
  /\ SessionInv
  /\ Fair => /\ OwnToken
             /\ LoggingIn(4 .. 7) \/ pc = "crashed" \/ UserFits
             /\ Tearing \/ TokenFits

\* A renewed token is the user's, and so is the one in the profile.
LEMMA RenewedFits ==
  ASSUME ConsoleOK, Same \/ Renewed
  PROVE  (OwnToken => OwnToken') /\ (UserFits => UserFits') /\ (ProfileFits => TokenFits')
<1> USE DEF OwnToken, ProfileFits, UserFits, TokenFits, HasLogin
<1>1. CASE Same
  BY <1>1 DEF Same
<1>2. CASE Renewed
  BY <1>2 DEF Renewed, ConsoleOK, SessionOK, Profiles
<1> QED
  BY <1>1, <1>2

\* To keep the login of a connected user, or to forget it, makes the profile fit.
LEMMA KeptFits ==
  ASSUME ConsoleOK
  PROVE  /\ KeepLogin(user) /\ connected /\ OwnToken => ProfileFits'
         /\ KeepLogin(user) /\ ~connected /\ profile.auto /\ ProfileFits => ProfileFits'
         /\ ForgetLogin => ProfileFits'
<1> USE DEF OwnToken, ProfileFits, UserFits, TokenFits, HasLogin, ConsoleOK, SessionOK, Profiles
<1>1. ASSUME KeepLogin(user), connected, OwnToken PROVE ProfileFits'
  BY <1>1 DEF KeepLogin
<1>2. ASSUME KeepLogin(user), ~connected, profile.auto, ProfileFits PROVE ProfileFits'
  BY <1>2 DEF KeepLogin
<1>3. ASSUME ForgetLogin PROVE ProfileFits'
  BY <1>3 DEF ForgetLogin
<1> QED
  BY <1>1, <1>2, <1>3

\* A login on its way goes on, or it is cut off.
LEMMA LoginGoesOn ==
  ASSUME ConsoleOK, HandlerStep, LoggingIn(4 .. 7), ~LoggingIn(4 .. 7)',
         ~Running("connectlast")
  PROVE  at = 7 /\ KeepStep
<1>1. IsLogin(line.cmd) /\ at \in {4, 5, 6, 7} /\ pc = "run"
  BY DEF LoggingIn
<1>2. at < End /\ ~Step.maybe /\ Step.op = LoginOrder[at]
  <2>1. End = 8
    BY <1>1, InRun DEF IsLogin
  <2> QED
    BY <1>1, <2>1, LoginOps
<1>3. CASE at = 4
  <2>1. AccountStep
    BY <1>2, <1>3, OneAction DEF LoginOrder
  <2>2. pc' = "run" /\ line' = line /\ at' \in {5, 6}
    BY <1>3, <2>1 DEF AccountStep, Goto, HandlerStep
  <2> QED
    BY <1>1, <2>2 DEF LoggingIn
<1>4. CASE at = 6
  <2>1. Step.op = "connect"
    BY <1>2, <1>4 DEF LoginOrder
  <2>2. ConnectStep
    BY <1>2, <2>1, OneAction
  <2>3. pc' = "run" /\ line' = line /\ at' = 7
    BY <1>1, <1>4, <2>1, <2>2 DEF ConnectStep, Goto
  <2> QED
    BY <1>1, <2>3 DEF LoggingIn
<1>5. CASE at = 7
  BY <1>2, <1>5, OneAction DEF LoginOrder
<1>6. at # 5
  <2> SUFFICES ASSUME at = 5 PROVE FALSE
    OBVIOUS
  <2>1. Step.op = "connectlast" /\ at <= Len(CmdSteps[line.cmd])
    BY <1>1, <1>2, InRun DEF LoginOrder
  <2> QED
    BY <1>1, <2>1 DEF Running
<1> QED
  BY <1>1, <1>3, <1>4, <1>5, <1>6

\* A handler keeps the token with its user.
LEMMA HandlerOwnToken ==
  ASSUME SessionInv, OwnToken, HandlerStep
  PROVE  OwnToken'
<1> USE DEF SessionInv
<1>1. CASE Same \/ Renewed
  BY <1>1, RenewedFits
<1>2. CASE TokenStep
  BY <1>2 DEF TokenStep, TakeToken, OwnToken
<1>3. CASE ConnectStep
  <2>1. pc = "run" /\ at < End /\ Step.op \in {"connectlast", "connect"}
    BY <1>3, InRun DEF ConnectStep, Running
  <2>2. IsLogin(line.cmd) /\ at \in 1 .. 7 /\ Step.op = LoginOrder[at]
    BY <2>1, LoginOps
  <2>3. LoggingIn(4 .. 7)
    BY <2>1, <2>2 DEF LoggingIn, LoginOrder
  <2> QED
    BY <1>3, <2>3 DEF LoginTaken, ConnectStep, Connect, OwnToken
<1>4. CASE DisconnectStep
  BY <1>4 DEF DisconnectStep, ResetLoginData, OwnToken
<1> QED
  BY <1>1, <1>2, <1>3, <1>4, HandlerSession, ProfileSteps DEF OwnToken

\* When the login is kept the profile fits again.
LEMMA KeepStepFits ==
  ASSUME SessionInv, OwnToken, KeepStep, LoggingIn({7})
  PROVE  ProfileFits'
<1> USE DEF SessionInv
<1>1. connected
  BY DEF LoginConnected
<1>2. KeepLogin(user) \/ (~profile.auto /\ UNCHANGED session)
  BY DEF KeepStep, KeepIf
<1>3. ~profile.auto /\ UNCHANGED session => ProfileFits'
  BY DEF session, ProfileFits, UserFits, TokenFits, HasLogin
<1> QED
  BY <1>1, <1>2, <1>3, KeptFits

\* When no login is on its way, before or after the step, the profile goes on to fit.
LEMMA HandlerProfile ==
  ASSUME SessionInv, Fair, OwnToken, ProfileFits, HandlerStep,
         ~LoggingIn(4 .. 7), ~LoggingIn(4 .. 7)'
  PROVE  ProfileFits'
<1> USE DEF SessionInv
<1>2. CASE Same \/ Renewed
  BY <1>2, RenewedFits DEF ProfileFits
<1>3. ~ConnectStep
  <2> SUFFICES ASSUME ConnectStep PROVE FALSE
    OBVIOUS
  <2>1. pc = "run" /\ at < End /\ Step.op \in {"connectlast", "connect"}
    BY InRun DEF ConnectStep, Running
  <2>2. IsLogin(line.cmd) /\ at \in 1 .. 7 /\ Step.op = LoginOrder[at]
    BY <2>1, LoginOps
  <2> QED
    BY <2>1, <2>2 DEF LoggingIn, LoginOrder
<1>4. ~TokenStep
  <2> SUFFICES ASSUME TokenStep PROVE FALSE
    OBVIOUS
  <2>1. pc = "run" /\ at < End /\ Step.op = "token" /\ Goto(at + 1)
    BY InRun DEF TokenStep, Running
  <2>2. IsLogin(line.cmd) /\ at \in 1 .. 7 /\ Step.op = LoginOrder[at]
    BY <2>1, LoginOps
  <2>3. at = 3
    BY <2>1, <2>2 DEF LoginOrder
  <2> QED
    BY <2>1, <2>2, <2>3 DEF LoggingIn, Goto
<1>5. UNCHANGED session => ProfileFits'
  BY DEF session, ProfileFits, UserFits, TokenFits, HasLogin
<1>6. CASE KeepStep
  <2>1. (KeepLogin(user) /\ (connected \/ profile.auto)) \/ UNCHANGED session
    <3>1. Step.op = "keeplogin" => connected
      <4> SUFFICES ASSUME Step.op = "keeplogin" PROVE connected
        OBVIOUS
      <4>1. pc = "run" /\ at < End
        BY <1>6, InRun DEF KeepStep, Running
      <4>2. IsLogin(line.cmd) /\ at \in 1 .. 7 /\ Step.op = LoginOrder[at]
        BY <4>1, LoginOps
      <4>3. LoggingIn({7})
        BY <4>1, <4>2 DEF LoggingIn, LoginOrder
      <4> QED
        BY <4>3 DEF LoginConnected
    <3> QED
      BY <1>6, <3>1 DEF KeepStep, KeepIf
  <2> QED
    BY <1>5, <2>1, KeptFits
<1>7. CASE ForgetStep
  BY <1>5, <1>7, KeptFits DEF ForgetStep
<1>8. CASE AssumeStep
  <2>1. line.cmd = "createuser" /\ line.cmd \in env.cmds
    <3>1. /\ line.cmd \in Cmds /\ line.cmd \in env.cmds /\ at \in 1 .. Len(Steps[line.cmd])
          /\ Steps[line.cmd][at].op = "assumelogin"
      BY <1>8, InRun DEF AssumeStep, Running
    <3> QED
      BY <3>1, CreatesLogin
  <2>2. ~System
    BY <2>1 DEF Fair
  <2>3. ForgetLogin
    BY <1>8, <2>2 DEF AssumeStep, AssumeLogin
  <2> QED
    BY <2>3, KeptFits
<1>9. CASE ConfigureStep
  <2>1. ASSUME NEW stays, profile' = [profile EXCEPT !.stays = stays],
               UNCHANGED <<user, token, connected, budget>>
        PROVE  ProfileFits'
    BY <2>1 DEF ProfileFits, UserFits, TokenFits, HasLogin, ConsoleOK, SessionOK, Profiles
  <2> QED
    BY <1>5, <1>9, <2>1, KeptFits DEF ConfigureStep, Configure
<1>10. CASE DisconnectStep
  BY <1>10 DEF DisconnectStep, ResetLoginData, ProfileFits, UserFits, TokenFits, HasLogin,
     ConsoleOK, SessionOK, Profiles
<1> QED
  BY <1>2, <1>3, <1>4, <1>6, <1>7, <1>8, <1>9, <1>10, HandlerSession

\* On its way a login leaves the profile as it was, until it saves the token.
LEMMA LoginProfile ==
  ASSUME ConsoleOK, HandlerStep, LoggingIn(4 .. 7)', TokenFits, ~Tearing, UNCHANGED env
  PROVE  Tearing' \/ TokenFits'
<1>1. LoggingIn(2 .. 7)'
  BY DEF LoggingIn
<1>2. /\ IsLogin(line.cmd) /\ at \in 3 .. 6 /\ line' = line /\ pc = "run"
      /\ at = 3 => at' = 4 /\ TokenStep
      /\ at = 4 => at' \in {5, 6} /\ AccountStep
      /\ at # 5
      /\ at = 6 => at' = 7 /\ ConnectStep
  BY <1>1, LoginMoves DEF LoggingIn, HandlerStep
<1>3. CASE at = 3
  BY <1>2, <1>3 DEF TokenStep, TakeToken, TokenFits, HasLogin
<1>4. CASE at = 4
  <2>1. CASE env.checks
    <3>1. IsLogin(line.cmd)'
      BY <1>2 DEF IsLogin
    <3> QED
      BY <1>2, <1>4, <2>1, <3>1 DEF Tearing, LoggingIn
  <2>2. CASE ~env.checks
    <3>1. UNCHANGED session
      BY <1>2, <1>4, <2>2 DEF AccountStep
    <3> QED
      BY <3>1 DEF session, TokenFits, HasLogin
  <2> QED
    BY <2>1, <2>2
<1>5. CASE at = 6
  <2>1. LoggingIn({7})'
    BY <1>1, <1>2, <1>5 DEF LoggingIn
  <2> QED
    BY <2>1 DEF Tearing
<1> QED
  BY <1>2, <1>3, <1>4, <1>5

\* Once it may have saved the token it stays so until it is done or cut off.
LEMMA TearingGoesOn ==
  ASSUME ConsoleOK, HandlerStep, LoggingIn(4 .. 7)', Tearing, UNCHANGED env
  PROVE  Tearing'
<1>1. LoggingIn(2 .. 7)'
  BY DEF LoggingIn
<1>2. at \in 5 .. 7
  BY DEF Tearing, LoggingIn
<1>3. at = 6 /\ at' = 7
  BY <1>1, <1>2, LoginMoves
<1>4. LoggingIn({7})'
  BY <1>1, <1>3 DEF LoggingIn
<1> QED
  BY <1>4 DEF Tearing

\* What a handler makes of token and profile.
LEMMA HandlerOwn ==
  ASSUME OwnInv, Fair, Fair', HandlerStep, UNCHANGED env, ~Running("connectlast")
  PROVE  /\ OwnToken'
         /\ LoggingIn(4 .. 7)' \/ pc' = "crashed" \/ UserFits'
         /\ Tearing' \/ TokenFits'
<1>1. SessionInv /\ ConsoleOK /\ OwnToken /\ pc = "run"
  BY DEF OwnInv, SessionInv, HandlerStep
<1>2. LoggingIn(4 .. 7) \/ UserFits
  BY <1>1 DEF OwnInv
<1>3. Tearing \/ TokenFits
  BY DEF OwnInv
<1>4. Tearing => LoggingIn(4 .. 7)
  BY DEF Tearing, LoggingIn
<1>5. OwnToken'
  BY <1>1, HandlerOwnToken
<1>6. CASE LoggingIn(4 .. 7)'
  BY <1>1, <1>3, <1>5, <1>6, LoginProfile, TearingGoesOn
<1>7. CASE ~LoggingIn(4 .. 7)'
  <2>1. CASE LoggingIn(4 .. 7)
    <3>1. at = 7 /\ KeepStep
      BY <1>1, <1>7, <2>1, LoginGoesOn
    <3>2. LoggingIn({7})
      BY <2>1, <3>1 DEF LoggingIn
    <3> QED
      BY <1>1, <1>5, <3>1, <3>2, KeepStepFits DEF ProfileFits
  <2>2. CASE ~LoggingIn(4 .. 7)
    BY <1>1, <1>2, <1>3, <1>4, <1>5, <1>7, <2>2, HandlerProfile DEF ProfileFits
  <2> QED
    BY <2>1, <2>2
<1> QED
  BY <1>6, <1>7

\* When DioCLI starts and stops the token stays with its user.
LEMMA ProcessOwn ==
  ASSUME ConsoleOK, OwnToken, UserFits \/ pc = "crashed", TokenFits,
         Launch \/ Stop \/ Relaunch, UNCHANGED env
  PROVE  OwnToken' /\ (UserFits' \/ pc' = "crashed") /\ TokenFits'
<1> USE DEF OwnToken, UserFits, TokenFits, HasLogin, ConsoleOK, SessionOK, Profiles
<1>1. CASE Launch
  <2>0. UserFits
    BY <1>1 DEF Launch
  <2>1. CASE StartEarly \/ StartWithout(System)
    BY <2>0, <2>1 DEF StartEarly, StartWithout, session
  <2>2. CASE StartWithToken(System)
    BY <2>0, <2>2 DEF StartWithToken
  <2>3. ASSUME NEW outcome, StartWithLogin(System, outcome, env.errors, env.checks)
        PROVE  OwnToken' /\ UserFits' /\ TokenFits'
    <3>1. CASE StartConnected(outcome, env.checks)
      BY <2>3, <3>1 DEF StartWithLogin, StartConnected
    <3>2. CASE StartFailed(outcome, env.errors)
      BY <2>3, <3>2 DEF StartWithLogin, StartFailed
    <3> QED
      BY <2>3, <3>1, <3>2 DEF StartWithLogin
  <2> QED
    BY <1>1, <2>1, <2>2, <2>3 DEF Launch
<1>2. CASE Stop
  BY <1>2 DEF Stop, StopSession
<1>3. CASE Relaunch
  BY <1>3 DEF Relaunch
<1> QED
  BY <1>1, <1>2, <1>3

\* A kill finds the profile as the login has left it.
LEMMA KillOwn ==
  ASSUME OwnInv, Fair, Kill, ~Severs, UNCHANGED env
  PROVE  OwnToken' /\ pc' = "crashed" /\ TokenFits'
<1>1. ConsoleOK /\ OwnToken /\ UNCHANGED session /\ pc' = "crashed"
  BY DEF OwnInv, SessionInv, Kill
<1>2. ~Tearing
  <2> SUFFICES ASSUME Tearing PROVE FALSE
    OBVIOUS
  <2>1. IsLogin(line.cmd) /\ pc = "run" /\ at \in {5, 6, 7}
    BY DEF Tearing, LoggingIn
  <2>2. End = 8
    BY <1>1, <2>1, InRun DEF IsLogin
  <2>3. Step.op = LoginOrder[at] /\ at <= Len(CmdSteps[line.cmd])
    BY <1>1, <2>1, <2>2, LoginOps, InRun
  <2>4. CASE at = 7
    BY <1>1, <2>1, <2>3, <2>4 DEF Severs, Running, LoginOrder
  <2>5. CASE at = 5
    BY <1>1, <2>1, <2>3, <2>5 DEF Severs, Running, LoginOrder
  <2>6. CASE at = 6
    <3>1. env.checks
      BY <2>6 DEF Tearing, LoggingIn
    <3> QED
      BY <1>1, <2>1, <2>3, <2>6, <3>1 DEF Severs, Running, LoginOrder
  <2> QED
    BY <2>1, <2>4, <2>5, <2>6
<1>3. TokenFits
  BY <1>2 DEF OwnInv
<1> QED
  BY <1>1, <1>3 DEF session, OwnToken, TokenFits, HasLogin

\* Every step keeps the invariant.
LEMMA NextOwn ==
  ASSUME OwnInv, [Next]_vars
  PROVE  OwnInv'
<1>1. SessionInv /\ SessionInv' /\ ConsoleOK
  BY NextSession DEF OwnInv, SessionInv
<1>2. UNCHANGED env
  BY DEF Next, Stopped, vars
<1>3. SUFFICES ASSUME Fair'
               PROVE  /\ OwnToken'
                      /\ LoggingIn(4 .. 7)' \/ pc' = "crashed" \/ UserFits'
                      /\ Tearing' \/ TokenFits'
  BY <1>1 DEF OwnInv
<1>4. Fair /\ (UNCHANGED vars \/ ~Severs)
  <2>1. ~severed' /\ ~(System /\ "createuser" \in env.cmds)
    BY <1>2, <1>3 DEF Fair, System
  <2>2. UNCHANGED vars \/ severed' = (severed \/ Severs)
    BY DEF Next, Stopped
  <2>3. UNCHANGED vars => severed' = severed
    BY DEF vars
  <2>4. CASE UNCHANGED vars
    <3>1. severed' = severed
      BY <2>3, <2>4
    <3>2. ~severed
      BY <2>1, <3>1
    <3> QED
      BY <2>1, <2>4, <3>2 DEF Fair
  <2>5. CASE severed' = (severed \/ Severs)
    <3>1. ~(severed \/ Severs)
      BY <2>1, <2>5
    <3> QED
      BY <2>1, <3>1 DEF Fair
  <2> QED
    BY <2>2, <2>4, <2>5
<1>5. /\ OwnToken
      /\ LoggingIn(4 .. 7) \/ pc = "crashed" \/ UserFits
      /\ Tearing \/ TokenFits
  BY <1>4 DEF OwnInv
<1>6. CASE UNCHANGED vars
  <2>1. UNCHANGED session /\ UNCHANGED <<env, pc, line, at>>
    BY <1>6 DEF vars, service
  <2>2. LoggingIn(4 .. 7)' = LoggingIn(4 .. 7) /\ Tearing' = Tearing
    BY <2>1 DEF Tearing, LoggingIn
  <2>3. OwnToken' = OwnToken /\ UserFits' = UserFits /\ TokenFits' = TokenFits
    BY <2>1 DEF session, OwnToken, UserFits, TokenFits, HasLogin
  <2> QED
    BY <1>5, <2>1, <2>2, <2>3
<1>7. CASE HandlerStep /\ ~Severs
  <2>1. ~Running("connectlast")
    BY <1>7 DEF Severs
  <2> QED
    BY <1>2, <1>3, <1>4, <1>7, <2>1, HandlerOwn
<1>8. ASSUME pc # "run" PROVE (UserFits \/ pc = "crashed") /\ TokenFits
  BY <1>5, <1>8 DEF LoggingIn, Tearing
<1>9. CASE UserStep
  <2>1. UNCHANGED session /\ pc # "run" /\ pc # "crashed"
    BY <1>9, UserSession DEF service, UserStep, AtPrompt
  <2> QED
    BY <1>5, <1>8, <2>1 DEF session, OwnToken, UserFits, TokenFits, HasLogin
<1>10. CASE ProcessStep /\ ~Severs
  <2>1. CASE Kill
    BY <1>2, <1>4, <1>10, <2>1, KillOwn
  <2>2. CASE Launch \/ Stop \/ Relaunch
    <3>1. pc # "run"
      BY <2>2 DEF Launch, Stop, Relaunch
    <3> QED
      BY <1>1, <1>2, <1>5, <1>8, <2>2, <3>1, ProcessOwn
  <2> QED
    BY <1>10, <2>1, <2>2 DEF ProcessStep
<1> QED
  BY <1>4, <1>6, <1>7, <1>9, <1>10 DEF Next, Stopped

\* The session that is used is that of the user who is shown, whoever has logged in, out
\* and in again, whatever an earlier DioCLI has left in the profile and wherever it was
\* killed, unless a login was cut off between its saves.
THEOREM SessionIsOwn == Spec => []ActsAsShown
<1>1. Init => OwnInv
  <2> SUFFICES ASSUME Init PROVE OwnInv
    OBVIOUS
  <2>1. SessionInv
    BY InitType DEF Init, SessionInv, PastGate, LoginReady, LoginTaken, LoginConnected,
       LoggingIn, HasToken
  <2>2. UserFits /\ TokenFits
    BY OwnTokenAtFirst DEF Init, UserFits, TokenFits, HasLogin
  <2> QED
    BY <2>1, <2>2 DEF Init, OwnInv, OwnToken
<1>2. OwnInv /\ [Next]_vars => OwnInv'
  BY NextOwn
<1>3. OwnInv => ActsAsShown
  BY DEF OwnInv, Fair, OwnToken, ActsAsShown
<1> QED
  BY <1>1, <1>2, <1>3, PTL DEF Spec

-----------------------------------------------------------------------------
(* The arguments of the tasks.                                             *)

\* What a step that has been passed asks for is on the line, or a login goes by the
\* profile.
StepGiven(j) ==
  \/ Range(Steps[line.cmd][j].args) \subseteq Bound(line)
  \/ /\ IsLogin(line.cmd) /\ line.cmd = "login"
     /\ line.vals = <<>> /\ HasLogin

Asked == pc = "run" /\ at < End =>
  \A j \in 1 .. at - 1 : AskedBy(line.cmd, at, j) => StepGiven(j)

\* A step that asks, and the handler goes on.
LEMMA PassesAsking ==
  ASSUME ConsoleOK, HandlerStep, pc' = "run", at < End, at' # End, ~Step.maybe,
         Step.op \in {"ask", "asklogin", "billing"}, Step.op = "billing" => at' = at + 1,
         Step.op = "asklogin" => line.cmd = "login"
  PROVE  line' = line /\ StepGiven(at)
<1> USE DEF Running
<1>1. AllGiven \/ LoginFromProfile \/ BillingGiven
  <2>1. CASE AskingStep
    <3>1. ~AskStep /\ ~AskLogin /\ ~AskBilling
      BY DEF AskStep, AskLogin, AskBilling, Await
    <3>2. ~GiveUp
      BY DEF GiveUp, Goto
    <3>3. ~BillingGivenUp
      BY InRun DEF BillingGivenUp, HandlerStep
    <3> QED
      BY <2>1, <3>1, <3>2, <3>3 DEF AskingStep
  <2>2. ~SessionStep
    BY DEF SessionStep, TokenStep, AccountStep, ConnectStep, KeepStep, ForgetStep,
       AssumeStep, ConfigureStep, DisconnectStep
  <2>3. ~ServiceStep
    BY DEF ServiceStep, TaskStep, DownloadStep, NeedTypesStep, NewTypesStep, FillTypesStep,
       UseTypesStep
  <2>4. ~ConsoleStep
    <3>1. at # End
      BY InRun DEF HandlerStep
    <3> QED
      BY <3>1 DEF ConsoleStep, Finished, Exit, Skip, GateStep, ShowStep, MayEndStep,
         RedirectStep, RestoreStep, EchoStep
  <2> QED
    BY <2>1, <2>2, <2>3, <2>4 DEF HandlerStep
<1>2. Step = Steps[line.cmd][at] /\ line.cmd \in Cmds /\ at \in 1 .. Len(Steps[line.cmd])
  BY InRun DEF HandlerStep
<1>3. CASE LoginFromProfile
  <2>1. IsLogin(line.cmd) /\ line.cmd = "login"
    BY <1>3, LoginOps DEF LoginFromProfile
  <2> QED
    BY <1>3, <2>1 DEF LoginFromProfile, StepGiven
<1>4. ASSUME Empty = {} PROVE StepGiven(at)
  <2>1. Step.args \in Seq(Range(Args[line.cmd].args))
    BY <1>2, ConsoleAssumption
  <2>2. \A i \in DOMAIN Step.args : Step.args[i] \in Bound(line)
    BY <1>4 DEF Empty
  <2>3. Range(Step.args) \subseteq Bound(line)
    BY <2>1, <2>2 DEF Range
  <2> QED
    BY <1>2, <2>3 DEF StepGiven
<1>5. CASE AllGiven
  BY <1>4, <1>5 DEF AllGiven
<1>6. CASE BillingGiven
  BY <1>4, <1>6 DEF BillingGiven, BillingComplete
<1> QED
  BY <1>1, <1>3, <1>5, <1>6

\* What was on the line stays there, and a login that goes by the profile still can.
LEMMA StaysGiven ==
  ASSUME ConsoleOK, HandlerStep, line' = line, pc' = "run", at' < End, NEW j, StepGiven(j)
  PROVE  StepGiven(j)'
<1>1. CASE Range(Steps[line.cmd][j].args) \subseteq Bound(line)
  BY <1>1 DEF StepGiven, Bound, ArgAt
<1>2. CASE IsLogin(line.cmd) /\ line.cmd = "login" /\ line.vals = <<>> /\ HasLogin
  <2>1. LoggingIn(2 .. 7)'
    <3>1. End = 8 /\ at \in 1 .. End
      BY <1>2, InRun DEF HandlerStep, IsLogin
    <3>2. at' \in 2 .. 7
      BY <3>1, HandlerMoves
    <3> QED
      BY <1>2, <3>2 DEF LoggingIn, IsLogin
  <2>2. \/ AllGiven \/ LoginFromProfile \/ TaskStep \/ TokenStep \/ AccountStep \/ ConnectStep
    BY <2>1, LoginMoves
  <2>3. profile'.auto = profile.auto /\ profile'.creds = profile.creds
    <3>1. CASE AllGiven \/ LoginFromProfile
      BY <3>1 DEF AllGiven, LoginFromProfile, Quiet, service, session
    <3>2. CASE TokenStep
      BY <3>2 DEF TokenStep, TakeToken
    <3>3. CASE ConnectStep
      BY <3>3 DEF ConnectStep, Connect, ConsoleOK, SessionOK, Profiles
    <3>4. CASE TaskStep \/ AccountStep
      <4>1. Same \/ Renewed
        BY <3>4, TaskSession, TaskPlain DEF TaskStep, AccountStep, session, Same
      <4> QED
        BY <4>1 DEF Same, Renewed, ConsoleOK, SessionOK, Profiles
    <3> QED
      BY <2>2, <3>1, <3>2, <3>3, <3>4
  <2> QED
    BY <1>2, <2>3 DEF StepGiven, HasLogin, IsLogin
<1> QED
  BY <1>1, <1>2 DEF StepGiven

\* A handler that goes on has what it has asked for.
LEMMA HandlerAsked ==
  ASSUME ConsoleOK, Asked, HandlerStep
  PROVE  Asked'
<1> SUFFICES ASSUME pc' = "run", (at < End)', NEW j \in 1 .. at' - 1,
                    AskedBy(line.cmd, at, j)'
             PROVE  StepGiven(j)'
  BY DEF Asked
<1> DEFINE c == line.cmd
<1>1. /\ at \in 1 .. End /\ at < End /\ End \in Nat /\ at' < End /\ line'.cmd = c
      /\ \/ at' = at + 1
         \/ at' = at + 2 /\ Step.op \in {"account", "billing"}
  <2>1. at \in 1 .. End /\ End \in Nat
    <3> HIDE DEF c
    <3> QED
      BY InRun DEF HandlerStep
  <2>2. at' < End /\ line'.cmd = c
    BY HandlerMoves
  <2>3. at' # End
    BY <2>1, <2>2
  <2> QED
    BY <2>1, <2>2, <2>3, HandlerMoves
<1>2. /\ ~Steps[c][j].maybe
      /\ \/ Steps[c][j].op = "ask"
         \/ Steps[c][j].op = "asklogin" /\ c = "login"
         \/ Steps[c][j].op = "billing" /\ at' = j + 1
      /\ \A k \in j + 1 .. at' - 1 : Steps[c][k].op # "billing"
  BY <1>1 DEF AskedBy
<1>3. Step = Steps[c][at] /\ at \in 1 .. Len(Steps[c]) /\ c \in Cmds
  BY <1>1, InRun DEF HandlerStep
<1>4. CASE j < at
  <2>1. j \in 1 .. at - 1 /\ j + 1 # at' /\ at \in j + 1 .. at' - 1
        /\ \A k \in j + 1 .. at - 1 : k \in j + 1 .. at' - 1
    BY <1>1, <1>4
  <2>2. AskedBy(c, at, j)
    BY <1>2, <2>1 DEF AskedBy
  <2>3. StepGiven(j)
    BY <1>1, <2>1, <2>2 DEF Asked, HandlerStep
  <2>4. line' = line
    BY <1>1, <1>2, <1>3, <2>1, HandlerMoves
  <2> QED
    BY <1>1, <2>3, <2>4, StaysGiven
<1>5. CASE j = at
  <2>1. at' # End /\ (Step.op = "billing" => at' = at + 1)
    BY <1>1, <1>2, <1>3, <1>5
  <2>2. line' = line /\ StepGiven(at)
    BY <1>1, <1>2, <1>3, <1>5, <2>1, PassesAsking
  <2> QED
    BY <1>1, <1>5, <2>2, StaysGiven
<1>6. CASE j > at
  <2>1. j = at + 1 /\ Step.op \in {"account", "billing"}
    BY <1>1, <1>6
  <2>2. Steps[c][j].op \in {"do", "connectlast"}
    BY <1>3, <2>1, LeavesOut
  <2> QED
    BY <1>2, <2>2
<1> QED
  BY <1>1, <1>4, <1>5, <1>6

\* No task lacks its arguments, but for those of createuser and subscribe, for any
\* commands that ask as AsksBefore says.
THEOREM TasksAreComplete == Spec => []TasksHaveTheirArgs
<1> DEFINE Inv == ConsoleOK /\ Asked
<1>1. Init => Inv
  BY InitType DEF Init, Asked
<1>2. Inv /\ [Next]_vars => Inv'
  <2> SUFFICES ASSUME ConsoleOK, Asked, [Next]_vars PROVE Asked'
    BY NextType
  <2>1. CASE HandlerStep
    BY <2>1, HandlerAsked
  <2>2. ASSUME pc' # "run" \/ at' = 1 PROVE Asked'
    BY <2>2 DEF Asked
  <2>3. CASE UserStep
    BY <2>2, <2>3, UserSession
  <2>4. CASE ProcessStep
    BY <2>2, <2>4 DEF ProcessStep, Launch, Stop, Kill, Relaunch
  <2>5. CASE UNCHANGED vars
    <3>1. UNCHANGED <<pc, line, at, profile>>
      BY <2>5 DEF vars, service, session
    <3> QED
      BY <3>1 DEF Asked, End, CmdSteps, StepGiven, Bound, ArgAt, HasLogin
  <2> QED
    BY <2>1, <2>3, <2>4, <2>5 DEF Next, Stopped
<1>3. Inv => TasksHaveTheirArgs
  <2> SUFFICES ASSUME ConsoleOK, Asked, Running("do") \/ Running("download"),
                      line.cmd \notin GoesOn
               PROVE  \/ Step.task.needs \subseteq Bound(line)
                      \/ line.cmd = "login" /\ line.vals = <<>> /\ HasLogin
    BY DEF TasksHaveTheirArgs
  <2>1. /\ pc = "run" /\ at < End /\ line.cmd \in Cmds
        /\ at \in 1 .. Len(Steps[line.cmd]) /\ Step = Steps[line.cmd][at]
        /\ Step.op \in {"do", "download"}
    BY InRun DEF Running
  <2>2. CASE Step.task.needs = {}
    BY <2>2
  <2>3. CASE \E j \in 1 .. at - 1 : /\ AskedBy(line.cmd, at, j)
                                    /\ Step.task.needs \subseteq Range(Steps[line.cmd][j].args)
    BY <2>1, <2>3 DEF Asked, StepGiven
  <2> QED
    BY <2>1, <2>2, <2>3, AsksBefore
<1> QED
  BY <1>1, <1>2, <1>3, PTL DEF Spec

-----------------------------------------------------------------------------
(* The output.                                                             *)

\* A line has an -output only if its command takes one.
OutputTaken == line # NoLine /\ line.output => CmdArgs[line.cmd].output

\* The output is in the file between the two steps that say so.
OutputThere ==
  Restores =>
    /\ redirecting <=> stdout = "file"
    /\ pc # "crashed" =>
         (stdout = "file" <=> pc = "run" /\ line.output /\ Redirected(line.cmd, at))

\* What a handler does with the output: it leaves it and goes to the next step; it
\* leaves it and goes elsewhere, from a step that may; it restores it; it redirects it.
Leaves ==
  /\ UNCHANGED output /\ pc' = "run" /\ at < End /\ at' = at + 1
  /\ Step.op = "restore" => Step.maybe
  /\ Step.op = "redirect" => Step.maybe \/ ~line.output

Quits ==
  /\ UNCHANGED output
  /\ at < End => ~KeepsOutput(Step)
  /\ \/ pc' # "run"
     \/ at' = End
     \/ at < End /\ at' = at + 2 /\ Step.op \in {"account", "billing"}

Returns ==
  /\ EndRedirect /\ pc' = "run" /\ at < End
  /\ at' = End \/ (at' = at + 1 /\ Step.op = "restore")

Redirects ==
  /\ stdout' = "file" /\ redirecting' = Windows /\ line.output
  /\ pc' = "run" /\ at < End /\ at' = at + 1 /\ Step.op = "redirect"

\* A step that goes to the next one.
LEMMA LeavesNext ==
  ASSUME ConsoleOK, pc = "run", at < End, Goto(at + 1), UNCHANGED output,
         Step.op \notin {"restore", "redirect"}
  PROVE  Leaves
BY DEF Leaves, Goto

\* A step that goes to the end of the handler.
LEMMA QuitsToEnd ==
  ASSUME ConsoleOK, pc = "run", at < End, Goto(End), UNCHANGED output, ~KeepsOutput(Step)
  PROVE  Quits
BY DEF Quits, Goto

\* The session steps leave the output alone, or are the ones that leave the handler.
LEMMA SessionOutput ==
  ASSUME ConsoleOK, HandlerStep, SessionStep
  PROVE  Leaves \/ Quits
<1> USE DEF Running
<1>1. pc = "run" /\ at < End
  BY InRun DEF HandlerStep, SessionStep, TokenStep, AccountStep, ConnectStep, KeepStep,
     ForgetStep, AssumeStep, ConfigureStep, DisconnectStep
<1>2. UNCHANGED output
  BY DEF SessionStep, TokenStep, AccountStep, ConnectStep, KeepStep, ForgetStep, AssumeStep,
     ConfigureStep, DisconnectStep
<1>3. /\ Step.op \notin {"restore", "redirect"} /\ ~KeepsOutput(Step)
      /\ \/ Goto(at + 1)
         \/ Goto(End)
         \/ Goto(at + 2) /\ Step.op = "account"
  <2>1. Step.op \in {"token", "account", "connect", "connectlast", "keeplogin", "keepauto",
                     "forgetlogin", "assumelogin", "configure", "disconnect"}
    BY DEF SessionStep, TokenStep, AccountStep, ConnectStep, KeepStep, ForgetStep,
       AssumeStep, ConfigureStep, DisconnectStep
  <2>2. Step.op \notin {"restore", "redirect"} /\ ~KeepsOutput(Step)
    BY <2>1 DEF KeepsOutput
  <2> QED
    BY <2>2 DEF SessionStep, TokenStep, AccountStep, ConnectStep, KeepStep, ForgetStep,
       AssumeStep, ConfigureStep, DisconnectStep
<1>4. CASE Goto(at + 2) /\ Step.op = "account"
  BY <1>1, <1>2, <1>3, <1>4 DEF Quits, Goto
<1> QED
  BY <1>1, <1>2, <1>3, <1>4, LeavesNext, QuitsToEnd

\* After a task the output is as it was, or has been restored.
LEMMA ServiceOutput ==
  ASSUME ConsoleOK, HandlerStep, ServiceStep
  PROVE  Leaves \/ Quits \/ Returns
<1> USE DEF Running
<1>1. pc = "run" /\ at < End
  BY InRun DEF HandlerStep, ServiceStep, TaskStep, DownloadStep, NeedTypesStep,
     NewTypesStep, FillTypesStep, UseTypesStep
<1>2. CASE TaskStep
  <2>1. PICK outcome \in {"done", "failed", "nothing"} :
          /\ Goto(IF Then(outcome) = "go" THEN at + 1 ELSE End)
          /\ IF Then(outcome) = "restore" THEN EndRedirect ELSE UNCHANGED output
    BY <1>2 DEF TaskStep
  <2>2. Step.op = "do"
    BY <1>2 DEF TaskStep
  <2>3. CASE Then(outcome) = "go"
    BY <1>1, <2>1, <2>2, <2>3, LeavesNext
  <2>4. CASE Then(outcome) = "restore"
    BY <1>1, <2>1, <2>4 DEF Returns, Goto
  <2>5. CASE Then(outcome) \notin {"go", "restore"}
    <3>1. ~KeepsOutput(Step)
      BY <2>1, <2>2, <2>5 DEF KeepsOutput, Then
    <3> QED
      BY <1>1, <2>1, <2>5, <3>1, QuitsToEnd
  <2> QED
    BY <2>3, <2>4, <2>5
<1>3. CASE DownloadStep
  BY <1>1, <1>3, QuitsToEnd DEF DownloadStep, KeepsOutput
<1>4. CASE NeedTypesStep \/ NewTypesStep
  BY <1>1, <1>4, LeavesNext DEF NeedTypesStep, NewTypesStep
<1>5. CASE FillTypesStep
  <2>1. CASE Goto(at + 1) /\ UNCHANGED output
    BY <1>1, <1>5, <2>1, LeavesNext DEF FillTypesStep
  <2>2. CASE Goto(End) /\ EndRedirect
    BY <1>1, <2>2 DEF Returns, Goto
  <2> QED
    BY <1>5, <2>1, <2>2 DEF FillTypesStep
<1>6. CASE UseTypesStep
  <2>1. CASE pc' = "crashed"
    BY <1>1, <1>6, <2>1 DEF UseTypesStep, Quits, KeepsOutput
  <2>2. CASE Goto(at + 1)
    BY <1>1, <1>6, <2>2, LeavesNext DEF UseTypesStep
  <2> QED
    BY <1>6, <2>1, <2>2 DEF UseTypesStep
<1> QED
  BY <1>2, <1>3, <1>4, <1>5, <1>6 DEF ServiceStep

\* The steps of the console itself are the ones that redirect and restore.
LEMMA ConsoleOutput ==
  ASSUME ConsoleOK, HandlerStep, ConsoleStep
  PROVE  Leaves \/ Quits \/ Returns \/ Redirects
<1> USE DEF Running
<1>1. pc = "run" /\ at \in 1 .. End /\ End \in Nat /\ Len(CmdSteps[line.cmd]) = End - 1
  BY InRun DEF HandlerStep
<1>2. CASE Finished
  BY <1>1, <1>2 DEF Finished, Finish, Afterwards, Quits
<1>3. CASE Exit
  BY <1>1, <1>3 DEF Exit, Finish, Quits, KeepsOutput
<1>4. CASE Skip
  BY <1>1, <1>4 DEF Skip, Quiet, Leaves, Goto
<1>5. CASE GateStep
  BY <1>1, <1>5, LeavesNext, QuitsToEnd DEF GateStep, Quiet, KeepsOutput
<1>6. CASE ShowStep
  BY <1>1, <1>6, LeavesNext DEF ShowStep, Quiet
<1>7. CASE MayEndStep
  <2>1. CASE Step.restore
    BY <1>1, <1>7, <2>1 DEF MayEndStep, Returns, Goto
  <2>2. CASE ~Step.restore
    BY <1>1, <1>7, <2>2, QuitsToEnd DEF MayEndStep, KeepsOutput
  <2> QED
    BY <2>1, <2>2
<1>8. CASE RedirectStep
  <2>1. CASE line.output
    BY <1>1, <1>8, <2>1 DEF RedirectStep, Redirects, Goto
  <2>2. CASE ~line.output
    BY <1>1, <1>8, <2>2 DEF RedirectStep, Leaves, Goto
  <2> QED
    BY <2>1, <2>2
<1>9. CASE RestoreStep
  BY <1>1, <1>9 DEF RestoreStep, Returns, Goto
<1>10. CASE EchoStep
  BY <1>1, <1>10, LeavesNext DEF EchoStep
<1> QED
  BY <1>2, <1>3, <1>4, <1>5, <1>6, <1>7, <1>8, <1>9, <1>10 DEF ConsoleStep

\* Asking and giving up leave the output alone.
LEMMA AskingOutput ==
  ASSUME ConsoleOK, HandlerStep, AskingStep
  PROVE  Leaves \/ Quits
<1> USE DEF Running
<1>1. pc = "run" /\ at < End /\ UNCHANGED output
      /\ Step.op \in {"ask", "asklogin", "askuser", "billing"}
  BY InRun DEF HandlerStep, AskingStep, AllGiven, AskStep, GiveUp, AskLogin,
     LoginFromProfile, BillingGiven, AskBilling, BillingGivenUp, Await, Quiet
<1>2. Step.op \notin {"restore", "redirect"} /\ ~KeepsOutput(Step)
  BY <1>1 DEF KeepsOutput
<1>3. CASE AllGiven \/ LoginFromProfile \/ BillingGiven
  BY <1>1, <1>2, <1>3 DEF AllGiven, LoginFromProfile, BillingGiven, Leaves
<1>4. CASE AskStep \/ AskLogin \/ AskBilling
  BY <1>1, <1>2, <1>4 DEF AskStep, AskLogin, AskBilling, Await, Quits
<1>5. CASE GiveUp
  BY <1>1, <1>2, <1>5, LeavesNext, QuitsToEnd DEF GiveUp
<1>6. CASE BillingGivenUp
  BY <1>1, <1>2, <1>6 DEF BillingGivenUp, Quits
<1> QED
  BY <1>3, <1>4, <1>5, <1>6 DEF AskingStep

\* How the place in the handler and the output go together.
LEMMA RedirectedNext ==
  ASSUME NEW c \in Cmds, NEW i \in 1 .. Len(Steps[c])
  PROVE  /\ Steps[c][i].op = "redirect" => Redirected(c, i + 1)
         /\ Steps[c][i].op = "restore" => ~Redirected(c, i + 1)
         /\ Steps[c][i].op \notin {"redirect", "restore"} =>
              (Redirected(c, i + 1) <=> Redirected(c, i))
         /\ Steps[c][i].op \in {"account", "billing"} =>
              (Redirected(c, i + 2) => Redirected(c, i))
<1>0. i \in Nat /\ i >= 1
  OBVIOUS
<1>1. ASSUME Steps[c][i].op = "redirect" PROVE Redirected(c, i + 1)
  <2>1. i \in 1 .. (i + 1) - 1 /\ i + 1 .. (i + 1) - 1 = {}
    BY <1>0
  <2> QED
    BY <1>1, <2>1 DEF Redirected
<1>2. ASSUME Steps[c][i].op = "restore" PROVE ~Redirected(c, i + 1)
  <2> SUFFICES ASSUME NEW j \in 1 .. (i + 1) - 1, Steps[c][j].op = "redirect",
                      \A k \in j + 1 .. (i + 1) - 1 : Steps[c][k].op # "restore"
               PROVE  FALSE
    BY DEF Redirected
  <2>1. j # i
    BY <1>2
  <2>2. i \in j + 1 .. (i + 1) - 1
    BY <1>0, <2>1
  <2> QED
    BY <1>2, <2>2
<1>3. ASSUME Steps[c][i].op \notin {"redirect", "restore"}
      PROVE  Redirected(c, i + 1) <=> Redirected(c, i)
  <2>1. ASSUME Redirected(c, i) PROVE Redirected(c, i + 1)
    <3>1. PICK j \in 1 .. i - 1 : /\ Steps[c][j].op = "redirect"
                                  /\ \A k \in j + 1 .. i - 1 : Steps[c][k].op # "restore"
      BY <2>1 DEF Redirected
    <3>2. j \in 1 .. (i + 1) - 1
      BY <1>0
    <3>3. \A k \in j + 1 .. (i + 1) - 1 : k = i \/ k \in j + 1 .. i - 1
      BY <1>0
    <3> QED
      BY <1>3, <3>1, <3>2, <3>3 DEF Redirected
  <2>2. ASSUME Redirected(c, i + 1) PROVE Redirected(c, i)
    <3>1. PICK j \in 1 .. (i + 1) - 1 :
            /\ Steps[c][j].op = "redirect"
            /\ \A k \in j + 1 .. (i + 1) - 1 : Steps[c][k].op # "restore"
      BY <2>2 DEF Redirected
    <3>2. j # i
      BY <1>3, <3>1
    <3>3. j \in 1 .. i - 1 /\ \A k \in j + 1 .. i - 1 : k \in j + 1 .. (i + 1) - 1
      BY <1>0, <3>2
    <3> QED
      BY <3>1, <3>3 DEF Redirected
  <2> QED
    BY <2>1, <2>2
<1>4. ASSUME Steps[c][i].op \in {"account", "billing"}, Redirected(c, i + 2)
      PROVE  Redirected(c, i)
  <2>1. PICK j \in 1 .. (i + 2) - 1 :
          /\ Steps[c][j].op = "redirect"
          /\ \A k \in j + 1 .. (i + 2) - 1 : Steps[c][k].op # "restore"
    BY <1>4 DEF Redirected
  <2>2. j # i /\ j # i + 1
    BY <1>4, <2>1, LeavesOut
  <2>3. j \in 1 .. i - 1 /\ \A k \in j + 1 .. i - 1 : k \in j + 1 .. (i + 2) - 1
    BY <1>0, <2>2
  <2> QED
    BY <2>1, <2>3 DEF Redirected
<1> QED
  BY <1>1, <1>2, <1>3, <1>4

\* A handler keeps its output where it belongs.
LEMMA HandlerOutput ==
  ASSUME ConsoleOK, OutputTaken, OutputThere, HandlerStep, UNCHANGED env
  PROVE  OutputThere'
<1> DEFINE c == line.cmd
<1> SUFFICES ASSUME Restores
             PROVE  /\ redirecting' <=> stdout' = "file"
                    /\ stdout' = "file" <=>
                         pc' = "run" /\ line'.output /\ Redirected(line.cmd, at)'
  BY DEF OutputThere, Restores, Windows
<1>1. /\ pc = "run" /\ c \in Cmds \ Leaking /\ at \in 1 .. End /\ End = Len(Steps[c]) + 1
      /\ Len(Steps[c]) \in Nat /\ Step = Steps[c][at]
  BY InRun DEF HandlerStep, Restores
<1>2. /\ redirecting <=> stdout = "file"
      /\ stdout = "file" <=> line.output /\ Redirected(c, at)
  BY <1>1 DEF OutputThere
<1>3. ASSUME at < End
      PROVE  /\ at \in 1 .. Len(Steps[c]) /\ (Redirected(c, at) => KeepsOutput(Step))
             /\ Step.op = "redirect" => ~Step.maybe
  <2>1. at \in 1 .. Len(Steps[c])
    BY <1>1, <1>3
  <2> QED
    BY <1>1, <2>1, RestoresOutput
<1>4. ~Redirected(c, End)
  BY <1>1, RestoresOutput
<1>5. ASSUME pc' = "run" PROVE line'.cmd = c /\ (at < End /\ Step.op # "billing" => line' = line)
  BY <1>5, HandlerMoves
<1>6. pc' = "run" => (Redirected(line.cmd, at)' <=> Redirected(c, at'))
  BY <1>5 DEF Redirected
<1>7. CASE Leaves
  <2>1. stdout' = stdout /\ redirecting' = redirecting /\ pc' = "run" /\ at < End
        /\ at' = at + 1
    BY <1>7 DEF Leaves, output
  <2>2. CASE Step.op \notin {"redirect", "restore"}
    <3>1. Redirected(c, at') <=> Redirected(c, at)
      BY <1>1, <1>3, <2>1, <2>2, RedirectedNext
    <3>2. CASE Step.op = "billing"
      <4>1. ~Redirected(c, at)
        BY <1>3, <2>1, <3>2 DEF KeepsOutput
      <4> QED
        BY <1>2, <1>6, <2>1, <3>1, <4>1
    <3>3. CASE Step.op # "billing"
      BY <1>2, <1>5, <1>6, <2>1, <3>1, <3>3
    <3> QED
      BY <3>2, <3>3
  <2>3. CASE Step.op = "redirect"
    <3>1. ~line.output /\ line' = line
      BY <1>3, <1>5, <1>7, <2>1, <2>3 DEF Leaves
    <3> QED
      BY <1>2, <2>1, <3>1
  <2>4. CASE Step.op = "restore"
    <3>1. ~KeepsOutput(Step)
      BY <1>7, <2>4 DEF Leaves, KeepsOutput
    <3>2. ~Redirected(c, at) /\ ~Redirected(c, at')
      BY <1>1, <1>3, <2>1, <2>4, <3>1, RedirectedNext
    <3> QED
      BY <1>2, <1>6, <2>1, <3>2
  <2> QED
    BY <2>2, <2>3, <2>4
<1>8. CASE Quits
  <2>1. stdout' = stdout /\ redirecting' = redirecting
    BY <1>8 DEF Quits, output
  <2>2. ~Redirected(c, at)
    <3>1. CASE at < End
      BY <1>3, <1>8, <3>1 DEF Quits
    <3>2. CASE at = End
      BY <1>4, <3>2
    <3> QED
      BY <1>1, <3>1, <3>2
  <2>3. pc' = "run" => ~Redirected(c, at')
    <3>1. at' = End => ~Redirected(c, at')
      BY <1>4
    <3>2. at < End /\ at' = at + 2 /\ Step.op \in {"account", "billing"} =>
            ~Redirected(c, at')
      BY <1>1, <1>3, <2>2, RedirectedNext
    <3> QED
      BY <1>8, <3>1, <3>2 DEF Quits
  <2> QED
    BY <1>2, <1>6, <2>1, <2>2, <2>3
<1>9. CASE Returns
  <2>1. stdout' # "file" /\ redirecting' = FALSE
    BY <1>2, <1>9 DEF Returns, EndRedirect
  <2>2. pc' = "run" /\ ~Redirected(c, at')
    BY <1>1, <1>3, <1>4, <1>9, RedirectedNext DEF Returns
  <2> QED
    BY <1>6, <2>1, <2>2
<1>10. CASE Redirects
  <2>1. stdout' = "file" /\ redirecting' = TRUE /\ line' = line /\ line.output /\ pc' = "run"
    BY <1>5, <1>10 DEF Redirects, Restores
  <2>2. Redirected(c, at')
    BY <1>1, <1>3, <1>10, RedirectedNext DEF Redirects
  <2> QED
    BY <1>6, <2>1, <2>2
<1> QED
  BY <1>7, <1>8, <1>9, <1>10, SessionOutput, ServiceOutput, ConsoleOutput, AskingOutput
     DEF HandlerStep

\* A line takes an -output that its command has.
LEMMA NextTaken ==
  ASSUME ConsoleOK, OutputTaken, [Next]_vars
  PROVE  OutputTaken'
<1> USE DEF OutputTaken
<1>1. ConsoleOK'
  BY NextType
<1>2. ASSUME NEW l, NEW n, Submit(l, n), l.output => CmdArgs[l.cmd].output
      PROVE  OutputTaken'
  BY <1>2 DEF Submit, Run, Refuse, CmdArgs
<1>3. CASE UserStep
  <2>1. ASSUME NEW c \in env.cmds, TypeLine(c) PROVE OutputTaken'
    <3>1. PICK k \in 0 .. Len(CmdArgs[c].args), out \in {FALSE, CmdArgs[c].output},
            bad \in SUBSET (Checked \cap Range(CmdArgs[c].args)) :
            Submit([cmd |-> c, output |-> out,
                    vals |-> [i \in 1 .. k |->
                                [for |-> ArgAt(c, i),
                                 kind |-> IF ArgAt(c, i) \in bad THEN "bad" ELSE "good"]]], 0)
      BY <2>1 DEF TypeLine
    <3> QED
      BY <1>2, <3>1
  <2>2. ASSUME NEW c, AskUsage(c) PROVE OutputTaken'
    BY <2>2 DEF AskUsage, Finish
  <2>3. ASSUME NEW kind, Answer(kind) PROVE OutputTaken'
    <3>1. Submit([line EXCEPT !.vals = Append(@, [for |-> asked, kind |-> kind])], 0)
          /\ AtPrompt /\ incomplete
      BY <2>3 DEF Answer
    <3>2. line # NoLine /\ line \in Lines
      BY <3>1 DEF ConsoleOK, LineOK
    <3>3. /\ [line EXCEPT !.vals = Append(@, [for |-> asked, kind |-> kind])].output = line.output
          /\ [line EXCEPT !.vals = Append(@, [for |-> asked, kind |-> kind])].cmd = line.cmd
      BY <3>2 DEF Lines
    <3> QED
      BY <1>2, <3>1, <3>2, <3>3
  <2>4. CASE Blank
    <3>1. line # NoLine
      BY <2>4 DEF Blank, ConsoleOK
    <3> QED
      BY <1>2, <2>4, <3>1 DEF Blank
  <2>5. CASE TypeNonsense \/ AnswerNonsense \/ CtrlC
    BY <2>5 DEF TypeNonsense, AnswerNonsense, CtrlC, Refuse
  <2>6. CASE EndOfInput
    BY <2>6 DEF EndOfInput, CmdArgs
  <2> QED
    BY <1>3, <2>1, <2>2, <2>3, <2>4, <2>5, <2>6 DEF UserStep
<1>4. ASSUME line' = NoLine \/ (line # NoLine /\ line'.cmd = line.cmd /\ line'.output = line.output)
      PROVE  OutputTaken'
  BY <1>4 DEF CmdArgs
<1>5. CASE HandlerStep
  <2>1. line # NoLine
    BY <1>5 DEF HandlerStep, ConsoleOK
  <2>2. CASE AskBilling \/ BillingGivenUp
    BY <1>4, <1>5, <2>1, <2>2, InRun DEF AskBilling, BillingGivenUp, ClearLast, HandlerStep,
       Lines
  <2>3. ~(AskBilling \/ BillingGivenUp) => line' = line \/ line' = NoLine
    <3>1. ASSUME NEW n, Goto(n) PROVE line' = line
      BY <3>1 DEF Goto
    <3>2. CASE SessionStep
      BY <3>1, <3>2 DEF SessionStep, TokenStep, AccountStep, ConnectStep, KeepStep,
         ForgetStep, AssumeStep, ConfigureStep, DisconnectStep
    <3>3. CASE ServiceStep
      BY <3>1, <3>3 DEF ServiceStep, TaskStep, DownloadStep, NeedTypesStep, NewTypesStep,
         FillTypesStep, UseTypesStep
    <3>4. CASE ConsoleStep
      BY <3>1, <3>4 DEF ConsoleStep, Finished, Exit, Finish, Skip, GateStep, ShowStep,
         MayEndStep, RedirectStep, RestoreStep, EchoStep
    <3>5. CASE AllGiven \/ AskStep \/ GiveUp \/ AskLogin \/ LoginFromProfile \/ BillingGiven
      BY <3>1, <3>5 DEF AllGiven, AskStep, GiveUp, AskLogin, LoginFromProfile, BillingGiven
    <3> QED
      BY <1>5, <3>2, <3>3, <3>4, <3>5 DEF HandlerStep, AskingStep
  <2> QED
    BY <1>4, <2>1, <2>2, <2>3
<1>6. CASE ProcessStep
  BY <1>4, <1>6 DEF ProcessStep, Launch, Stop, Kill, Relaunch, Idle, CmdArgs
<1>7. CASE UNCHANGED vars
  BY <1>7 DEF vars, CmdArgs
<1> QED
  BY <1>3, <1>5, <1>6, <1>7 DEF Next, Stopped

\* On Windows results and prompts go where they should, for any commands that restore the
\* output as RestoresOutput says.
THEOREM OutputIsPutBack == Spec => []OutputLands
<1> DEFINE Inv == ConsoleOK /\ OutputTaken /\ OutputThere
<1>1. Init => Inv
  BY InitType DEF Init, OutputTaken, OutputThere
<1>2. Inv /\ [Next]_vars => Inv'
  <2> SUFFICES ASSUME ConsoleOK, OutputTaken, OutputThere, [Next]_vars PROVE OutputThere'
    BY NextType, NextTaken
  <2>1. UNCHANGED env
    BY DEF Next, Stopped, vars
  <2>2. CASE HandlerStep
    BY <2>1, <2>2, HandlerOutput
  <2>3. ASSUME UNCHANGED output, pc \notin {"run", "crashed"}, pc' # "run" \/ at' = 1
        PROVE  OutputThere'
    BY <2>1, <2>3 DEF OutputThere, output, Redirected, Restores, Windows
  <2>4. CASE UserStep
    <3>1. ASSUME NEW l, NEW n, Submit(l, n) PROVE UNCHANGED output
      BY <3>1 DEF Submit, Run, Refuse
    <3>2. UNCHANGED output
      BY <2>4, <3>1 DEF UserStep, TypeLine, AskUsage, Finish, Answer, TypeNonsense, Refuse,
         Blank, AnswerNonsense, CtrlC, EndOfInput
    <3>3. pc \notin {"run", "crashed"}
      BY <2>4 DEF UserStep, AtPrompt
    <3> QED
      BY <2>3, <2>4, <3>2, <3>3, UserSession
  <2>5. CASE ProcessStep
    <3>1. CASE Launch \/ Stop
      BY <2>3, <3>1 DEF Launch, Stop, Idle
    <3>2. CASE Kill \/ Relaunch
      BY <2>1, <3>2 DEF Kill, Relaunch, Idle, output, OutputThere, Restores, Windows
    <3> QED
      BY <2>5, <3>1, <3>2 DEF ProcessStep
  <2>6. CASE UNCHANGED vars
    BY <2>6 DEF vars, output, OutputThere, Redirected, Restores, Windows
  <2> QED
    BY <2>2, <2>4, <2>5, <2>6 DEF Next, Stopped
<1>3. Inv => OutputLands
  <2> SUFFICES ASSUME ConsoleOK, OutputTaken, OutputThere, Restores
               PROVE  /\ pc = "prompt" => stdout = "console"
                      /\ Running("show") => (stdout = "file" <=> line.output)
    BY DEF OutputLands
  <2>1. pc = "prompt" => stdout = "console"
    BY DEF OutputThere, ConsoleOK, OutputOK
  <2>2. ASSUME Running("show") PROVE stdout = "file" <=> line.output
    <3>1. /\ pc = "run" /\ line # NoLine /\ line.cmd \in Cmds \ Leaking
          /\ at \in 1 .. Len(Steps[line.cmd]) /\ Steps[line.cmd][at].op = "show"
      BY <2>2, InRun DEF Running, Restores
    <3>2. line.output => Args[line.cmd].output
      BY <3>1, CommandOK DEF OutputTaken
    <3>3. Args[line.cmd].output => Redirected(line.cmd, at)
      BY <3>1, RestoresOutput
    <3> QED
      BY <3>1, <3>2, <3>3 DEF OutputThere
  <2> QED
    BY <2>1, <2>2
<1> QED
  BY <1>1, <1>2, <1>3, PTL DEF Spec

-----------------------------------------------------------------------------
(* Prompts.                                                                *)

AskOps == {"ask", "asklogin", "askuser", "billing"}
Asks(c) == \E i \in DOMAIN CmdSteps[c] : CmdSteps[c][i].op \in AskOps

\* The next word of the line is bound to this argument.
NextArg == ArgAt(line.cmd, Len(line.vals) + 1)

\* Two reprompts are counted one after the other.
CountInTurn ==
  \A c \in Cmds, a \in ArgNames : <<c, a, 2>> \in count => <<c, a, 1>> \in count

\* There is room for the answer that is waited for.
Room == AtPrompt /\ incomplete => Len(line.vals) < Len(CmdArgs[line.cmd].args)

\* In a batch file nothing that is required is missing.
Complete == pc = "run" /\ Batch /\ ~Bills(line.cmd) => ~Missing(line)

\* What a command that is incomplete is and lacks.
Lacking ==
  incomplete =>
    /\ line # NoLine /\ Asks(line.cmd)
    /\ asked \in Range(CmdArgs[line.cmd].args)
    /\ Batch => Bills(line.cmd) \/ ~CmdArgs[line.cmd].required

\* Every blank answer to a prompt has been counted as a reprompt, and the prompt too.
Tried ==
  line # NoLine /\ line.cmd # "login" =>
    \/ Bills(line.cmd)
    \/ /\ pc = "run" /\ blanks > 0 =>
            asked = NextArg /\ <<line.cmd, asked, blanks>> \in count
       /\ AtPrompt /\ incomplete =>
            asked = NextArg /\ <<line.cmd, asked, blanks + 1>> \in count

\* On the system command line only what is incomplete is prompted for.
Prompted ==
  System /\ pc = "prompt" /\ ~env.slips =>
    incomplete \/ (Batch /\ \E c \in env.cmds : Bills(c))

\* Unless a dialogue is broken off, nothing of it is left behind.
Clean ==
  ~env.slips =>
    /\ \A r \in count : Bills(r[1]) \/ (incomplete /\ r[1] = line.cmd)
    /\ mask => incomplete /\ Range(CmdArgs[line.cmd].args) \cap Passwords # {}
    /\ incomplete /\ echo => prompt = asked
    /\ pc = "prompt" => (mask <=> incomplete /\ asked \in Passwords)

\* The inductive invariant.
DialogueInv ==
  /\ ConsoleOK /\ CountInTurn /\ Room /\ Complete /\ Lacking /\ Tried /\ Prompted /\ Clean

\* How often a user has been reminded of an argument, told by the reminders.
LEMMA CountIs ==
  ASSUME count \subseteq Reprompts, CountInTurn, NEW c \in Cmds, NEW a \in ArgNames
  PROVE  Count(c, a) = IF <<c, a, 2>> \in count THEN 2
                       ELSE IF <<c, a, 1>> \in count THEN 1 ELSE 0
<1> DEFINE S == {r \in count : r[1] = c /\ r[2] = a}
           s == <<c, a, 1>>
           t == <<c, a, 2>>
<1>1. \A r \in S : r = s \/ r = t
  BY DEF Reprompts
<1>2. t \in count => s \in count
  BY DEF CountInTurn
<1>3. (s \in S <=> s \in count) /\ (t \in S <=> t \in count)
  OBVIOUS
<1>4. s # t
  OBVIOUS
<1>5. Count(c, a) = Cardinality(S)
  BY DEF Count
<1>6. S = {} \/ S = {s} \/ S = {s, t}
  <2> HIDE DEF S, s, t
  <2> QED
    BY <1>1, <1>2, <1>3
<1> HIDE DEF S, s, t
<1>7. IsFiniteSet({}) /\ Cardinality({}) = 0
  BY FS_EmptySet
<1>8. IsFiniteSet({s}) /\ Cardinality({s}) = 1
  BY FS_Singleton
<1>9. Cardinality({s, t}) = 2
  <2>1. {s, t} = {s} \cup {t} /\ t \notin {s}
    BY <1>4
  <2>2. Cardinality({s} \cup {t}) = Cardinality({s}) + 1
    BY <1>8, <2>1, FS_AddElement
  <2> QED
    BY <1>8, <2>1, <2>2
<1>10. (t \in count <=> S = {s, t}) /\ (s \in count <=> S # {})
  BY <1>3, <1>4, <1>6
<1>11. CASE t \in count
  BY <1>5, <1>9, <1>10, <1>11 DEF t
<1>12. CASE t \notin count /\ s \in count
  BY <1>5, <1>6, <1>8, <1>10, <1>12 DEF s, t
<1>13. CASE t \notin count /\ s \notin count
  BY <1>5, <1>7, <1>10, <1>13 DEF s, t
<1> QED
  BY <1>11, <1>12, <1>13

\* A reminder is the next one of its argument.
LEMMA RemindsNext ==
  ASSUME ConsoleOK, CountInTurn, pc = "run", NEW a \in ArgNames, Step.limit \in 1 .. 2,
         MayAsk(a), Reminded(a)
  PROVE  /\ CountInTurn'
         /\ \E n \in 1 .. 2 : count' = count \cup {<<line.cmd, a, n>>}
         /\ <<line.cmd, a, blanks>> \in count => <<line.cmd, a, blanks + 1>> \in count'
         /\ <<line.cmd, a, 1>> \in count'
<1> DEFINE c == line.cmd
<1>1. count \subseteq Reprompts /\ c \in Cmds /\ blanks \in 0 .. 3
  BY InRun DEF ConsoleOK, DialogueOK
<1>2. Count(c, a) = IF <<c, a, 2>> \in count THEN 2
                    ELSE IF <<c, a, 1>> \in count THEN 1 ELSE 0
  BY <1>1, CountIs
<1>3. Count(c, a) < 2
  BY <1>2 DEF MayAsk
<1>4. count' = count \cup {<<c, a, Count(c, a) + 1>>}
  BY DEF Reminded
<1>5. <<c, a, 2>> \notin count
  BY <1>2, <1>3
<1>6. \A b : <<c, a, b>> \in count => b = 1
  <2> SUFFICES ASSUME NEW b, <<c, a, b>> \in count PROVE b = 1
    OBVIOUS
  <2>1. <<c, a, b>> \in Reprompts
    BY <1>1
  <2>2. b \in 1 .. 2
    BY <2>1 DEF Reprompts
  <2>3. b # 2
    BY <1>5
  <2> QED
    BY <2>2, <2>3
<1>7. CASE <<c, a, 1>> \in count
  <2>1. count' = count \cup {<<c, a, 2>>}
    BY <1>2, <1>4, <1>5, <1>7
  <2>2. CountInTurn'
    BY <1>7, <2>1 DEF CountInTurn
  <2> QED
    BY <1>6, <1>7, <2>1, <2>2
<1>8. CASE <<c, a, 1>> \notin count
  <2>1. count' = count \cup {<<c, a, 1>>}
    BY <1>2, <1>4, <1>5, <1>8
  <2>2. CountInTurn'
    BY <2>1 DEF CountInTurn
  <2>3. \A b : <<c, a, b>> \notin count
    BY <1>6, <1>8
  <2> QED
    BY <2>1, <2>2, <2>3
<1> QED
  BY <1>7, <1>8

\* Something is empty only if the line has room for it.
LEMMA EmptyRoom ==
  ASSUME ConsoleOK, pc = "run", at < End, Step.op \in AskOps, Empty # {}
  PROVE  Len(line.vals) < Len(CmdArgs[line.cmd].args)
<1> DEFINE c == line.cmd  args == Args[c].args
<1>1. /\ c \in Cmds /\ CmdArgs[c] = Args[c] /\ args \in Seq(ArgNames) /\ Len(args) \in Nat
      /\ Len(line.vals) \in Nat /\ Len(line.vals) <= Len(args)
      /\ DOMAIN line.vals = 1 .. Len(line.vals)
      /\ at \in 1 .. Len(Steps[c]) /\ Step = Steps[c][at]
  BY InRun, CommandOK DEF Lines
<1>2. Step.args \in Seq(Range(args))
  BY <1>1, ConsoleAssumption DEF AskOps
<1>3. PICK i \in DOMAIN Step.args : Step.args[i] \notin Bound(line)
  BY DEF Empty
<1>4. Step.args[i] \in Range(args)
  BY <1>2, <1>3
<1>5. PICK j \in 1 .. Len(args) : args[j] = Step.args[i]
  <2>1. DOMAIN args = 1 .. Len(args)
    BY <1>1
  <2>2. \E j \in DOMAIN args : Step.args[i] = args[j]
    BY <1>4, Zenon DEF Range
  <2> QED
    BY <2>1, <2>2
<1>6. SUFFICES ASSUME Len(line.vals) = Len(args) PROVE FALSE
  BY <1>1
<1>7. ArgAt(c, j) = args[j]
  <2>1. Args[c].many => j = 1
    BY <1>1, <1>5, ConsoleAssumption
  <2> QED
    BY <1>1, <2>1 DEF ArgAt
<1>8. ArgAt(c, j) \in Bound(line)
  BY <1>1, <1>5, <1>6 DEF Bound
<1> QED
  BY <1>3, <1>5, <1>7, <1>8

\* What is asked for is an argument of the command.
LEMMA AsksOwn ==
  ASSUME ConsoleOK, pc = "run", at < End, Step.op \in AskOps
  PROVE  /\ Empty # {} => FirstEmpty \in Range(Step.args)
         /\ Refused \subseteq Range(CmdArgs[line.cmd].args)
         /\ Range(Step.args) \subseteq Range(CmdArgs[line.cmd].args)
<1> DEFINE c == line.cmd  args == Args[c].args
<1>1. /\ c \in Cmds /\ CmdArgs[c] = Args[c] /\ args \in Seq(ArgNames) /\ Len(args) \in Nat
      /\ Len(line.vals) \in Nat /\ Len(line.vals) <= Len(args)
      /\ DOMAIN line.vals = 1 .. Len(line.vals)
      /\ at \in 1 .. Len(Steps[c]) /\ Step = Steps[c][at]
  BY InRun, CommandOK DEF Lines
<1>2. Step.args \in Seq(Range(args))
  BY <1>1, ConsoleAssumption DEF AskOps
<1>3. Empty # {} => FirstEmpty \in Range(Step.args)
  <2>1. Empty \in SUBSET Nat
    BY <1>2 DEF Empty
  <2>2. Empty # {} => Min(Empty) \in DOMAIN Step.args
    BY <2>1, FirstOf DEF Empty
  <2> QED
    BY <2>2 DEF FirstEmpty, Range
<1>4. ASSUME NEW a \in Refused PROVE a \in Range(args)
  <2>1. PICK k \in DOMAIN line.vals : ArgAt(c, k) = a
    BY DEF Refused, Wrong
  <2>2. k \in 1 .. Len(args) /\ 1 \in 1 .. Len(args)
    BY <1>1, <2>1
  <2> QED
    BY <1>1, <2>1, <2>2 DEF ArgAt, Range
<1>5. Range(Step.args) \subseteq Range(args)
  BY <1>2 DEF Range
<1> QED
  BY <1>1, <1>3, <1>4, <1>5

\* What the next word is bound to depends on the line only.
LEMMA SameNext == line' = line => NextArg' = NextArg
BY DEF NextArg, ArgAt, CmdArgs

\* A line with one more answer.
LEMMA AnswerOK ==
  ASSUME NEW l \in Lines, NEW a \in Values
  PROVE  LET m == [l EXCEPT !.vals = Append(@, a)]
         IN  m \in Lines /\ m.cmd = l.cmd /\ m.vals = Append(l.vals, a)
BY DEF Lines

\* What a handler makes of the dialogue.
LEMMA HandlerDialogue ==
  ASSUME ConsoleOK, HandlerStep
  PROVE  \/ /\ UNCHANGED <<incomplete, asked, prompt, count, blanks>>
            /\ pc' \in {"run", "crashed"} /\ line'.cmd = line.cmd
            /\ line' = line \/ Bills(line.cmd)
            /\ mask' => mask
            /\ echo' = echo \/ Running("echo")
         \/ \E next \in {"stopping", Afterwards} : Finish(line.cmd, next)
         \/ AskStep \/ AskLogin \/ AskBilling
<1> USE DEF HandlerStep
<1>1. ASSUME Running("billing") PROVE Bills(line.cmd)
  <2>1. at \in 1 .. Len(Steps[line.cmd]) /\ Steps[line.cmd][at].op = "billing"
    BY <1>1, InRun DEF Running
  <2>2. at \in DOMAIN CmdSteps[line.cmd] /\ CmdSteps[line.cmd][at].op = "billing"
    BY <2>1, InRun, ConsoleAssumption
  <2> QED
    BY <2>2 DEF Bills
<1>2. CASE SessionStep
  BY <1>2 DEF SessionStep, TokenStep, AccountStep, ConnectStep, KeepStep, ForgetStep,
     AssumeStep, ConfigureStep, DisconnectStep, Goto, dialogue
<1>3. CASE ServiceStep
  BY <1>3 DEF ServiceStep, TaskStep, DownloadStep, NeedTypesStep, NewTypesStep,
     FillTypesStep, UseTypesStep, Goto, dialogue
<1>4. CASE ConsoleStep
  <2>1. CASE Finished \/ Exit
    BY <2>1 DEF Finished, Exit
  <2>2. CASE Skip \/ GateStep \/ ShowStep \/ MayEndStep \/ RedirectStep \/ RestoreStep
    BY <2>2 DEF Skip, GateStep, ShowStep, MayEndStep, RedirectStep, RestoreStep, Goto, Quiet,
       dialogue
  <2>3. CASE EchoStep
    BY <2>3 DEF EchoStep, Goto, dialogue
  <2> QED
    BY <1>4, <2>1, <2>2, <2>3 DEF ConsoleStep
<1>5. CASE AllGiven \/ GiveUp \/ LoginFromProfile
  BY <1>5 DEF AllGiven, GiveUp, LoginFromProfile, Goto, Quiet, dialogue
<1>6. CASE BillingGiven \/ BillingGivenUp
  <2>1. line'.cmd = line.cmd
    BY <1>6, InRun, ClearLastOK, RefusedOK DEF BillingGiven, BillingGivenUp
  <2> QED
    BY <1>1, <1>6, <2>1 DEF BillingGiven, BillingGivenUp, Quiet, dialogue
<1> QED
  BY <1>2, <1>3, <1>4, <1>5, <1>6 DEF AskingStep

\* The handler goes on, and the dialogue stays as it is.
LEMMA DialogueStays ==
  ASSUME DialogueInv, env' = env, ConsoleOK', pc = "run",
         UNCHANGED <<incomplete, asked, prompt, count, blanks>>,
         pc' \in {"run", "crashed"}, line'.cmd = line.cmd,
         line' = line \/ Bills(line.cmd), mask' => mask, echo' = echo \/ Running("echo")
  PROVE  DialogueInv'
<1> USE DEF DialogueInv
<1>1. line \in Lines /\ line # NoLine /\ line.cmd \in Cmds
  BY InRun
<1>2. line' # NoLine
  BY <1>1, ConsoleAssumption DEF NoLine
<1>3. CountInTurn' /\ Room' /\ Prompted'
  BY DEF CountInTurn, Room, Prompted, AtPrompt
<1>4. Complete'
  BY DEF Complete, Batch, Bills, Missing, CmdArgs, CmdSteps
<1>5. Lacking'
  BY <1>2 DEF Lacking, Batch, Bills, Asks, CmdArgs, CmdSteps
<1>6. Tried'
  <2>1. CASE Bills(line.cmd)
    BY <2>1 DEF Tried, Bills, CmdSteps
  <2>2. CASE line' = line
    BY <1>1, <2>2 DEF Tried, Bills, CmdSteps, NextArg, ArgAt, CmdArgs, AtPrompt
  <2> QED
    BY <2>1, <2>2
<1>7. incomplete => ~Running("echo")
  <2> SUFFICES ASSUME incomplete, Running("echo") PROVE FALSE
    OBVIOUS
  <2>1. at \in 1 .. Len(Steps[line.cmd]) /\ Steps[line.cmd][at].op = "echo"
    BY InRun DEF Running
  <2>2. PICK j \in 1 .. Len(Steps[line.cmd]) : Steps[line.cmd][j].op \in AskOps
    BY <1>1, InRun, ConsoleAssumption DEF Lacking, Asks
  <2> QED
    BY <1>1, <2>1, <2>2, AsksForLogin DEF AskOps
<1>8. Clean'
  <2> SUFFICES ASSUME ~env.slips PROVE Clean'
    BY DEF Clean
  <2>1. \A r \in count' : Bills(r[1])' \/ (incomplete' /\ r[1] = line'.cmd)
    BY DEF Clean, Bills, CmdSteps
  <2>2. mask' => incomplete' /\ Range(CmdArgs'[line'.cmd].args) \cap Passwords # {}
    BY DEF Clean, CmdArgs
  <2>3. incomplete' /\ echo' => prompt' = asked'
    BY <1>7 DEF Clean
  <2> QED
    BY <2>1, <2>2, <2>3 DEF Clean
<1> QED
  BY <1>3, <1>4, <1>5, <1>6, <1>8

\* The command ends.
LEMMA DialogueEnds ==
  ASSUME DialogueInv, env' = env, ConsoleOK', NEW c, incomplete => c = line.cmd,
         NEW next \in {"stopping", Afterwards}, Finish(c, next)
  PROVE  DialogueInv'
<1> USE DEF DialogueInv
<1>1. /\ pc' = next /\ line' = NoLine /\ incomplete' = FALSE /\ mask' = FALSE
      /\ count' = {r \in count : r[1] # c}
  BY DEF Finish, Reset
<1>2. pc' \in {"stopping", "prompt"} /\ (System => pc' = "stopping")
  BY <1>1 DEF Afterwards
<1>3. CountInTurn'
  BY <1>1 DEF CountInTurn
<1>4. Room' /\ Complete' /\ Lacking' /\ Tried' /\ Prompted'
  BY <1>1, <1>2 DEF Room, Complete, Lacking, Tried, Prompted, System
<1>5. Clean'
  <2> SUFFICES ASSUME ~env.slips PROVE Clean'
    BY DEF Clean
  <2>1. \A r \in count' : Bills(r[1])'
    BY <1>1 DEF Clean, Bills, CmdSteps
  <2> QED
    BY <1>1, <2>1 DEF Clean
<1> QED
  BY <1>3, <1>4, <1>5

\* The prompt names what is asked for.
LEMMA AskedNames ==
  ASSUME DialogueInv, ~env.slips, echo, pc = "run", at < End, Step.op \in AskOps,
         NEW a \in Range(CmdArgs[line.cmd].args), Await(a)
  PROVE  prompt' = a
<1> USE DEF DialogueInv
<1>1. /\ line.cmd \in Cmds /\ at \in 1 .. Len(Steps[line.cmd])
      /\ Step = Steps[line.cmd][at] /\ CmdArgs[line.cmd] = Args[line.cmd]
  BY InRun, CommandOK
<1>2. CASE Step.names = "always" \/ Count(line.cmd, a) = 0
  BY <1>2 DEF Await
<1>3. CASE Step.names # "always" /\ Count(line.cmd, a) # 0
  <2>1. Len(Args[line.cmd].args) = 1 /\ ~Bills(line.cmd)
    BY <1>1, <1>3, NamesOnce DEF AskOps
  <2>2. PICK r \in count : r[1] = line.cmd
    <3>1. {r \in count : r[1] = line.cmd /\ r[2] = a} # {}
      BY <1>3, FS_EmptySet DEF Count
    <3> QED
      BY <3>1
  <2>3. incomplete /\ prompt = asked /\ asked \in Range(Args[line.cmd].args)
    BY <1>1, <2>1, <2>2 DEF Clean, Lacking
  <2>4. asked = a
    <3>1. Args[line.cmd].args \in Seq(ArgNames)
      BY <1>1, CommandOK
    <3>2. DOMAIN Args[line.cmd].args = {1}
      BY <2>1, <3>1
    <3> QED
      BY <1>1, <2>3, <3>2 DEF Range
  <2> QED
    BY <1>3, <2>3, <2>4 DEF Await
<1> QED
  BY <1>2, <1>3

\* The command waits for an answer.
LEMMA DialogueGoesOn ==
  ASSUME DialogueInv, env' = env, ConsoleOK', pc = "run", at < End, Step.op \in AskOps,
         NEW a \in Range(CmdArgs[line.cmd].args), Await(a), line'.cmd = line.cmd,
         line' = line \/ Bills(line.cmd),
         Len(line'.vals) < Len(CmdArgs[line.cmd].args),
         CountInTurn', count' = count \/ \E n : count' = count \cup {<<line.cmd, a, n>>},
         \/ Bills(line.cmd) \/ line.cmd = "login"
         \/ a = NextArg /\ <<line.cmd, a, blanks + 1>> \in count',
         ~env.slips => (mask' <=> a \in Passwords)
  PROVE  DialogueInv'
<1> USE DEF DialogueInv
<1>1. /\ line \in Lines /\ line.cmd \in Cmds /\ at \in DOMAIN CmdSteps[line.cmd]
      /\ Step = CmdSteps[line.cmd][at]
  BY InRun, ConsoleAssumption DEF Step
<1>2. line' # NoLine
  BY <1>1, ConsoleAssumption DEF NoLine
<1>3. pc' = "prompt" /\ incomplete' = TRUE /\ asked' = a /\ blanks' = blanks /\ echo' = echo
  BY DEF Await
<1>4. Room' /\ Complete' /\ Prompted'
  BY <1>3 DEF Room, Complete, Prompted, CmdArgs
<1>5. Lacking'
  <2>1. Asks(line.cmd)
    BY <1>1 DEF Asks
  <2>2. Batch => Bills(line.cmd) \/ ~CmdArgs[line.cmd].required
    <3> SUFFICES ASSUME Batch, ~Bills(line.cmd) PROVE ~CmdArgs[line.cmd].required
      OBVIOUS
    <3> QED
      BY DEF Complete, Missing
  <2> QED
    BY <1>2, <1>3, <2>1, <2>2 DEF Lacking, Batch, Bills, Asks, CmdArgs, CmdSteps
<1>6. Tried'
  <2>1. CASE Bills(line.cmd) \/ line.cmd = "login"
    BY <2>1 DEF Tried, Bills, CmdSteps
  <2>2. CASE line' = line /\ a = NextArg /\ <<line.cmd, a, blanks + 1>> \in count'
    <3>1. NextArg' = NextArg
      BY <2>2, SameNext
    <3>2. pc' # "run" /\ <<line'.cmd, asked', blanks' + 1>> \in count' /\ asked' = NextArg'
      BY <1>3, <2>2, <3>1
    <3> QED
      BY <3>2 DEF Tried
  <2> QED
    BY <2>1, <2>2
<1>7. Clean'
  <2> SUFFICES ASSUME ~env.slips PROVE Clean'
    BY DEF Clean
  <2>1. ASSUME NEW r \in count' PROVE Bills(r[1])' \/ (incomplete' /\ r[1] = line'.cmd)
    <3>1. r \in count \/ r[1] = line.cmd
      OBVIOUS
    <3>2. Bills(r[1]) \/ r[1] = line.cmd
      BY <3>1 DEF Clean
    <3> QED
      BY <1>3, <3>2 DEF Bills, CmdSteps
  <2>2. mask' => incomplete' /\ Range(CmdArgs'[line'.cmd].args) \cap Passwords # {}
    BY <1>3 DEF CmdArgs
  <2>3. incomplete' /\ echo' => prompt' = asked'
    BY <1>3, AskedNames
  <2>4. mask' <=> incomplete' /\ asked' \in Passwords
    BY <1>3
  <2> QED
    BY <2>1, <2>2, <2>3, <2>4 DEF Clean
<1> QED
  BY <1>4, <1>5, <1>6, <1>7

\* A handler asks for an argument.
LEMMA HandlerAsks ==
  ASSUME DialogueInv, env' = env, ConsoleOK', pc = "run", AskStep \/ AskLogin
  PROVE  DialogueInv'
<1> USE DEF DialogueInv
<1> DEFINE a == FirstEmpty
<1>1. /\ at < End /\ Step.op \in {"ask", "askuser", "asklogin"} /\ Empty # {} /\ Await(a)
      /\ Masked(a) /\ line' = line
  BY InRun DEF AskStep, AskLogin, Running
<1>2. /\ line \in Lines /\ line.cmd \in Cmds /\ at \in 1 .. Len(Steps[line.cmd])
      /\ Step = Steps[line.cmd][at] /\ CmdArgs[line.cmd] = Args[line.cmd]
  BY <1>1, InRun, CommandOK
<1>3. a \in Range(Step.args) /\ a \in Range(CmdArgs[line.cmd].args) /\ a \in ArgNames
      /\ Step.limit \in 1 .. 2
  BY <1>1, AsksOwn, AskedOK DEF AskOps
<1>4. a = NextArg
  BY <1>1, InTurn DEF NextArg
<1>5. Len(line.vals) < Len(CmdArgs[line.cmd].args)
  BY <1>1, EmptyRoom DEF AskOps
<1>6. ~env.slips => (mask' <=> a \in Passwords)
  <2> SUFFICES ASSUME ~env.slips PROVE mask' <=> a \in Passwords
    OBVIOUS
  <2>1. Step.masked = Range(Step.args) \cap Passwords /\ Step.args = CmdArgs[line.cmd].args
    BY <1>1, <1>2, MasksPasswords, AsksInOrder
  <2>2. CASE Step.masked = {}
    <3>1. mask' = mask
      BY <1>1, <2>2 DEF Masked
    <3>2. ~mask
      BY <2>1, <2>2 DEF Clean
    <3> QED
      BY <1>3, <2>1, <2>2, <3>1, <3>2
  <2>3. CASE Step.masked # {}
    <3>1. mask' = (a \in Step.masked)
      BY <1>1, <2>3, Zenon DEF Masked
    <3>2. a \in Step.masked <=> a \in Passwords
      BY <1>3, <2>1
    <3> QED
      BY <3>1, <3>2, Zenon
  <2> QED
    BY <2>2, <2>3
<1> HIDE DEF a
<1>7. CASE AskStep
  <2>1. MayAsk(a) /\ Reminded(a)
    BY <1>7 DEF AskStep, a
  <2>2. /\ CountInTurn'
        /\ \E n \in 1 .. 2 : count' = count \cup {<<line.cmd, a, n>>}
        /\ <<line.cmd, a, blanks>> \in count => <<line.cmd, a, blanks + 1>> \in count'
        /\ <<line.cmd, a, 1>> \in count'
    BY <1>3, <2>1, RemindsNext
  <2>3. \/ Bills(line.cmd) \/ line.cmd = "login"
        \/ a = NextArg /\ <<line.cmd, a, blanks + 1>> \in count'
    <3>1. CASE blanks = 0
      BY <1>4, <2>2, <3>1
    <3>2. CASE blanks > 0
      <4>1. \/ Bills(line.cmd) \/ line.cmd = "login"
            \/ <<line.cmd, a, blanks>> \in count
        BY <1>4, <3>2, InRun DEF Tried
      <4> QED
        BY <1>4, <2>2, <4>1
    <3>3. blanks \in 0 .. 3
      BY DEF ConsoleOK, DialogueOK
    <3> QED
      BY <3>1, <3>2, <3>3
  <2> QED
    BY <1>1, <1>3, <1>5, <1>6, <2>2, <2>3, DialogueGoesOn DEF AskOps
<1>8. CASE AskLogin
  <2>1. count' = count /\ Step.op = "asklogin"
    BY <1>8 DEF AskLogin, Running
  <2>2. CountInTurn' /\ line.cmd = "login"
    BY <1>2, <2>1, AsksForLogin DEF CountInTurn
  <2> QED
    BY <1>1, <1>3, <1>5, <1>6, <2>1, <2>2, DialogueGoesOn DEF AskOps
<1> QED
  BY <1>7, <1>8

\* A handler asks for billing data.
LEMMA HandlerBills ==
  ASSUME DialogueInv, env' = env, ConsoleOK', pc = "run", AskBilling
  PROVE  DialogueInv'
<1> USE DEF DialogueInv
<1> DEFINE a == BillingAsks  n == Cardinality(Refused)  args == CmdArgs[line.cmd].args
<1>1. /\ at < End /\ Step.op = "billing" /\ ~BillingComplete /\ MayAsk(a) /\ Await(a)
      /\ Reminded(a) /\ line' = ClearLast(line, n) /\ mask' = mask
  BY InRun DEF AskBilling, Running
<1>2. /\ line \in Lines /\ line.cmd \in Cmds /\ at \in 1 .. Len(Steps[line.cmd])
      /\ Step = Steps[line.cmd][at] /\ CmdArgs[line.cmd] = Args[line.cmd]
      /\ Len(line.vals) \in Nat /\ Len(args) \in Nat /\ Len(line.vals) <= Len(args)
      /\ line.vals \in Seq(Values) /\ DOMAIN line.vals = 1 .. Len(line.vals)
  BY <1>1, InRun, CommandOK DEF Lines
<1>3. a \in Range(args) /\ a \in ArgNames /\ Step.limit \in 1 .. 2
  <2>1. Refused # {} => a \in Refused
    BY DEF Refused, Checked, BillingAsks
  <2>2. Refused = {} => a = FirstEmpty /\ Empty # {}
    BY <1>1 DEF BillingAsks, BillingComplete
  <2>3. a \in Range(args)
    BY <1>1, <2>1, <2>2, AsksOwn DEF AskOps
  <2> QED
    BY <1>1, <2>3, BillingAsksOK DEF AskBilling
<1>4. Bills(line.cmd)
  <2>1. at \in DOMAIN CmdSteps[line.cmd] /\ CmdSteps[line.cmd][at].op = "billing"
    BY <1>1, <1>2, InRun, ConsoleAssumption
  <2> QED
    BY <2>1 DEF Bills
<1>5. line'.cmd = line.cmd /\ Len(line'.vals) < Len(args)
  <2>1. n \in Nat /\ line'.cmd = line.cmd
    BY <1>1, <1>2, ClearLastOK, RefusedOK
  <2>2. line'.vals = SubSeq(line.vals, 1, Len(line.vals) - n)
    BY <1>1, <1>2 DEF ClearLast, Lines
  <2>3. CASE Refused = {}
    <3>1. Empty # {}
      BY <1>1, <2>3 DEF BillingComplete
    <3>2. Len(line.vals) < Len(args)
      BY <1>1, <3>1, EmptyRoom DEF AskOps
    <3>3. Len(line'.vals) <= Len(line.vals) /\ Len(line'.vals) \in Nat
      BY <1>2, <2>1, <2>2
    <3> QED
      BY <1>2, <2>1, <3>2, <3>3
  <2>4. CASE Refused # {}
    <3>1. IsFiniteSet(Refused)
      <4>1. Checked = ({"number"} \cup {"cvv"}) \cup {"expires"}
        BY DEF Checked
      <4>2. IsFiniteSet(Checked)
        BY <4>1, FS_Singleton, FS_AddElement
      <4> QED
        BY <4>2, FS_Subset DEF Refused
    <3>2. n # 0
      BY <2>4, <3>1, FS_EmptySet
    <3>3. PICK k \in 1 .. Len(line.vals) : TRUE
      BY <1>2, <2>4 DEF Refused, Wrong
    <3>4. Len(line.vals) > 0
      BY <1>2, <3>3
    <3>5. Len(line'.vals) < Len(line.vals) /\ Len(line'.vals) \in Nat
      BY <1>2, <2>1, <2>2, <3>2, <3>4
    <3> QED
      BY <1>2, <2>1, <3>5
  <2> QED
    BY <2>1, <2>3, <2>4
<1>6. /\ CountInTurn'
      /\ \E m \in 1 .. 2 : count' = count \cup {<<line.cmd, a, m>>}
  BY <1>1, <1>3, RemindsNext
<1>7. ~env.slips => (mask' <=> a \in Passwords)
  <2>1. Range(args) \cap Passwords = {}
    BY <1>1, <1>2, MasksPasswords
  <2>2. ~env.slips => ~mask
    BY <2>1 DEF Clean
  <2> QED
    BY <1>1, <1>3, <2>1, <2>2
<1> HIDE DEF a, n, args
<1> QED
  BY <1>1, <1>3, <1>4, <1>5, <1>6, <1>7, DialogueGoesOn DEF AskOps, a, args

\* A line or an answer goes to the handler, or is refused.
LEMMA SubmitDialogue ==
  ASSUME DialogueInv, env' = env, ConsoleOK', AtPrompt, NEW l \in Lines, NEW n \in 0 .. 3,
         Submit(l, n), incomplete => l.cmd = line.cmd,
         Len(l.vals) <= Len(CmdArgs[l.cmd].args),
         \/ n = 0
         \/ l = line /\ (\/ Bills(line.cmd) \/ line.cmd = "login"
                         \/ asked = NextArg /\ <<line.cmd, asked, n>> \in count)
  PROVE  DialogueInv'
<1> USE DEF DialogueInv
<1>1. l # NoLine /\ l.cmd \in env.cmds
  BY ScenarioOK, ConsoleAssumption DEF ConsoleOK, Lines, NoLine
<1>2. CASE Run(l) /\ blanks' = n
  <2>1. /\ line' = l /\ pc' = "run" /\ Parses(l) /\ UNCHANGED <<incomplete, asked>>
        /\ UNCHANGED <<prompt, mask, count, echo>>
    BY <1>2 DEF Run
  <2>2. CountInTurn' /\ Room' /\ Prompted'
    BY <2>1 DEF CountInTurn, Room, Prompted, AtPrompt
  <2>3. Complete'
    BY <2>1 DEF Complete, Parses, Batch, Missing, CmdArgs
  <2>4. Lacking'
    BY <1>1, <2>1 DEF Lacking, Batch, Bills, Asks, CmdArgs, CmdSteps
  <2>5. Tried'
    <3>1. CASE n = 0
      BY <1>2, <2>1, <3>1 DEF Tried, AtPrompt
    <3>2. CASE l = line /\ (Bills(line.cmd) \/ line.cmd = "login")
      BY <2>1, <3>2 DEF Tried, Bills, CmdSteps
    <3>3. CASE l = line /\ asked = NextArg /\ <<line.cmd, asked, n>> \in count
      <4>1. NextArg' = NextArg
        BY <2>1, <3>3, SameNext
      <4>2. ~AtPrompt' /\ <<line'.cmd, asked', blanks'>> \in count' /\ asked' = NextArg'
        BY <1>2, <2>1, <3>3, <4>1 DEF AtPrompt
      <4> QED
        BY <4>2 DEF Tried
    <3> QED
      BY <3>1, <3>2, <3>3
  <2>6. Clean'
    <3> SUFFICES ASSUME ~env.slips PROVE Clean'
      BY DEF Clean
    <3>1. \A r \in count' : Bills(r[1])' \/ (incomplete' /\ r[1] = line'.cmd)
      BY <2>1 DEF Clean, Bills, CmdSteps
    <3>2. mask' => incomplete' /\ Range(CmdArgs'[line'.cmd].args) \cap Passwords # {}
      BY <2>1 DEF Clean, CmdArgs
    <3>3. incomplete' /\ echo' => prompt' = asked'
      BY <2>1 DEF Clean
    <3> QED
      BY <2>1, <3>1, <3>2, <3>3 DEF Clean
  <2> QED
    BY <2>2, <2>3, <2>4, <2>5, <2>6
<1>3. CASE ~Parses(l) /\ Refuse
  <2>1. /\ line' = NoLine /\ incomplete' = FALSE /\ UNCHANGED <<count, mask>>
        /\ pc' \in {"prompt", "stopping"} /\ (pc' = "prompt" => pc = "prompt")
    BY <1>3 DEF Refuse
  <2>2. incomplete => Bills(line.cmd) /\ line.cmd \in env.cmds /\ line.cmd \in Cmds /\ Batch
    BY <1>1, <1>3, ScenarioOK DEF Parses, Missing, Lacking, ConsoleOK
  <2>3. CountInTurn' /\ Room' /\ Complete' /\ Lacking' /\ Tried'
    BY <2>1 DEF CountInTurn, Room, Complete, Lacking, Tried
  <2>4. Prompted'
    <3> SUFFICES ASSUME System, pc = "prompt", ~env.slips
                 PROVE  Batch /\ \E c \in env.cmds : Bills(c)
      BY <2>1 DEF Prompted, System, Batch, Bills, CmdSteps
    <3> QED
      BY <2>2 DEF Prompted
  <2>5. Clean'
    <3> SUFFICES ASSUME ~env.slips PROVE Clean'
      BY DEF Clean
    <3>1. \A r \in count' : Bills(r[1])'
      BY <2>1, <2>2 DEF Clean, Bills, CmdSteps
    <3>2. ~mask'
      <4> SUFFICES ASSUME mask PROVE FALSE
        BY <2>1
      <4>1. incomplete /\ Range(CmdArgs[line.cmd].args) \cap Passwords # {}
        BY DEF Clean
      <4>2. PICK i \in 1 .. Len(Steps[line.cmd]) : Steps[line.cmd][i].op = "billing"
        BY <2>2, <4>1, CommandOK, ConsoleAssumption DEF Bills
      <4> QED
        BY <2>2, <4>1, <4>2, MasksPasswords, CommandOK
    <3> QED
      BY <2>1, <3>1, <3>2 DEF Clean
  <2> QED
    BY <2>3, <2>4, <2>5
<1> QED
  BY <1>2, <1>3 DEF Submit

\* The user breaks off the dialogue.
LEMMA DialogueBroken ==
  ASSUME DialogueInv, env' = env, ConsoleOK', Refuse, env.slips
  PROVE  DialogueInv'
<1>1. line' = NoLine /\ incomplete' = FALSE /\ pc' # "run" /\ count' = count
  BY DEF Refuse
<1> QED
  BY <1>1 DEF DialogueInv, CountInTurn, Room, Complete, Lacking, Tried, Prompted, Clean

\* What the user does.
LEMMA UserDialogue ==
  ASSUME DialogueInv, env' = env, ConsoleOK', UserStep
  PROVE  DialogueInv'
<1> USE DEF DialogueInv
<1>1. /\ AtPrompt
      /\ incomplete => /\ line \in Lines /\ line.cmd \in Cmds /\ line.cmd \in env.cmds
                       /\ Len(line.vals) \in Nat /\ Len(CmdArgs[line.cmd].args) \in Nat
                       /\ Len(line.vals) < Len(CmdArgs[line.cmd].args)
                       /\ line.vals \in Seq(Values)
  <2>1. AtPrompt
    BY DEF UserStep
  <2>2. incomplete => line \in Lines /\ line.cmd \in env.cmds
    BY <2>1 DEF ConsoleOK, LineOK, Lines
  <2>3. env.cmds \subseteq Cmds
    BY ScenarioOK DEF ConsoleOK
  <2> QED
    BY <2>1, <2>2, <2>3, CommandOK DEF Lines, Room
<1>2. ASSUME NEW c \in env.cmds, ~incomplete, TypeLine(c) PROVE DialogueInv'
  <2>1. PICK k \in 0 .. Len(CmdArgs[c].args), out \in {FALSE, CmdArgs[c].output},
          bad \in SUBSET (Checked \cap Range(CmdArgs[c].args)) :
          Submit([cmd |-> c, output |-> out,
                  vals |-> [i \in 1 .. k |->
                              [for |-> ArgAt(c, i),
                               kind |-> IF ArgAt(c, i) \in bad THEN "bad" ELSE "good"]]], 0)
    BY <1>2 DEF TypeLine
  <2> DEFINE v == [i \in 1 .. k |->
                     [for |-> ArgAt(c, i),
                      kind |-> IF ArgAt(c, i) \in bad THEN "bad" ELSE "good"]]
             l == [cmd |-> c, output |-> out, vals |-> v]
  <2>2. /\ c \in Cmds /\ CmdArgs[c] = Args[c] /\ Args[c].args \in Seq(ArgNames)
        /\ Len(Args[c].args) \in Nat /\ Args[c].output \in BOOLEAN
    BY ScenarioOK, CommandOK DEF ConsoleOK
  <2>3. k \in 0 .. Len(Args[c].args) /\ out \in BOOLEAN
    <3>1. out \in {FALSE, Args[c].output}
      BY <2>2
    <3> QED
      BY <2>2, <3>1
  <2>4. v \in Seq(Values) /\ Len(v) <= Len(CmdArgs[c].args)
    <3>1. \A i \in 1 .. k : ArgAt(c, i) \in ArgNames
      BY <2>2, <2>3 DEF ArgAt
    <3>2. \A i \in 1 .. k : v[i] \in Values
      BY <3>1 DEF Values
    <3>3. DOMAIN v = 1 .. k /\ v \in Seq(Values)
      BY <2>3, <3>2
    <3>4. Len(v) = k
      <4> HIDE DEF v
      <4> QED  BY <2>3, <3>3
    <3> QED
      BY <2>2, <2>3, <3>3, <3>4
  <2>5. l \in Lines /\ l.cmd = c /\ l.vals = v
    <3> HIDE DEF v
    <3> QED  BY <2>3, <2>4 DEF Lines
  <2>6. Submit(l, 0)
    BY <2>1
  <2> HIDE DEF l, v
  <2> QED
    BY <1>1, <1>2, <2>4, <2>5, <2>6, SubmitDialogue
<1>3. ASSUME NEW c, incomplete => c = line.cmd, AskUsage(c) PROVE DialogueInv'
  BY <1>3, DialogueEnds DEF AskUsage
<1>4. ASSUME NEW kind \in {"good", "bad"}, Answer(kind) PROVE DialogueInv'
  <2> DEFINE a == [for |-> asked, kind |-> kind]
             l == [line EXCEPT !.vals = Append(@, a)]
  <2>1. incomplete /\ AtPrompt /\ Submit(l, 0)
    BY <1>4 DEF Answer
  <2>2. a \in Values
    BY <2>1 DEF ConsoleOK, DialogueOK, Prompts, Values
  <2> HIDE DEF a
  <2>3. l \in Lines /\ l.cmd = line.cmd /\ l.vals = Append(line.vals, a)
    BY <1>1, <2>1, <2>2, AnswerOK
  <2>4. Len(l.vals) <= Len(CmdArgs[l.cmd].args)
    <3>1. Len(l.vals) = Len(line.vals) + 1
      BY <1>1, <2>1, <2>2, <2>3
    <3> QED
      BY <1>1, <2>1, <2>3, <3>1
  <2> HIDE DEF l
  <2> QED
    BY <2>1, <2>3, <2>4, SubmitDialogue
<1>5. CASE Blank
  <2> DEFINE n == IF blanks < 3 THEN blanks + 1 ELSE 3
  <2>1. incomplete /\ AtPrompt /\ Submit(line, n)
    BY <1>5 DEF Blank
  <2>2. n \in 0 .. 3 /\ blanks \in 0 .. 3
    BY DEF ConsoleOK, DialogueOK
  <2>3. \/ Bills(line.cmd) \/ line.cmd = "login"
        \/ asked = NextArg /\ <<line.cmd, asked, n>> \in count
    <3> SUFFICES ASSUME ~Bills(line.cmd), line.cmd # "login"
                 PROVE  asked = NextArg /\ <<line.cmd, asked, n>> \in count
      OBVIOUS
    <3>1. asked = NextArg /\ <<line.cmd, asked, blanks + 1>> \in count
      BY <2>1 DEF Tried, ConsoleOK
    <3>2. blanks + 1 \in 1 .. 2
      BY <3>1 DEF ConsoleOK, DialogueOK, Reprompts
    <3>3. n = blanks + 1
      BY <2>2, <3>2
    <3> QED
      BY <3>1, <3>3
  <2>4. Len(line.vals) <= Len(CmdArgs[line.cmd].args)
    BY <1>1, <2>1
  <2> HIDE DEF n
  <2> QED
    BY <1>1, <2>1, <2>2, <2>3, <2>4, SubmitDialogue
<1>6. CASE TypeNonsense \/ AnswerNonsense \/ CtrlC
  BY <1>6, DialogueBroken DEF TypeNonsense, AnswerNonsense, CtrlC
<1>7. CASE EndOfInput
  <2>1. pc' = "stopping" /\ UNCHANGED <<line, dialogue, echo>>
    BY <1>7 DEF EndOfInput
  <2>2. CountInTurn' /\ Room' /\ Complete' /\ Tried' /\ Prompted'
    BY <2>1 DEF dialogue, CountInTurn, Room, Complete, Tried, Prompted, AtPrompt, Bills,
       CmdSteps
  <2>3. Lacking' /\ Clean'
    BY <2>1 DEF dialogue, Lacking, Clean, Batch, Bills, Asks, CmdArgs, CmdSteps
  <2> QED
    BY <2>2, <2>3
<1> QED
  BY <1>2, <1>3, <1>4, <1>5, <1>6, <1>7 DEF UserStep

\* The start and the end of a process.
LEMMA ProcessDialogue ==
  ASSUME DialogueInv, env' = env, ConsoleOK', ProcessStep
  PROVE  DialogueInv'
<1> USE DEF DialogueInv
<1>1. CASE Launch
  <2>1. line = NoLine /\ ~incomplete /\ UNCHANGED <<line, dialogue, echo>>
    BY <1>1 DEF Launch, Idle, ConsoleOK
  <2>2. pc' # "run" /\ (System => pc' # "prompt")
    BY <1>1 DEF Launch
  <2>3. ~incomplete' /\ line' = NoLine
    BY <2>1 DEF dialogue
  <2>4. CountInTurn' /\ Room' /\ Complete' /\ Lacking' /\ Tried' /\ Prompted'
    BY <2>1, <2>2, <2>3
       DEF dialogue, CountInTurn, Room, Complete, Lacking, Tried, Prompted, System
  <2>5. Clean'
    BY <2>1 DEF dialogue, Clean, Bills, CmdSteps
  <2> QED
    BY <2>4, <2>5
<1>2. CASE Stop \/ Kill
  <2>1. pc' \in {"stopped", "crashed"} /\ UNCHANGED <<line, dialogue, echo>>
    BY <1>2 DEF Stop, Kill, Idle
  <2>2. CountInTurn' /\ Room' /\ Complete' /\ Tried' /\ Prompted'
    BY <2>1 DEF dialogue, CountInTurn, Room, Complete, Tried, Prompted, AtPrompt, Bills,
       CmdSteps
  <2>3. Lacking' /\ Clean'
    BY <2>1 DEF dialogue, Lacking, Clean, Batch, Bills, Asks, CmdArgs, CmdSteps
  <2> QED
    BY <2>2, <2>3
<1>3. CASE Relaunch
  BY <1>3 DEF Relaunch, CountInTurn, Room, Complete, Lacking, Tried, Prompted, Clean, AtPrompt
<1> QED
  BY <1>1, <1>2, <1>3 DEF ProcessStep

\* Every step keeps the dialogue in order.
LEMMA NextDialogue ==
  ASSUME DialogueInv, [Next]_vars
  PROVE  DialogueInv'
<1>1. ConsoleOK /\ ConsoleOK'
  BY NextType DEF DialogueInv
<1>2. CASE UserStep /\ UNCHANGED env
  BY <1>1, <1>2, UserDialogue
<1>3. CASE HandlerStep /\ UNCHANGED env
  <2>1. pc = "run"
    BY <1>3 DEF HandlerStep
  <2>2. \A next \in {"stopping", Afterwards} : Finish(line.cmd, next) => DialogueInv'
    BY <1>1, <1>3, DialogueEnds
  <2>3. AskStep \/ AskLogin => DialogueInv'
    BY <1>1, <1>3, <2>1, HandlerAsks
  <2>4. AskBilling => DialogueInv'
    BY <1>1, <1>3, <2>1, HandlerBills
  <2> QED
    BY <1>1, <1>3, <2>1, <2>2, <2>3, <2>4, HandlerDialogue, DialogueStays
<1>4. CASE ProcessStep /\ UNCHANGED env
  BY <1>1, <1>4, ProcessDialogue
<1>5. CASE UNCHANGED vars
  <2> USE DEF DialogueInv
  <2>1. UNCHANGED <<env, pc, line, dialogue, echo>>
    BY <1>5 DEF vars
  <2>2. NextArg' = NextArg
    BY <2>1, SameNext
  <2>3. CountInTurn' /\ Room' /\ Complete' /\ Tried' /\ Prompted'
    BY <2>1, <2>2 DEF dialogue, CountInTurn, Room, Complete, Tried, Prompted, AtPrompt, Bills,
       CmdArgs, CmdSteps, System, Batch, Missing
  <2>4. Lacking' /\ Clean'
    BY <2>1 DEF dialogue, Lacking, Clean, Batch, Bills, Asks, CmdArgs, CmdSteps
  <2> QED
    BY <1>1, <2>3, <2>4
<1> QED
  BY <1>2, <1>3, <1>4, <1>5 DEF Next, Stopped

\* The dialogue is in order from the start.
LEMMA DialogueInOrder == Spec => []DialogueInv
<1>1. Init => DialogueInv
  <2> SUFFICES ASSUME Init PROVE DialogueInv
    OBVIOUS
  <2> QED
    BY InitType DEF Init, DialogueInv, CountInTurn, Room, Complete, Lacking, Tried, Prompted,
       Clean, AtPrompt
<1>2. DialogueInv /\ [Next]_vars => DialogueInv'
  BY NextDialogue
<1> QED
  BY <1>1, <1>2, PTL DEF Spec

\* Nobody is prompted without end, nor for what they did not ask, for any commands whose
\* handlers ask in the order of their arguments and each asks for them at most twice.
THEOREM PromptsEnd == Spec => []NoStrayPrompt
<1>1. DialogueInv => NoStrayPrompt
  <2> SUFFICES ASSUME DialogueInv PROVE NoStrayPrompt
    OBVIOUS
  <2>1. AtPrompt /\ incomplete /\ line.cmd # "login" => Bills(line.cmd) \/ blanks <= 1
    <3> SUFFICES ASSUME AtPrompt, incomplete, line.cmd # "login", ~Bills(line.cmd)
                 PROVE  blanks <= 1
      OBVIOUS
    <3>1. <<line.cmd, asked, blanks + 1>> \in count
      BY DEF DialogueInv, Tried, ConsoleOK
    <3>2. blanks + 1 \in 1 .. 2 /\ blanks \in 0 .. 3
      BY <3>1 DEF DialogueInv, ConsoleOK, DialogueOK, Reprompts
    <3> QED
      BY <3>2
  <2> QED
    BY <2>1 DEF DialogueInv, NoStrayPrompt, Lacking, Prompted
<1> QED
  BY <1>1, DialogueInOrder, PTL

\* What is kept to even after dialogues that were broken off.
AskedShown ==
  pc = "prompt" /\ incomplete =>
    /\ echo /\ NamesAlways(line.cmd) => prompt = asked
    /\ asked \in Passwords => mask

\* A handler that asks shows what it asks for, and hides it if it is a password.
LEMMA AskedIsShown ==
  ASSUME ConsoleOK, pc = "run", AskStep \/ AskLogin \/ AskBilling
  PROVE  AskedShown'
<1>1. /\ at < End /\ line.cmd \in Cmds /\ at \in 1 .. Len(Steps[line.cmd])
      /\ Step = Steps[line.cmd][at] /\ Step = CmdSteps[line.cmd][at]
      /\ CmdArgs[line.cmd] = Args[line.cmd] /\ Step.op \in AskOps
  BY InRun, CommandOK DEF AskStep, AskLogin, AskBilling, Running, AskOps
<1>2. ASSUME NEW a, Await(a), line'.cmd = line.cmd, a \in Passwords => mask'
      PROVE  AskedShown'
  <2>1. asked' = a /\ echo' = echo
    BY <1>2 DEF Await
  <2>2. NamesAlways(line.cmd) => Step.names = "always"
    <3>1. at \in DOMAIN CmdSteps[line.cmd]
      BY <1>1, ConsoleAssumption, CommandOK
    <3> QED
      BY <1>1, <3>1 DEF NamesAlways, AskOps
  <2>3. echo /\ NamesAlways(line.cmd) => prompt' = a
    BY <1>2, <2>2 DEF Await
  <2>4. NamesAlways(line.cmd)' = NamesAlways(line.cmd)
    BY <1>2 DEF NamesAlways, CmdSteps
  <2> QED
    BY <1>2, <2>1, <2>3, <2>4 DEF AskedShown
<1>3. CASE AskStep \/ AskLogin
  <2> DEFINE a == FirstEmpty
  <2>1. Await(a) /\ Masked(a) /\ line' = line /\ Empty # {}
        /\ Step.op \in {"ask", "askuser", "asklogin"}
    BY <1>3 DEF AskStep, AskLogin, Running
  <2>2. a \in Range(Step.args)
    BY <1>1, <2>1, AsksOwn
  <2> HIDE DEF a
  <2>3. Step.masked = Range(Step.args) \cap Passwords
    BY <1>1, <2>1, MasksPasswords
  <2>4. ASSUME a \in Passwords PROVE mask'
    <3>1. a \in Step.masked /\ Step.masked # {}
      BY <2>2, <2>3, <2>4
    <3>2. mask' = (a \in Step.masked)
      BY <2>1, <3>1, Zenon DEF Masked
    <3> QED
      BY <3>1, <3>2, Zenon
  <2> QED
    BY <1>2, <2>1, <2>4
<1>4. CASE AskBilling
  <2> DEFINE a == BillingAsks
  <2>1. Await(a) /\ Step.op = "billing" /\ line'.cmd = line.cmd
    <3>1. line' = ClearLast(line, Cardinality(Refused)) /\ line \in Lines
      BY <1>4, InRun DEF AskBilling
    <3> QED
      BY <1>4, <3>1, ClearLastOK, RefusedOK DEF AskBilling, Running
  <2>2. a \in Range(CmdArgs[line.cmd].args)
    <3>1. Refused # {} => a \in Refused
      BY DEF Refused, Checked, BillingAsks
    <3>2. Refused = {} => a = FirstEmpty /\ Empty # {}
      BY <1>4 DEF AskBilling, BillingAsks, BillingComplete
    <3> QED
      BY <1>1, <1>4, <3>1, <3>2, AsksOwn
  <2> HIDE DEF a
  <2>3. Range(CmdArgs[line.cmd].args) \cap Passwords = {}
    <3>1. Steps[line.cmd][at].op = "billing"
      BY <1>1, <2>1
    <3>2. Range(Args[line.cmd].args) \cap Passwords = {}
      BY <1>1, <3>1, MasksPasswords
    <3> QED
      BY <1>1, <3>2
  <2>4. a \notin Passwords
    BY <2>2, <2>3
  <2> QED
    BY <1>2, <2>1, <2>4
<1> QED
  BY <1>3, <1>4

\* Every step keeps to it.
LEMMA NextShown ==
  ASSUME ConsoleOK, AskedShown, [Next]_vars
  PROVE  AskedShown'
<1>1. CASE HandlerStep
  <2>1. pc = "run"
    BY <1>1 DEF HandlerStep
  <2>2. pc' # "prompt" \/ ~incomplete' \/ AskStep \/ AskLogin \/ AskBilling
    BY <1>1, HandlerDialogue DEF Finish
  <2> QED
    BY <2>1, <2>2, AskedIsShown DEF AskedShown
<1>2. CASE UserStep
  <2>1. ASSUME NEW l, NEW n, Submit(l, n) PROVE pc' # "prompt" \/ ~incomplete'
    BY <2>1 DEF Submit, Run, Refuse
  <2>2. pc' # "prompt" \/ ~incomplete'
    BY <1>2, <2>1 DEF UserStep, TypeLine, AskUsage, Finish, Answer, TypeNonsense, Refuse,
       Blank, AnswerNonsense, CtrlC, EndOfInput
  <2> QED
    BY <2>2 DEF AskedShown
<1>3. CASE ProcessStep
  <2>1. pc' # "prompt" \/ ~incomplete'
    BY <1>3 DEF ProcessStep, Launch, Stop, Kill, Relaunch, Idle, dialogue, ConsoleOK
  <2> QED
    BY <2>1 DEF AskedShown
<1>4. CASE UNCHANGED vars
  <2>1. UNCHANGED <<pc, line, incomplete, echo, prompt, asked, mask>>
    BY <1>4 DEF vars, dialogue
  <2> QED
    BY <2>1 DEF AskedShown, NamesAlways, CmdSteps
<1> QED
  BY <1>1, <1>2, <1>3, <1>4 DEF Next, Stopped

\* The prompt names the argument that the answer will be taken for, and what is typed is
\* hidden exactly when that is a password, for any commands that hide just their passwords;
\* and after a dialogue that was broken off a password is still hidden.
THEOREM PromptsFit == Spec => []PromptFits
<1> DEFINE Inv == ConsoleOK /\ AskedShown
<1>1. Init => Inv
  BY InitType DEF Init, AskedShown
<1>2. Inv /\ [Next]_vars => Inv'
  BY NextType, NextShown
<1>3. DialogueInv /\ AskedShown => PromptFits
  BY DEF DialogueInv, Clean, AskedShown, PromptFits
<1> QED
  BY <1>1, <1>2, <1>3, DialogueInOrder, PTL DEF Spec
=============================================================================
