------------------------------ MODULE Session ------------------------------
(***************************************************************************)
(* The session of src/DioCLI/ConsoleControl.cpp: who is logged in, with    *)
(* which token, how often a task may still be repeated after a session     *)
(* error, and what the profile on the disk keeps of it for the next start. *)
(* Console says when each operation is called.                             *)
(*                                                                         *)
(* A token is the user it was issued to.  Whether the service still takes  *)
(* it shows only in the answer to a task: it may expire at any time.  A    *)
(* save of the profile is one step: that it fails or is cut short, and a   *)
(* second DioCLI that saves its own copy, are left out.                    *)
(***************************************************************************)
EXTENDS Integers, ServiceTasks

CONSTANTS Users, NoUser

ASSUME SessionAssumption == NoUser \notin Users

VARIABLES
  user,       \* m_szUsername, whose password is m_szPlainTextPassword
  token,      \* m_szSessionToken
  connected,  \* m_bConnected
  budget,     \* g_nSessionRetries; what is below 0 counts as -1
  profile     \* auto: GEN_AUTO_LOGIN and UI_REMEMBER_PWD; creds: UI_CLIENT_ENCRYPTED;
              \* token: GEN_SESSION_TOKEN; stays: GEN_AUTO_LOGOUT is 0

session == <<user, token, connected, budget, profile>>

MaxLoginRetries == 1
Somebody == Users \cup {NoUser}
Profiles == [auto : BOOLEAN, creds : Somebody, token : Somebody, stays : BOOLEAN]

SessionOK ==
  /\ user \in Somebody /\ token \in Somebody /\ connected \in BOOLEAN
  /\ budget \in -1 .. MaxLoginRetries /\ profile \in Profiles

-----------------------------------------------------------------------------
(* Tasks.                                                                  *)

Spent == IF budget >= 0 THEN budget - 1 ELSE -1
MayRepeat == budget >= 1

\* The answer to a task that is run with token t.
Answers(task, t) == Outcomes(task, t # NoUser)

\* RepeatLastTask: a new token for the last user who logged in; without a user name
\* LoginTask sends nothing, and the new token is empty.
LoginAgain(task, outcome) ==
  /\ MayRepeat /\ budget' = MaxLoginRetries /\ token' = user
  /\ profile' = [profile EXCEPT !.token = user]
  /\ outcome \in Answers(task, user)
  /\ UNCHANGED <<user, connected>>

\* A session error that is not followed by an answer to the task: no repeat is left,
\* or the login fails, or the thread takes neither.
GiveBack(outcome) ==
  /\ outcome = "failed" /\ budget' = Spent
  /\ UNCHANGED <<user, token, connected, profile>>

\* GENERIC_SERVICE: the task is repeated without a login.
RepeatOnly(task, outcome) ==
  /\ MayRepeat /\ budget' = Spent
  /\ outcome \in Answers(task, token)
  /\ UNCHANGED <<user, token, connected, profile>>

FirstAnswer(task, outcome) == outcome \in Answers(task, token) /\ UNCHANGED session

\* One task, with what becomes of the session if the service answers with an error
\* of the session.
HandleTask(task, outcome, errors) ==
  \/ FirstAnswer(task, outcome)
  \/ errors /\ (GiveBack(outcome) \/ RepeatOnly(task, outcome) \/ LoginAgain(task, outcome))

\* ProcessDownloadCommand: the same, but every repeat is preceded by a login.
HandleDownload(task, outcome, errors) ==
  \/ FirstAnswer(task, outcome)
  \/ errors /\ (GiveBack(outcome) \/ LoginAgain(task, outcome))

-----------------------------------------------------------------------------
(* Login and logout.                                                       *)

\* LoginUser, when the task has come back.
TakeToken(u) ==
  token' = u /\ user' = u /\ UNCHANGED <<connected, budget, profile>>

\* ... and when the account has been checked, whatever the check said.
Connect ==
  /\ connected' = TRUE /\ budget' = MaxLoginRetries
  /\ profile' = [profile EXCEPT !.token = token]
  /\ UNCHANGED <<user, token>>

\* Mutant of ResetLoginData: m_bConnected is not reset.
ResetLoginDataHalf(system) ==
  /\ user' = NoUser /\ token' = NoUser /\ connected' = connected
  /\ profile' = [profile EXCEPT !.token = IF system \/ profile.stays THEN NoUser ELSE @]
  /\ UNCHANGED budget

ResetLoginData(system) ==
  /\ user' = NoUser /\ token' = NoUser /\ connected' = FALSE
  /\ profile' = [profile EXCEPT !.token = IF system \/ profile.stays THEN NoUser ELSE @]
  /\ UNCHANGED budget

\* SetAutoLoginData(true) for user u.  Only the two switches are set while nobody is
\* connected.
KeepLogin(u) ==
  /\ profile' = IF connected THEN [profile EXCEPT !.auto = TRUE, !.creds = u, !.token = token]
                ELSE [profile EXCEPT !.auto = TRUE]
  /\ UNCHANGED <<user, token, connected, budget>>

\* SetAutoLoginData(false).
ForgetLogin ==
  /\ profile' = [profile EXCEPT !.auto = FALSE, !.creds = NoUser, !.token = NoUser]
  /\ UNCHANGED <<user, token, connected, budget>>

\* Mutant of KeepIf: the profile of the user before is kept.
KeepIfNever(on) == UNCHANGED session

\* ProcessLoginCommand: from the system command line, or if it was on before.
KeepIf(on) == IF on \/ profile.auto THEN KeepLogin(user) ELSE UNCHANGED session

\* ProcessCreateUserCommand, after the task.
AssumeLogin(system, u) == IF system THEN KeepLogin(u) ELSE ForgetLogin

\* ProcessConfigCommand: these options need a connected user.
Configure ==
  \/ connected /\ (KeepLogin(user) \/ ForgetLogin)
  \/ /\ connected
     /\ \E stays \in BOOLEAN : profile' = [profile EXCEPT !.stays = stays]
     /\ UNCHANGED <<user, token, connected, budget>>
  \/ UNCHANGED session

-----------------------------------------------------------------------------
(* Start and stop.                                                         *)

HasLogin == profile.auto /\ profile.creds # NoUser

\* StartDioCLI, before the commands login, logout and help.
StartEarly == UNCHANGED session

\* A token that is found is used: from the system command line always, else if it is to
\* log in automatically and the token has not expired by the local clock.
StartWithToken(system) ==
  /\ profile.token # NoUser /\ (system \/ HasLogin)
  /\ user' = IF HasLogin THEN profile.creds ELSE NoUser
  /\ token' = profile.token /\ connected' = TRUE /\ budget' = MaxLoginRetries
  /\ UNCHANGED profile

StartWithout(system) ==
  ~HasLogin /\ (system => profile.token = NoUser) /\ UNCHANGED session

\* LoginUser with what the profile holds.  The account may be checked, and that this
\* check fails is then reported as a failure to log in.
StartConnected(outcome, checks) ==
  /\ outcome = "done" \/ checks
  /\ token' = profile.creds /\ connected' = TRUE /\ budget' = MaxLoginRetries
  /\ profile' = [profile EXCEPT !.token = token']

\* An expired token stays, unless there was a login before LoginTask was repeated.
StartFailed(outcome, errors) ==
  /\ outcome = "failed" /\ connected' = FALSE
  /\ \/ token' = profile.token /\ UNCHANGED profile
        /\ budget' \in (IF errors THEN {MaxLoginRetries - 1} ELSE {}) \cup {MaxLoginRetries}
     \/ errors /\ token' = profile.creds /\ budget' = MaxLoginRetries
        /\ profile' = [profile EXCEPT !.token = token']

StartWithLogin(system, outcome, errors, checks) ==
  /\ HasLogin /\ (system => profile.token = NoUser)
  /\ user' = profile.creds
  /\ StartConnected(outcome, checks) \/ StartFailed(outcome, errors)

\* CommonStopDioCLI: the user is logged out, unless they stay; what is left of it is
\* what RepeatLastTask may have saved.
StopSession(system, errors) ==
  /\ profile' \in {profile} \cup
       (IF connected /\ ~profile.stays /\ ~system /\ errors /\ MayRepeat
        THEN {[profile EXCEPT !.token = user]} ELSE {})
  /\ user' = NoUser /\ token' = NoUser /\ connected' = FALSE /\ budget' = MaxLoginRetries
=============================================================================
