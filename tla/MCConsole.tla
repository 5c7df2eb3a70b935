----------------------------- MODULE MCConsole -----------------------------
(***************************************************************************)
(* Console with the commands of Commands, for TLC, in the scenarios that a *)
(* run can afford: every command is in one of them, and every hazard in    *)
(* the smallest that meets it.                                             *)
(***************************************************************************)
EXTENDS CommandProps

AllCmds == DOMAIN CommandArgs

AllArgNames == UNION {Range(CommandArgs[c].args) : c \in DOMAIN CommandArgs}

\* The commands that can send their results to a file, and getphysicalfiles.
ListCmds == {c \in DOMAIN CommandArgs : CommandArgs[c].output} \cup {"getphysicalfiles"}

\* Every other command, without those that ask for billing data.
WordCmds == DOMAIN CommandArgs \ (ListCmds \cup {"setbillinginfo", "subscribe"})

Fresh == [auto |-> FALSE, creds |-> NoUser, token |-> NoUser, stays |-> FALSE]
Mine == [auto |-> TRUE, creds |-> "me", token |-> "me", stays |-> FALSE]

Typed ==
  [system |-> FALSE, batch |-> FALSE, windows |-> FALSE, slips |-> FALSE,
   errors |-> FALSE, checks |-> FALSE, again |-> FALSE,
   cmds |-> WordCmds, users |-> {"me"}, profiles |-> {Mine}]

OnWindows(s) == [s EXCEPT !.windows = TRUE]
OnSystemLine(s) == [s EXCEPT !.system = TRUE]
WithSlips(s) == [s EXCEPT !.slips = TRUE]
With(s, cmds) == [s EXCEPT !.cmds = cmds]

\* Two people who take turns: they log in, log out, and start DioCLI again.
People(cmds) ==
  [With(Typed, cmds) EXCEPT !.errors = TRUE, !.again = TRUE, !.users = {"me", "you"},
                            !.profiles = {Fresh, Mine}]

PeopleCmds == {"login", "logout", "changepassword", "deleteuser", "setconfig",
               "getuserinfo", "exit"}

MCScenarios ==
  {Typed,
   WithSlips(OnWindows(With(Typed, {"renamefile", "login"}))),
   WithSlips(OnWindows(With(Typed, {"createuser"}))),
   OnSystemLine(With(Typed, WordCmds \ {"createuser"})),
   [WithSlips(Typed) EXCEPT !.batch = TRUE],
   OnWindows(With(Typed, ListCmds \ Leaking)),
   With(Typed, ListCmds),
   With(Typed, {"setbillinginfo"}),
   OnSystemLine(With(Typed, {"subscribe"})),
   [OnSystemLine(With(Typed, {"subscribe", "renamefile", "login"})) EXCEPT !.batch = TRUE],
   [WithSlips(OnWindows(With(Typed, {"download", "deletefile"}))) EXCEPT !.errors = TRUE],
   People(PeopleCmds \cup {"createuser"}),
   OnSystemLine(People(PeopleCmds)),
   [People({"login", "logout"}) EXCEPT !.checks = TRUE]}
=============================================================================
