---------------------------- MODULE CommandLines ----------------------------
(***************************************************************************)
(* CmdLine::parse and the arguments of src/DioCLI/Diomede*Arg.h: how the   *)
(* words of a line find the arguments of a command, which are objects that *)
(* live as long as DioCLI does and are only reset between two lines.       *)
(*                                                                         *)
(* A word that looks like an option (-flag) has the name of one, and the   *)
(* text of its value if both are one quoted word.  Starred words hold the  *)
(* blankChar of TCLAP, '*'.                                                *)
(***************************************************************************)
EXTENDS Integers, Sequences, FiniteSets, FiniteSetsExt, SequencesExt, CommandArguments

Word(text) == [flag |-> "", text |-> text]
Flag(name) == [flag |-> name, text |-> ""]

Starred == {"x*"}

-----------------------------------------------------------------------------
(* The options of a command.                                               *)

Option(kind, name) ==
  [kind |-> kind, name |-> name, required |-> FALSE, set |-> FALSE, vals |-> <<>>]

Options(kind, names) == [i \in DOMAIN names |-> Option(kind, names[i])]

ByFilter(first) ==
  Options("value", first \o <<"minsize", "maxsize", "startdate", "enddate", "iscomplete",
                              "isdeleted", "metaname", "metavalue">>)

Logged(first) == Options("value", first \o <<"page", "offset", "output">>)

PolicyOptions ==
  Options("value", <<"online", "nearline", "offline", "trighrs", "trigonline",
                     "trignearline", "trigoffline", "expirehrs">>)

\* The options that are registered before the unlabeled arguments of a command ...
OptionsBefore ==
  [setconfig |-> Options("value", <<"autologin", "autologout", "checkaccount", "page",
                                    "offset", "ssl", "service", "sslservice", "transfer",
                                    "ssltransfer", "clipboard", "verbose">>),
   setuserinfo |-> Options("value", <<"firstname", "lastname", "company", "weburl",
                                      "phone">>),
   deleteuserinfo |-> Options("multi", <<"key">>),
   deletebillinginfo |-> Options("multi", <<"key">>),
   upload |-> Options("switch", <<"s", "m", "md5">>),
   resume |-> Options("switch", <<"list", "clear">>) \o Options("value", <<"output">>)
              \o Options("switch", <<"v">>),
   searchfiles |-> ByFilter(<<"filename", "fileid", "hashmd5", "hashsha1">>)
                   \o Options("value", <<"page", "offset", "output">>)
                   \o Options("switch", <<"pf", "v">>),
   searchfilestotal |-> ByFilter(<<"filename", "fileid", "hashmd5", "hashsha1">>)
                        \o Options("value", <<"output">>) \o Options("switch", <<"v">>),
   searchfilestotallog |-> Logged(<<"startdate", "enddate">>) \o Options("switch", <<"v">>),
   searchuploads |-> Logged(<<"fileid", "startdate", "enddate", "ip">>),
   searchdownloads |-> Logged(<<"fileid", "startdate", "enddate", "ip", "token">>),
   searchlogins |-> Logged(<<"startdate", "enddate", "ip">>),
   searchinvoices |-> Options("value", <<"startdate", "enddate", "status", "output">>)
                      \o Options("switch", <<"test">>),
   getmetadata |-> Options("value", <<"mid", "name", "value">>),
   getphysicalfiles |-> Options("value", <<"pf">>)]

\* ... and after them.
OptionsAfter ==
  [download |-> Options("value", <<"directory">>),
   getdownloadurl |-> Options("value", <<"maxdownloads", "lifetimehrs", "maxuniqueips",
                                         "errorredirect">>),
   getuploadtoken |-> Options("value", <<"bytes">>),
   displayfile |-> Options("value", <<"startbyte", "endbyte">>),
   replicatefile |-> Options("value", <<"expires">>),
   subscribe |-> Options("value", <<"address2">>),
   setbillinginfo |-> Options("value", <<"address2">>),
   createreplicationpolicy |-> PolicyOptions,
   editreplicationpolicy |-> PolicyOptions]

\* Commands that only have an -output; it is the same before and after nothing.
OutputOnly == Options("value", <<"output">>)

Before(c, cmdline) ==
  IF c \in DOMAIN OptionsBefore THEN OptionsBefore[c]
  ELSE IF cmdline.output THEN OutputOnly ELSE <<>>

After(c) == IF c \in DOMAIN OptionsAfter THEN OptionsAfter[c] ELSE <<>>

\* The unlabeled arguments; for many values, or for a remark, one that takes any number.
UnlabeledOf(c, cmdline) ==
  IF c = "rem" THEN Options("words", <<"remark">>)
  ELSE [i \in DOMAIN cmdline.args |->
          [Option(IF cmdline.many THEN "words" ELSE "unlabeled", cmdline.args[i])
             EXCEPT !.required = cmdline.required]]

\* Mutant of Registered: the options follow what else there is.
RegisteredLast(c, cmdline) ==
  Options("switch", <<"?">>) \o UnlabeledOf(c, cmdline) \o Before(c, cmdline) \o After(c)

\* The arguments of command c, of which cmdline tells the unlabeled ones, as SetupCommands
\* leaves them: CmdLine::_constructor has put the "?" in front.
Registered(c, cmdline) ==
  Options("switch", <<"?">>) \o Before(c, cmdline) \o UnlabeledOf(c, cmdline) \o After(c)

-----------------------------------------------------------------------------
(* One word.                                                               *)

\* Where the parser is: at an option that wants the next word, at a line it refuses,
\* past a "?".
Start(args) == [args |-> args, awaits |-> 0, ok |-> TRUE, help |-> FALSE, found |-> 0]

HasBlanks(word) == word.text \in Starred

\* The first word that an unlabeled argument is offered is its value, if it has none
\* yet and there is no star in the word.
UnlabeledTakes(arg, word) == arg.kind = "unlabeled" /\ ~arg.set /\ ~HasBlanks(word)

\* processArg does not turn the word down.
Takes(arg, word) ==
  \/ arg.kind \in {"value", "multi"} /\ word.flag = arg.name
  \/ arg.kind = "switch" /\ word = Flag(arg.name)
  \/ UnlabeledTakes(arg, word)
  \/ arg.kind = "words"

\* A switch is turned over; an argument for many values keeps them all.
Taken(arg, word) ==
  [arg EXCEPT !.set = TRUE,
              !.vals = CASE arg.kind = "switch" -> IF @ = <<>> THEN <<word>> ELSE <<>>
                         [] arg.kind \in {"multi", "words"} -> Append(@, word)
                         [] OTHER -> <<word>>]

\* XorHandler::check: a required argument counts, one for many values with its first.
Counts(arg) == IF arg.required /\ Len(arg.vals) <= 1 THEN 1 ELSE 0

Give(s, k, word) ==
  LET arg == Taken(s.args[k], word)
  IN  [s EXCEPT !.args[k] = arg, !.awaits = 0, !.found = @ + Counts(arg),
                !.help = @ \/ arg.name = "?"]

\* The word goes to the first argument that takes it.  A value or a switch is given once.
\* The value of an option is what follows its flag, whatever that is.
Offer(s, word) ==
  LET takers == {k \in DOMAIN s.args : Takes(s.args[k], word)}
      k == Min(takers)
      once == s.args[k].kind \in {"value", "switch"}
      value == s.args[k].kind \in {"value", "multi"}
  IN  IF ~s.ok THEN s
      ELSE IF s.awaits # 0 THEN Give(s, s.awaits, word)
      ELSE IF takers = {} THEN [s EXCEPT !.ok = s.help]
      ELSE IF once /\ s.args[k].set THEN [s EXCEPT !.ok = FALSE]
      ELSE IF value /\ word.text = "" THEN [s EXCEPT !.awaits = k]
      ELSE Give(s, k, IF value THEN Word(word.text) ELSE word)

\* CmdLine::parse.  In a batch file nothing that is required may be missing.
ParseLine(args, words, batch) ==
  LET s == FoldLeft(Offer, Start(args), words)
      required == Cardinality({k \in DOMAIN args : args[k].required})
  IN  [s EXCEPT !.ok = /\ @ /\ s.awaits = 0
                       /\ batch /\ ~s.help => s.found >= required]

-----------------------------------------------------------------------------
(* Between two lines.                                                      *)

NoText == Word("")

\* Mutant of ResetArg: an argument for many words keeps its length too.
ResetArgKeeping(arg) ==
  [arg EXCEPT !.set = FALSE,
              !.vals = IF arg.kind \in {"multi", "words"} THEN [i \in DOMAIN @ |-> NoText]
                       ELSE <<>>]

\* resetArg and resetValue: an option for many values keeps as many blank ones.
ResetArg(arg) ==
  [arg EXCEPT !.set = FALSE,
              !.vals = IF arg.kind = "multi" THEN [i \in DOMAIN @ |-> NoText] ELSE <<>>]

\* CmdLine::resetArgs, resetValues.
ResetArgs(args) == [k \in DOMAIN args |-> ResetArg(args[k])]

\* What a handler makes of an argument: of an option for many values it looks for
\* those it knows.
Reads(arg) ==
  IF arg.kind = "multi" THEN Range(arg.vals) \ {NoText} ELSE [set |-> arg.set, vals |-> arg.vals]

\* The options that a handler reads as those for many values (DiomedeMultiArg).
ReadAsMulti ==
  [deleteuserinfo |-> {"key"}, deletebillinginfo |-> {"key"}, searchinvoices |-> {"status"}]

Outcome(s) ==
  [ok |-> s.ok,
   reads |-> IF s.ok THEN [k \in DOMAIN s.args |-> Reads(s.args[k])] ELSE <<>>]
=============================================================================
