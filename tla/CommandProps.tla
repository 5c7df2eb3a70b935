---------------------------- MODULE CommandProps ----------------------------
(***************************************************************************)
(* What the tables and the parser promise for every line that is typed.    *)
(* These are facts about the commands of DioCLI alone; they are stated of  *)
(* the command that is worked on, and hold whichever it is.                *)
(***************************************************************************)
EXTENDS ListingProps, Commands, CommandNames, CommandLines, LineText

\* The commands of the console are those of DioCLI.
ASSUME TablesAssumption == Cmds = DOMAIN CommandArgs /\ Args = CommandArgs

-----------------------------------------------------------------------------
(* Names.                                                                  *)

\* Names that are declared and were left out of the table: nothing is done for them.
Forgotten == {"token", "buycontract", "buycont"}

\* Every name that is declared for a command, but those, and every name that its usage
\* shows, leads to it; and it is in the menu.
NamedWell ==
  {c \in DOMAIN CommandArgs :
     /\ \A w \in (Range(Names[c]) \ Forgotten) \cup GetAltCommandStrs(c) : CommandOf[w] = c
     /\ c \in ShowCommandsMenu(DOMAIN CommandArgs)}

\* No two commands claim a name, and none is out of reach.
ASSUME NamesLeadHome == DOMAIN CommandArgs \subseteq NamedWell

-----------------------------------------------------------------------------
(* Lines.                                                                  *)

Arguments(c) == Registered(c, CommandArgs[c])

OptionsOf(c) ==
  {a \in Range(Arguments(c)) : a.kind \in {"value", "multi", "switch"} /\ a.name # "?"}

\* The "?", the first and the last option of a command, two words and one with a star.
Vocabulary(c) ==
  LET ends == {1, 2, Len(Arguments(c))} \cap DOMAIN Arguments(c)
  IN  {Flag(Arguments(c)[k].name) : k \in ends} \cup {Word("x"), Word("y"), Word("x*")}

LinesOf(c) == UNION {[1 .. n -> Vocabulary(c)] : n \in 0 .. 3}

\* What a line leaves behind when it is done with, or has been refused.
LeftBy(c) == {ResetArgs(ParseLine(Arguments(c), l, FALSE).args) : l \in LinesOf(c)}

StandsAlone(c) ==
  \A args \in LeftBy(c), l \in LinesOf(c), batch \in BOOLEAN :
    Outcome(ParseLine(args, l, batch)) = Outcome(ParseLine(Arguments(c), l, batch))

ReadAlone == {c \in DOMAIN CommandArgs : StandsAlone(c)}

\* What a handler reads from a line does not depend on the lines before it, refused
\* ones among them, although the arguments that hold it are the same ones.
LinesStandAlone == line # NoLine => line.cmd \in ReadAlone

\* What may be given and answered: with and without blanks, and with the characters
\* that SplitString looks for.  Values that hold quotes are lost, in whole or in part.
GivenTexts == {<<"a">>, <<"a", Space, "b">>, <<"-", "a", "=", "b", Space, "c">>, <<"/", "a">>}

TextAnswers ==
  {t \in UNION {[1 .. n -> {"a", Space, "=", "-", "/"}] : n \in 1 .. 3} :
     t[1] # Space /\ t[Len(t)] # Space}

\* A line with n values, to which an answer is added, is split into them and it; and if
\* it is refused it can be taken off again, but for one with blanks.
WholeAfter(n) ==
  \A given \in GivenTexts, answer \in TextAnswers :
    LET words == <<<<"c">>>> \o [i \in 1 .. n |-> given]
        text == AddAction(AddActions(words), answer)
    IN  /\ SplitString(text) = [words |-> Append(words, answer), end |-> "none"]
        /\ ~Has(answer, Space) =>
             SplitString(ClearLastArgumentFromActionStack(text)) = SplitString(AddActions(words))

\* The numbers of arguments of a command for which that is so of as many values as it takes.
WholeCounts ==
  {k \in {Len(CommandArgs[c].args) : c \in DOMAIN CommandArgs} : \A n \in 0 .. k : WholeAfter(n)}

\* Whatever stands on the line, what is answered or given on the system command line
\* reaches the parser as one word, blanks and all, and no other word changes.
AnswersStayWhole == line # NoLine => \E k \in WholeCounts : Len(line.vals) <= k

\* These register their unlabeled arguments before their options: the options must
\* come last on a line, or they are taken for values.
ValuesFirst ==
  {"download", "getdownloadurl", "getuploadtoken", "displayfile", "replicatefile",
   "subscribe", "setbillinginfo", "editreplicationpolicy"}

\* A word for each argument of a command, and among them an option.
Plain(c) == [k \in DOMAIN CommandArgs[c].args |-> Word(CommandArgs[c].args[k])]

WithOption(c, a, n) ==
  SubSeq(Plain(c), 1, n)
  \o (IF a.kind = "switch" THEN <<Flag(a.name)>> ELSE <<Flag(a.name), Word("v")>>)
  \o SubSeq(Plain(c), n + 1, Len(Plain(c)))

ReadWithOption(c, a, n) ==
  LET s == ParseLine(Arguments(c), WithOption(c, a, n), FALSE)
  IN  /\ s.ok
      /\ \A k \in DOMAIN s.args :
           s.args[k].vals = IF s.args[k].name = a.name /\ s.args[k].kind = a.kind
                            THEN (IF a.kind = "switch" THEN <<Flag(a.name)>> ELSE <<Word("v")>>)
                            ELSE ParseLine(Arguments(c), Plain(c), FALSE).args[k].vals

\* An option is read as one wherever it stands, and its handler asks for it as what it
\* has been registered as.
OptionsRead ==
  {c \in DOMAIN CommandArgs :
     \A a \in OptionsOf(c) :
       /\ \A n \in (IF c \in ValuesFirst THEN {Len(Plain(c))} ELSE 0 .. Len(Plain(c))) :
            ReadWithOption(c, a, n)
       /\ a.kind = "multi" <=> c \in DOMAIN ReadAsMulti /\ a.name \in ReadAsMulti[c]}

\* No option is taken for a value, nor read as what it is not.  Not for searchinvoices,
\* which reads its -status as an option for many values.
OptionsAreOptions == line # NoLine => line.cmd \in OptionsRead \cup {"searchinvoices"}

\* Lines without options are bound as the console has it.
ASSUME BoundInOrder ==
  \A c \in DOMAIN CommandArgs \ {"rem"} :
    LET s == ParseLine(Arguments(c), Plain(c), TRUE)
    IN  s.ok /\ \A k \in DOMAIN s.args :
                  s.args[k].vals = IF s.args[k].kind \in {"unlabeled", "words"}
                                   THEN <<Word(s.args[k].name)>> ELSE <<>>
=============================================================================
