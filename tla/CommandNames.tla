---------------------------- MODULE CommandNames ----------------------------
(***************************************************************************)
(* The tables of src/DioCLI/CommandDefs.h and the ways to a command that   *)
(* lead through them: the word a line begins with, the names that the      *)
(* usage of a command shows, and the menu of HELP.  A command goes by the  *)
(* name of its ID; a word stands for itself in either case.                *)
(***************************************************************************)
EXTENDS Integers, Sequences, FiniteSetsExt, SequencesExt

-----------------------------------------------------------------------------
(* CMD_X, CMD_X_ALT1, ...: the names that are declared for each command.   *)

UserNames ==
  [createuser |-> <<"createuser", "cu">>,
   changepassword |-> <<"changepassword", "password", "cp">>,
   resetpassword |-> <<"resetpassword", "resetpass", "rp">>,
   login |-> <<"login", "li">>,
   logout |-> <<"logout", "lo">>,
   setconfig |-> <<"setconf">>,
   sessiontoken |-> <<"sessiontoken", "session", "token">>,
   deleteuser |-> <<"deleteuser", "du">>]

FileNames ==
  [upload |-> <<"upload", "up", "u">>,
   resume |-> <<"resume", "res", "r">>,
   download |-> <<"download", "down", "d">>,
   getuploadtoken |-> <<"getuploadtoken", "gettoken", "getut">>,
   getdownloadurl |-> <<"getdownloadurl", "geturl", "url">>,
   deletefile |-> <<"delete", "del", "rm", "erase">>,
   undeletefile |-> <<"undelete", "undel">>,
   renamefile |-> <<"rename", "ren", "mv">>,
   displayfile |-> <<"type", "cat">>,
   createmetadata |-> <<"createmetadata", "createmeta", "createm">>,
   createfilemetadata |-> <<"createfilemetadata", "createfmeta", "createfm">>,
   setfilemetadata |-> <<"setfilemetadata", "setfmeta", "setfm">>,
   getmetadata |-> <<"getmetadata", "getm">>,
   getfilemetadata |-> <<"getfilemetadata", "getfmeta", "getfm">>,
   deletefilemetadata |-> <<"deletefilemetadata", "delfm">>,
   deletemetadata |-> <<"deletemetadata", "delm", "deletefm">>,
   editmetadata |-> <<"editmetadata", "editm">>]

ReplicationNames ==
  [replicatefile |-> <<"replicate", "rep">>,
   unreplicatefile |-> <<"unreplicate", "unrep">>,
   getstoragetypes |-> <<"getstoragetypes", "getsttypes">>,
   getphysicalfiles |-> <<"getphysicalfiles", "getpf">>,
   createreplicationpolicy |-> <<"createrp", "createpolicy">>,
   getreplicationpolicies |-> <<"getrps", "getpolicies">>,
   editreplicationpolicy |-> <<"editrp", "editpolicy">>,
   deletereplicationpolicy |-> <<"deleterp", "deletepolicy">>,
   setreplicationpolicy |-> <<"setrp", "setpolicy">>,
   setdefreplicationpolicy |-> <<"setdefaultrp", "setdefrp", "setdefaultpolicy">>,
   getdefreplicationpolicy |-> <<"getdefaultrp", "getdefrp", "getdefaultpolicy">>,
   getfileinfo |-> <<"getfileinfo">>]

AccountNames ==
  [setuserinfo |-> <<"setuserinfo", "setui">>,
   getuserinfo |-> <<"getuserinfo", "getui">>,
   deleteuserinfo |-> <<"deleteuserinfo", "delui">>,
   getemailaddresses |-> <<"getallemails", "getemail">>,
   addemailaddress |-> <<"addemail">>,
   deleteemailaddress |-> <<"deleteemail", "delemail">>,
   setprimaryemailaddress |-> <<"setprimaryemail", "setemail">>,
   checkaccount |-> <<"checkaccount", "checkacct", "account">>,
   subscribe |-> <<"subscribe", "sub">>,
   setbillinginfo |-> <<"setbillinginfo", "setbill">>,
   getbillinginfo |-> <<"getbillinginfo", "getbill">>,
   deletebillinginfo |-> <<"deletebillinginfo", "delbill">>]

SearchNames ==
  [searchpayments |-> <<"searchpayments", "spay">>,
   searchfiles |-> <<"searchfiles", "sf", "s", "dir", "ls">>,
   searchfilestotal |-> <<"searchtotal", "searchtot", "sft", "st">>,
   searchfilestotallog |-> <<"searchtotallog", "sftl", "stl">>,
   searchuploads |-> <<"searchuploads", "sup">>,
   searchdownloads |-> <<"searchdownloads", "sdown">>,
   searchlogins |-> <<"searchlogins", "slogin">>]

ProductNames ==
  [getallproducts |-> <<"getallproducts">>,
   purchaseproduct |-> <<"purchaseproduct", "buyproduct", "buyprod">>,
   getmyproducts |-> <<"getmyproducts">>,
   cancelproduct |-> <<"cancelproduct", "cancelprod">>,
   getallcontracts |-> <<"getallcontracts">>,
   purchasecontract |-> <<"purchasecontract", "buycontract", "buycont">>,
   getmycontracts |-> <<"getmycontracts">>,
   cancelcontract |-> <<"cancelcontract", "cancelcont">>,
   searchinvoices |-> <<"searchinvoices", "sinvoice">>,
   purchasesupport |-> <<"purchasesupport">>,
   getmysupports |-> <<"getmysupports">>,
   cancelsupport |-> <<"cancelsupport">>]

ClientNames ==
  [exit |-> <<"exit">>, menu |-> <<"menu">>, help |-> <<"help", "?">>,
   about |-> <<"about", "ver">>, status |-> <<"status">>]

SystemNames == [cls |-> <<"cls">>, rem |-> <<"rem", "#">>, echo |-> <<"echo">>]

Names ==
  UserNames @@ FileNames @@ ReplicationNames @@ AccountNames @@ SearchNames
  @@ ProductNames @@ ClientNames @@ SystemNames

CommandStr(c) == Names[c][1]

Words == UNION {Range(Names[c]) : c \in DOMAIN Names}

-----------------------------------------------------------------------------
(* The tables.                                                             *)

\* The commands that have rows in the next table, in its order.
AlternateOrder ==
  <<"createuser", "changepassword", "resetpassword", "login", "logout", "sessiontoken",
    "deleteuser", "upload", "resume", "download", "getuploadtoken", "getdownloadurl",
    "deletefile", "undeletefile", "renamefile", "displayfile", "createmetadata",
    "createfilemetadata", "setfilemetadata", "getmetadata", "getfilemetadata",
    "deletemetadata", "deletefilemetadata", "editmetadata", "replicatefile",
    "unreplicatefile", "getphysicalfiles", "createreplicationpolicy",
    "getreplicationpolicies", "editreplicationpolicy", "deletereplicationpolicy",
    "setreplicationpolicy", "setdefreplicationpolicy", "getdefreplicationpolicy",
    "getstoragetypes", "setuserinfo", "getuserinfo", "deleteuserinfo",
    "getemailaddresses", "deleteemailaddress", "setprimaryemailaddress", "checkaccount",
    "subscribe", "setbillinginfo", "getbillinginfo", "deletebillinginfo",
    "searchpayments", "searchfiles", "searchfilestotal", "searchfilestotallog",
    "searchuploads", "searchdownloads", "searchlogins", "searchinvoices",
    "purchaseproduct", "cancelproduct", "cancelcontract", "help", "about", "rem">>

\* DioAlternateCommands: a row for each name of such a command, the first one too.
\* The third name of sessiontoken has none.
DioAlternateCommands ==
  [i \in DOMAIN AlternateOrder |->
     LET c == AlternateOrder[i]
     IN  [cmd |-> c,
          names |-> IF c = "sessiontoken" THEN SubSeq(Names[c], 1, 2) ELSE Names[c]]]

Rows(group, cmds) == [i \in DOMAIN cmds |-> [cmd |-> cmds[i], group |-> group]]

\* DioCLICommandList: every command there might be, by groups.
DioCLICommandList ==
  Rows("user",
       <<"createuser", "changepassword", "resetpassword", "login", "logout",
         "setuserinfo", "getuserinfo", "deleteuserinfo", "deleteuser",
         "getemailaddresses", "addemailaddress", "deleteemailaddress",
         "setprimaryemailaddress">>)
  \o Rows("transfer",
       <<"upload", "resume", "download", "getuploadtoken", "getdownloadurl">>)
  \o Rows("files",
       <<"searchfiles", "searchfilestotal", "searchfilestotallog", "deletefile",
         "undeletefile", "renamefile", "getfileinfo", "displayfile">>)
  \o Rows("metadata",
       <<"createmetadata", "createfilemetadata", "setfilemetadata", "getmetadata",
         "getfilemetadata", "deletefilemetadata", "deletemetadata", "editmetadata">>)
  \o Rows("replicate",
       <<"replicatefile", "unreplicatefile", "getphysicalfiles", "getstoragetypes">>)
  \o Rows("policy",
       <<"createreplicationpolicy", "getreplicationpolicies",
         "editreplicationpolicy", "deletereplicationpolicy", "setreplicationpolicy",
         "setdefreplicationpolicy", "getdefreplicationpolicy">>)
  \o Rows("logs",
       <<"searchpayments", "searchlogins", "searchuploads", "searchdownloads">>)
  \o Rows("products",
       <<"setbillinginfo", "getbillinginfo", "deletebillinginfo", "getallproducts",
         "purchaseproduct", "getmyproducts", "cancelproduct", "getallcontracts",
         "purchasecontract", "getmycontracts", "cancelcontract", "searchinvoices",
         "purchasesupport", "getmysupports", "cancelsupport">>)
  \o Rows("client",
       <<"help", "about", "exit", "menu", "status", "cls", "rem", "echo",
         "setconfig", "sessiontoken", "checkaccount", "subscribe">>)

\* DioCLIGroupList.
DioCLIGroupList ==
  <<"user", "transfer", "files", "metadata", "replicate", "policy", "logs", "products",
    "client">>

-----------------------------------------------------------------------------
(* Their use.                                                              *)

\* The first name of the command that the word is a name of, by the first of its rows;
\* a word without a row stays as it is.
AltCommandStrToCommandStr(word) ==
  LET rows == {i \in DOMAIN DioAlternateCommands :
                 word \in Range(DioAlternateCommands[i].names)}
  IN  IF rows = {} THEN word ELSE CommandStr(DioAlternateCommands[Min(rows)].cmd)

\* The commands of the list by their first names.
CommandStrToCommandID(word) ==
  LET ids == {c \in {row.cmd : row \in Range(DioCLICommandList)} : CommandStr(c) = word}
  IN  IF ids = {} THEN "null" ELSE CHOOSE c \in ids : TRUE

\* ProcessActionStack, ProcessHelpCommand: from a word to the command.
CommandOf == [w \in Words |-> CommandStrToCommandID(AltCommandStrToCommandStr(w))]

\* What the usage of a command shows as its names.
GetAltCommandStrs(c) ==
  UNION {Range(DioAlternateCommands[i].names) :
           i \in {j \in DOMAIN DioAlternateCommands : DioAlternateCommands[j].cmd = c}}

\* One group after the other, the menu shows the rows of that group that come next in
\* the list, if the command has been set up.
ShowCommandsMenu(setup) ==
  LET last == Len(DioCLICommandList)
      Following(menu, group) ==
        LET next == Min({i \in menu.at .. last : DioCLICommandList[i].group # group}
                        \cup {last + 1})
        IN  [at |-> next,
             shown |-> menu.shown \cup {DioCLICommandList[i].cmd : i \in menu.at .. next - 1}]
  IN  setup \cap FoldLeft(Following, [at |-> 1, shown |-> {}], DioCLIGroupList).shown
=============================================================================
