------------------------------ MODULE Commands ------------------------------
(***************************************************************************)
(* The command handlers of src/DioCLI/ConsoleControl.cpp, each as the      *)
(* steps it takes.  The console calls a handler from its first step with   *)
(* the words of the line, and again from its first step after every        *)
(* answer.  A step that asks leaves the command incomplete, a step that    *)
(* ends finishes it.  Console says what each kind of step does.            *)
(***************************************************************************)
EXTENDS Sequences, Functions, ServiceTasks, CommandArguments

-----------------------------------------------------------------------------
(* Kinds of steps.                                                         *)

Op(name) == [op |-> name, maybe |-> FALSE]

\* Ends the command unless the user is connected.
Gate == Op("gate")

\* Asks for the first of the arguments that is empty: twice, and then it shows the
\* help and ends the command.
Ask(args) ==
  [op |-> "ask", maybe |-> FALSE, args |-> args, masked |-> {}, names |-> "always",
   limit |-> 2]

\* Passwords are not echoed; three handlers have a way of asking of their own.
AskBy(op, args, masked) == [Ask(args) EXCEPT !.op = op, !.masked = masked]

\* Some handlers set the text of the prompt only the first time they ask.
AskOnce(arg) == [Ask(<<arg>>) EXCEPT !.names = "first"]

\* These two end the command, without help, when they would ask again.
AskOrEnd(arg) == [AskOnce(arg) EXCEPT !.limit = 1]

\* An input that is not valid, or an answer with nothing to show, ends the command.
MayEnd == [op |-> "may", maybe |-> TRUE, restore |-> FALSE]
MayEndRestored == [MayEnd EXCEPT !.restore = TRUE]

\* Runs a task.  An error, or nothing found, ends the command.
Do(task) ==
  [op |-> "do", maybe |-> FALSE, task |-> task, error |-> "end", nothing |-> "end",
   repeats |-> TRUE]

\* ... in a loop of its own, which repeats nothing and does not log in.
DoOnce(task) == [Do(task) EXCEPT !.repeats = FALSE]

\* ... but what was redirected is restored first.
DoRestored(task) == [Do(task) EXCEPT !.error = "restore", !.nothing = "restore"]

\* ... but to find nothing is no error.
Find(task) == [Do(task) EXCEPT !.nothing = "go"]

\* ... but an error is only reported.
Try(task) == [Do(task) EXCEPT !.error = "go", !.nothing = "go"]

\* Runs the download, which has a retry of its own.
DoDownload == [Do(DownloadTask) EXCEPT !.op = "download"]

Maybe(step) == [step EXCEPT !.maybe = TRUE]

\* What the task needs does not come from the line.
Given(task) == [task EXCEPT !.needs = {}]

\* A file that is named by its ID needs no search; of a name there must be exactly one
\* file, or the command ends.
GetFileID == Maybe(Do(SearchFilesTask))

\* The name and the hash are wanted too, so that an ID is searched for as well.
GetFileData == Do(SearchFilesTask)

\* SimpleRedirect, if the line has an -output.
Redirect == Op("redirect")
Restore == Op("restore")

\* Prints the results.
Show == Op("show")

\* The list of storage types: made and filled when first needed; made new; filled
\* by the command that asks for it, which ends if it stays empty; used as it is, and
\* filled if it is empty.
NeedTypes == Op("needtypes")
NewTypes == Op("newtypes")
FillTypes == Op("filltypes")
UseTypes == Op("usetypes")

-----------------------------------------------------------------------------
(* Session and configuration.                                              *)

ProcessExit == <<Op("exit")>>

ProcessHelpCommand == <<Show>>

ProcessAboutCommand == <<Show>>

\* If it is to check the account and that fails it still connects, but reports failure.
LoginUser ==
  <<Do(LoginTask), Op("token"), Op("account"), Op("connectlast"), Op("connect")>>

ProcessLoginCommand ==
  <<AskBy("asklogin", <<"username", "password">>, {"password"})>> \o LoginUser
  \o <<Op("keeplogin")>>

\* From the system command line only the profile is changed.
ProcessLogoutCommand ==
  <<Op("forgetlogin"), Gate, Do(LogoutTask), Op("disconnect")>>

ProcessGetSessionTokenCommand == <<Gate, Show>>

ProcessConfigCommand == <<Op("configure")>>

-----------------------------------------------------------------------------
(* Users and email addresses.                                              *)

\* GetUserInfo asks; when it gives up asking the command ends, unless there is nothing left
\* that it may ask for: it goes on without the email address.
ProcessCreateUserCommand ==
  <<AskBy("askuser", <<"username", "password", "email">>, {"password"}),
    Do(CreateUserTask), Op("assumelogin")>>

ProcessChangePasswordCommand ==
  <<Gate, AskBy("ask", <<"old", "new">>, {"old", "new"}), Do(ChangePasswordTask),
    Op("keepauto")>>

ProcessResetPasswordCommand == <<Ask(<<"username">>), DoOnce(ResetPasswordTask)>>

ProcessDeleteUserCommand == <<Gate, Do(DeleteUserTask), Op("disconnect")>>

ProcessGetUserInfoCommand == <<Gate, Do(GetUserInfoTask), Show>>

ProcessSetUserInfoCommand == <<Gate, MayEnd, Do(SetUserInfoTask)>>

ProcessDeleteUserInfoCommand == <<Gate, Do(DeleteUserInfoTask)>>

ProcessGetEmailAddressesCommand == <<Gate, Do(GetEmailAddressesTask), Show>>

ProcessAddEmailAddressCommand == <<Gate, AskOnce("email"), Do(AddEmailTask)>>

ProcessDeleteEmailAddressCommand == <<Gate, AskOnce("email"), Do(DeleteEmailTask)>>

ProcessSetPrimaryEmailAddressCommand ==
  <<Gate, AskOnce("email"), Do(SetPrimaryEmailTask)>>

-----------------------------------------------------------------------------
(* Account and billing.                                                    *)

CheckAccount == <<Do(GetUserInfoTask), Show>>

ProcessCheckAccountCommand == <<Gate>> \o CheckAccount

\* The data is asked for and validated, then stored.  When it gives up asking it
\* shows the help and returns as if the data had been stored.
HandleBillingDataInput ==
  <<AskBy("billing", BillingFields, {}),
    Do([SetUserInfoTask EXCEPT !.needs = Range(BillingFields)])>>

\* Not without SSL; when the data is stored, product 1 is bought with it.
ProcessSubscribeUserCommand ==
  <<Gate, MayEnd>> \o HandleBillingDataInput \o
    <<Try([PurchaseProductTask EXCEPT !.needs = Range(BillingFields)])>>

ProcessSetBillingDataCommand == <<Gate>> \o HandleBillingDataInput

ProcessGetBillingDataCommand == <<Gate, Do(GetUserInfoTask), Show>>

ProcessDeleteBillingDataCommand == <<Gate, Do(DeleteUserInfoTask)>>

-----------------------------------------------------------------------------
(* Files.                                                                  *)

\* The files are then uploaded as in UploadFlow.
ProcessUploadCommand ==
  <<Gate, AskOnce("file"), MayEnd, Maybe(Try(CreateFileTask)),
    Maybe(Try(UploadTask))>>

\* The list is shown and that is all, or the records are cleared, which ends it
\* without restoring, or uploads go on as in UploadFlow.
ProcessResumeCommand ==
  <<Gate, Redirect, Show, MayEndRestored, MayEnd, Restore,
    Maybe(Try(Given(CreateFileTask))), Maybe(Try(Given(UploadTask)))>>

ProcessGetUploadTokenCommand ==
  <<Gate, AskOnce("file"), MayEnd, Do(GetUploadTokenTask), Show>>

ProcessSearchFilesCommand ==
  <<Gate, Do(SearchFilesTask), Redirect, Maybe(NeedTypes), Show, Restore>>

ProcessSearchFilesTotal ==
  <<Gate, Do(SearchFilesTotalTask), Redirect, Maybe(NeedTypes), Show, Restore>>

ProcessSearchFilesTotalLog ==
  <<Gate, Find(SearchFilesTotalLogTask), Redirect, MayEndRestored,
    Maybe(NeedTypes), Show, Restore>>

ProcessDownloadCommand ==
  <<Gate, AskOrEnd("file"), GetFileID, MayEnd, DoDownload>>

ProcessDisplayFileCommand ==
  <<Gate, AskOrEnd("file"), GetFileData, MayEnd, Do(DisplayFileTask)>>

ProcessGetDownloadURLUsingLib ==
  <<Gate, AskOnce("file"), GetFileID, Do(GetDownloadURLTask), Show>>

ProcessRenameFileCommand ==
  <<Gate, Ask(<<"file", "newname">>), GetFileID, Do(RenameFileTask)>>

ProcessDeleteFileCommand == <<Gate, AskOnce("file"), GetFileID, Do(DeleteFileTask)>>

ProcessUndeleteFileCommand ==
  <<Gate, AskOnce("file"), GetFileID, Do(UndeleteFileTask)>>

-----------------------------------------------------------------------------
(* Metadata.                                                               *)

ProcessCreateMetaDataCommand ==
  <<Gate, Ask(<<"name", "value">>), Do(CreateMetaDataTask), Show>>

ProcessCreateFileMetaDataCommand ==
  <<Gate, Ask(<<"file", "name", "value">>), GetFileID, Do(CreateFileMetaDataTask)>>

ProcessSetFileMetaDataCommand ==
  <<Gate, Ask(<<"file", "metaid">>), GetFileID, Do(SetFileMetaDataTask)>>

ProcessDeleteFileMetaDataCommand ==
  <<Gate, Ask(<<"file", "metaid">>), GetFileID, Do(DeleteFileMetaDataTask)>>

ProcessDeleteMetaDataCommand == <<Gate, Ask(<<"metaid">>), Do(DeleteMetaDataTask)>>

ProcessGetFileMetaDataCommand ==
  <<Gate, Ask(<<"file">>), GetFileID, Do(GetFileMetaDataTask), Show>>

ProcessGetMetaDataCommand == <<Gate, Do(GetMetaDataTask), Show>>

ProcessEditMetaDataCommand ==
  <<Gate, Ask(<<"metaid", "name", "value">>), Do(EditMetaDataTask)>>

-----------------------------------------------------------------------------
(* Replication and storage.                                                *)

\* An expiration date that cannot be read ends it.
ProcessReplicateFileCommand ==
  <<Gate, Ask(<<"file", "storagetype">>), GetFileID, MayEnd, Do(ReplicateTask)>>

ProcessUnReplicateFileCommand ==
  <<Gate, Ask(<<"file">>), GetFileID, Do(UnReplicateTask)>>

ProcessGetStorageTypesCommand ==
  <<Redirect, NewTypes, DoRestored(GetStorageTypesTask), FillTypes, Show, Restore>>

\* With a physical ID the one entry is shown at once, else the list.
ProcessGetPhysicalFilesCommand ==
  <<Gate, Ask(<<"file">>), GetFileID, Do(GetPhysicalFilesTask), Maybe(NeedTypes),
    UseTypes, Show>>

ProcessCreateReplicationPolicyCommand ==
  <<Gate, Do(CreateReplicationPolicyTask), Show>>

ProcessGetReplicationPoliciesCommand ==
  <<Gate, Do(GetReplicationPoliciesTask), Redirect, MayEndRestored, Show, Restore>>

ProcessEditReplicationPolicyCommand ==
  <<Gate, Ask(<<"policy">>), Do(EditReplicationPolicyTask)>>

ProcessDeleteReplicationPolicyCommand ==
  <<Gate, Ask(<<"policy">>), Do(DeleteReplicationPolicyTask)>>

ProcessSetReplicationPolicyCommand ==
  <<Gate, Ask(<<"file", "policy">>), GetFileID, Do(SetReplicationPolicyTask)>>

ProcessSetDefaultReplicationPolicyCommand ==
  <<Gate, Ask(<<"policy">>), Do(SetDefaultReplicationPolicyTask)>>

\* After an error it shows the empty policy all the same.
ProcessGetDefaultReplicationPolicyCommand ==
  <<Gate, Try(GetDefaultReplicationPolicyTask), Show>>

-----------------------------------------------------------------------------
(* Products, contracts and logs.                                           *)

ProcessGetAllProductsCommand ==
  <<Redirect, DoRestored(GetAllProductsTask), DoRestored(GetAllContractsTask),
    MayEndRestored, NeedTypes, Show, Restore>>

\* Each product in turn, whatever becomes of the one before.
PurchaseProduct == <<Try(PurchaseProductTask)>>

ProcessPurchaseProductCommand == <<Gate, AskOnce("product")>> \o PurchaseProduct

ProcessGetMyProductsCommand ==
  <<Gate, Redirect, Find(GetMyProductsTask), Find(GetMyContractsTask), NeedTypes,
    Show, Restore>>

ProcessCancelProductCommand == <<Gate, AskOnce("product"), Try(CancelProductTask)>>

ProcessGetAllContractsCommand ==
  <<Redirect, Do(GetAllContractsTask), NeedTypes, MayEndRestored, Show, Restore>>

ProcessPurchaseContractCommand ==
  <<Gate, AskOnce("contract"), Try(PurchaseContractTask)>>

ProcessGetMyContractsCommand ==
  <<Gate, Redirect, Do(GetMyContractsTask), NeedTypes, Show, Restore>>

ProcessCancelContractCommand ==
  <<Gate, AskOnce("contract"), Try(CancelContractTask)>>

ProcessSearchUploadLogCommand ==
  <<Gate, Find(SearchUploadLogTask), Redirect, MayEndRestored, Show, Restore>>

ProcessSearchDownloadLogCommand ==
  <<Gate, Find(SearchDownloadLogTask), Redirect, MayEndRestored, Show, Restore>>

ProcessSearchLoginLogCommand ==
  <<Gate, Find(SearchLoginLogTask), Redirect, MayEndRestored, Show, Restore>>

ProcessSearchInvoiceLogCommand ==
  <<Gate, Find(SearchInvoiceLogTask), Redirect, MayEndRestored, Show, Restore>>

-----------------------------------------------------------------------------
(* The console itself: cls and rem, echo.                                  *)

ProcessSystemCommand == <<>>

ProcessEchoSystemCommand == <<Op("echo")>>

-----------------------------------------------------------------------------
\* The arguments of every command.
CommandArgs ==
  [exit |-> ExitArgs,
   help |-> HelpArgs,
   about |-> AboutArgs,
   login |-> LoginArgs,
   logout |-> LogoutArgs,
   sessiontoken |-> GetSessionTokenArgs,
   setconfig |-> SetConfigArgs,
   createuser |-> CreateUserArgs,
   changepassword |-> ChangePasswordArgs,
   resetpassword |-> ResetPasswordArgs,
   deleteuser |-> DeleteUserArgs,
   setuserinfo |-> SetUserInfoArgs,
   getuserinfo |-> GetUserInfoArgs,
   deleteuserinfo |-> DeleteUserInfoArgs,
   getemailaddresses |-> GetEmailAddressesArgs,
   addemailaddress |-> AddEmailAddressArgs,
   deleteemailaddress |-> DeleteEmailAddressArgs,
   setprimaryemailaddress |-> SetPrimaryEmailAddressArgs,
   checkaccount |-> CheckAccountArgs,
   subscribe |-> BillingArgs,
   setbillinginfo |-> BillingArgs,
   getbillinginfo |-> GetBillingArgs,
   deletebillinginfo |-> DeleteBillingArgs,
   upload |-> UploadArgs,
   resume |-> ResumeArgs,
   getuploadtoken |-> GetUploadTokenArgs,
   searchfiles |-> SearchFilesArgs,
   searchfilestotal |-> SearchFilesTotalArgs,
   searchfilestotallog |-> SearchFilesTotalLogArgs,
   download |-> DownloadArgs,
   getdownloadurl |-> GetDownloadURLArgs,
   renamefile |-> RenameFileArgs,
   deletefile |-> DeleteFileArgs,
   undeletefile |-> UndeleteFileArgs,
   displayfile |-> DisplayFileArgs,
   createmetadata |-> CreateMetaDataArgs,
   createfilemetadata |-> CreateFileMetaDataArgs,
   setfilemetadata |-> SetFileMetaDataArgs,
   deletefilemetadata |-> DeleteFileMetaDataArgs,
   deletemetadata |-> DeleteMetaDataArgs,
   getfilemetadata |-> GetFileMetaDataArgs,
   getmetadata |-> GetMetaDataArgs,
   editmetadata |-> EditMetaDataArgs,
   replicatefile |-> ReplicateArgs,
   unreplicatefile |-> UnReplicateArgs,
   getstoragetypes |-> GetStorageTypesArgs,
   getphysicalfiles |-> GetPhysicalFilesArgs,
   createreplicationpolicy |-> CreateReplicationPolicyArgs,
   getreplicationpolicies |-> GetReplicationPoliciesArgs,
   editreplicationpolicy |-> EditReplicationPolicyArgs,
   deletereplicationpolicy |-> DeleteReplicationPolicyArgs,
   setreplicationpolicy |-> SetReplicationPolicyArgs,
   setdefreplicationpolicy |-> SetDefaultReplicationPolicyArgs,
   getdefreplicationpolicy |-> GetDefaultReplicationPolicyArgs,
   getallproducts |-> GetAllProductsArgs,
   purchaseproduct |-> PurchaseProductArgs,
   getmyproducts |-> GetMyProductsArgs,
   cancelproduct |-> CancelProductArgs,
   getallcontracts |-> GetAllContractsArgs,
   purchasecontract |-> PurchaseContractArgs,
   getmycontracts |-> GetMyContractsArgs,
   cancelcontract |-> CancelContractArgs,
   searchuploads |-> SearchUploadsArgs,
   searchdownloads |-> SearchDownloadsArgs,
   searchlogins |-> SearchLoginsArgs,
   searchinvoices |-> SearchInvoicesArgs,
   cls |-> ClsArgs,
   echo |-> EchoArgs,
   rem |-> RemArgs]

\* ProcessCommand: the handler of every command.
CommandSteps ==
  [exit |-> ProcessExit,
   help |-> ProcessHelpCommand,
   about |-> ProcessAboutCommand,
   login |-> ProcessLoginCommand,
   logout |-> ProcessLogoutCommand,
   sessiontoken |-> ProcessGetSessionTokenCommand,
   setconfig |-> ProcessConfigCommand,
   createuser |-> ProcessCreateUserCommand,
   changepassword |-> ProcessChangePasswordCommand,
   resetpassword |-> ProcessResetPasswordCommand,
   deleteuser |-> ProcessDeleteUserCommand,
   setuserinfo |-> ProcessSetUserInfoCommand,
   getuserinfo |-> ProcessGetUserInfoCommand,
   deleteuserinfo |-> ProcessDeleteUserInfoCommand,
   getemailaddresses |-> ProcessGetEmailAddressesCommand,
   addemailaddress |-> ProcessAddEmailAddressCommand,
   deleteemailaddress |-> ProcessDeleteEmailAddressCommand,
   setprimaryemailaddress |-> ProcessSetPrimaryEmailAddressCommand,
   checkaccount |-> ProcessCheckAccountCommand,
   subscribe |-> ProcessSubscribeUserCommand,
   setbillinginfo |-> ProcessSetBillingDataCommand,
   getbillinginfo |-> ProcessGetBillingDataCommand,
   deletebillinginfo |-> ProcessDeleteBillingDataCommand,
   upload |-> ProcessUploadCommand,
   resume |-> ProcessResumeCommand,
   getuploadtoken |-> ProcessGetUploadTokenCommand,
   searchfiles |-> ProcessSearchFilesCommand,
   searchfilestotal |-> ProcessSearchFilesTotal,
   searchfilestotallog |-> ProcessSearchFilesTotalLog,
   download |-> ProcessDownloadCommand,
   getdownloadurl |-> ProcessGetDownloadURLUsingLib,
   renamefile |-> ProcessRenameFileCommand,
   deletefile |-> ProcessDeleteFileCommand,
   undeletefile |-> ProcessUndeleteFileCommand,
   displayfile |-> ProcessDisplayFileCommand,
   createmetadata |-> ProcessCreateMetaDataCommand,
   createfilemetadata |-> ProcessCreateFileMetaDataCommand,
   setfilemetadata |-> ProcessSetFileMetaDataCommand,
   deletefilemetadata |-> ProcessDeleteFileMetaDataCommand,
   deletemetadata |-> ProcessDeleteMetaDataCommand,
   getfilemetadata |-> ProcessGetFileMetaDataCommand,
   getmetadata |-> ProcessGetMetaDataCommand,
   editmetadata |-> ProcessEditMetaDataCommand,
   replicatefile |-> ProcessReplicateFileCommand,
   unreplicatefile |-> ProcessUnReplicateFileCommand,
   getstoragetypes |-> ProcessGetStorageTypesCommand,
   getphysicalfiles |-> ProcessGetPhysicalFilesCommand,
   createreplicationpolicy |-> ProcessCreateReplicationPolicyCommand,
   getreplicationpolicies |-> ProcessGetReplicationPoliciesCommand,
   editreplicationpolicy |-> ProcessEditReplicationPolicyCommand,
   deletereplicationpolicy |-> ProcessDeleteReplicationPolicyCommand,
   setreplicationpolicy |-> ProcessSetReplicationPolicyCommand,
   setdefreplicationpolicy |-> ProcessSetDefaultReplicationPolicyCommand,
   getdefreplicationpolicy |-> ProcessGetDefaultReplicationPolicyCommand,
   getallproducts |-> ProcessGetAllProductsCommand,
   purchaseproduct |-> ProcessPurchaseProductCommand,
   getmyproducts |-> ProcessGetMyProductsCommand,
   cancelproduct |-> ProcessCancelProductCommand,
   getallcontracts |-> ProcessGetAllContractsCommand,
   purchasecontract |-> ProcessPurchaseContractCommand,
   getmycontracts |-> ProcessGetMyContractsCommand,
   cancelcontract |-> ProcessCancelContractCommand,
   searchuploads |-> ProcessSearchUploadLogCommand,
   searchdownloads |-> ProcessSearchDownloadLogCommand,
   searchlogins |-> ProcessSearchLoginLogCommand,
   searchinvoices |-> ProcessSearchInvoiceLogCommand,
   cls |-> ProcessSystemCommand,
   echo |-> ProcessEchoSystemCommand,
   rem |-> ProcessSystemCommand]
=============================================================================
