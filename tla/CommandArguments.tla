-------------------------- MODULE CommandArguments --------------------------
(***************************************************************************)
(* SetupCommands of src/DioCLI/ConsoleControl.cpp: what the command line   *)
(* of each command is.  The words of a line are bound to the unlabeled     *)
(* arguments in the order in which they are registered here, whichever the *)
(* handler was asking for.  Labeled arguments (-name value) and switches   *)
(* are never asked for; of them only -output matters to the console.       *)
(***************************************************************************)

\* Unlabeled arguments, all of them required: a handler asks for a missing one,
\* and in a batch file the parser refuses the line.
Unlabeled(names) ==
  [args |-> names, many |-> FALSE, required |-> TRUE, output |-> FALSE]

\* An unlabeled argument that takes all the words there are.
Many(name) == [Unlabeled(<<name>>) EXCEPT !.many = TRUE]

Optional(names) == [Unlabeled(names) EXCEPT !.required = FALSE]

NoArgs == Unlabeled(<<>>)

WithOutput(line) == [line EXCEPT !.output = TRUE]

-----------------------------------------------------------------------------
(* Session and configuration.                                              *)

ExitArgs == NoArgs

HelpArgs == Optional(<<"command">>)

AboutArgs == NoArgs

LoginArgs == Unlabeled(<<"username", "password">>)

LogoutArgs == NoArgs

GetSessionTokenArgs == NoArgs

SetConfigArgs == NoArgs

-----------------------------------------------------------------------------
(* Users and email addresses.                                              *)

CreateUserArgs == Unlabeled(<<"username", "password", "email">>)

ChangePasswordArgs == Unlabeled(<<"old", "new">>)

ResetPasswordArgs == Unlabeled(<<"username">>)

DeleteUserArgs == NoArgs

SetUserInfoArgs == NoArgs

GetUserInfoArgs == NoArgs

DeleteUserInfoArgs == NoArgs

GetEmailAddressesArgs == NoArgs

AddEmailAddressArgs == Unlabeled(<<"email">>)

DeleteEmailAddressArgs == Unlabeled(<<"email">>)

SetPrimaryEmailAddressArgs == Unlabeled(<<"email">>)

-----------------------------------------------------------------------------
(* Account and billing.                                                    *)

CheckAccountArgs == NoArgs

BillingFields == <<"name", "number", "expires", "cvv", "address1", "city", "state",
                   "zip", "country">>

\* setbilling and subscribe.
BillingArgs == Unlabeled(BillingFields)

GetBillingArgs == NoArgs

DeleteBillingArgs == NoArgs

-----------------------------------------------------------------------------
(* Files.                                                                  *)

UploadArgs == Many("file")

ResumeArgs == WithOutput(Many("file"))

DownloadArgs == Unlabeled(<<"file">>)

GetDownloadURLArgs == Unlabeled(<<"file">>)

GetUploadTokenArgs == Unlabeled(<<"file">>)

RenameFileArgs == Unlabeled(<<"file", "newname">>)

DeleteFileArgs == Unlabeled(<<"file">>)

UndeleteFileArgs == Unlabeled(<<"file">>)

DisplayFileArgs == Unlabeled(<<"file">>)

SearchFilesArgs == WithOutput(NoArgs)

SearchFilesTotalArgs == WithOutput(NoArgs)

SearchFilesTotalLogArgs == WithOutput(NoArgs)

-----------------------------------------------------------------------------
(* Products, contracts and logs.                                           *)

GetAllProductsArgs == WithOutput(NoArgs)

PurchaseProductArgs == Many("product")

GetMyProductsArgs == WithOutput(NoArgs)

CancelProductArgs == Many("product")

GetAllContractsArgs == WithOutput(NoArgs)

PurchaseContractArgs == Many("contract")

GetMyContractsArgs == WithOutput(NoArgs)

CancelContractArgs == Many("contract")

SearchUploadsArgs == WithOutput(NoArgs)

SearchDownloadsArgs == WithOutput(NoArgs)

SearchLoginsArgs == WithOutput(NoArgs)

SearchInvoicesArgs == WithOutput(NoArgs)

-----------------------------------------------------------------------------
(* Metadata.                                                               *)

CreateMetaDataArgs == Unlabeled(<<"name", "value">>)

CreateFileMetaDataArgs == Unlabeled(<<"file", "name", "value">>)

SetFileMetaDataArgs == Unlabeled(<<"file", "metaid">>)

DeleteFileMetaDataArgs == Unlabeled(<<"file", "metaid">>)

DeleteMetaDataArgs == Unlabeled(<<"metaid">>)

GetFileMetaDataArgs == Unlabeled(<<"file">>)

GetMetaDataArgs == NoArgs

EditMetaDataArgs == Unlabeled(<<"metaid", "name", "value">>)

-----------------------------------------------------------------------------
(* Replication and storage.                                                *)

ReplicateArgs == Unlabeled(<<"file", "storagetype">>)

UnReplicateArgs == Unlabeled(<<"file">>)

GetStorageTypesArgs == WithOutput(NoArgs)

GetPhysicalFilesArgs == Unlabeled(<<"file">>)

CreateReplicationPolicyArgs == NoArgs

EditReplicationPolicyArgs == Unlabeled(<<"policy">>)

GetReplicationPoliciesArgs == WithOutput(NoArgs)

DeleteReplicationPolicyArgs == Unlabeled(<<"policy">>)

SetReplicationPolicyArgs == Unlabeled(<<"file", "policy">>)

SetDefaultReplicationPolicyArgs == Unlabeled(<<"policy">>)

GetDefaultReplicationPolicyArgs == WithOutput(NoArgs)

-----------------------------------------------------------------------------
(* The console itself.                                                     *)

ClsArgs == NoArgs

EchoArgs == Optional(<<"onoff">>)

\* Any words may follow; nothing is made of them.
RemArgs == Optional(<<>>)
=============================================================================
