---------------------------- MODULE ServiceTasks ----------------------------
(***************************************************************************)
(* The tasks of src/DioCLI: the classes of DiomedeTask.h, and the calls    *)
(* that DiomedeTask.cpp makes with them.  A task makes one call on a       *)
(* manager of the SDK (SearchFiles may add a second one, for the physical  *)
(* files) and keeps its result.  A row names the call, the arguments a     *)
(* command must have been given for it, whether it sends the session token *)
(* and whether it fills a list that may come back empty.                   *)
(***************************************************************************)

\* What a task is made with and keeps: the session token, a list for the answer.
Anonymous == [token |-> FALSE, list |-> FALSE]
WithToken == [token |-> TRUE, list |-> FALSE]
Listing == [token |-> TRUE, list |-> TRUE]
AnonymousListing == [token |-> FALSE, list |-> TRUE]

\* The call a task makes.
Call(class, call, needs) ==
  [call |-> call, needs |-> needs, token |-> class.token, finds |-> class.list]

-----------------------------------------------------------------------------
(* The classes.                                                            *)

\* Logging in and out, users and passwords.
SessionClasses ==
  [Login |-> Anonymous, Logout |-> WithToken, CreateUser |-> Anonymous,
   DeleteUser |-> WithToken, ChangePassword |-> WithToken, ResetPassword |-> Anonymous]

\* What is known of a user.
UserInfoClasses ==
  [SetUserInfo |-> WithToken, GetUserInfo |-> WithToken, DeleteUserInfo |-> WithToken,
   GetEmailAddresses |-> Listing, AddEmailAddress |-> WithToken,
   DeleteEmailAddress |-> WithToken, SetPrimaryEmailAddress |-> WithToken]

\* Files that are sent, received or shown.
TransferClasses ==
  [CreateFile |-> WithToken, Upload |-> WithToken, Download |-> WithToken,
   DisplayFile |-> WithToken]

\* Tokens and addresses for files, and searches.
FindFileClasses ==
  [GetUploadToken |-> WithToken, GetDownloadURL |-> WithToken, SearchFiles |-> Listing,
   SearchFilesTotal |-> WithToken, SearchFilesTotalLog |-> Listing]

\* Files that are there.
ChangeFileClasses ==
  [RenameFile |-> WithToken, DeleteFile |-> WithToken, UndeleteFile |-> WithToken]

\* Metadata.
MetaDataClasses ==
  [CreateMetaData |-> WithToken, CreateFileMetaData |-> WithToken,
   SetFileMetaData |-> WithToken, DeleteFileMetaData |-> WithToken,
   DeleteMetaData |-> WithToken, GetFileMetaData |-> Listing, GetMetaData |-> Listing,
   EditMetaData |-> WithToken]

\* Where files are kept.
StorageClasses ==
  [ReplicateFile |-> WithToken, UnReplicateFile |-> WithToken,
   GetStorageTypes |-> AnonymousListing, GetPhysicalFiles |-> Listing]

\* Replication policies.
PolicyClasses ==
  [CreateReplicationPolicy |-> WithToken, GetReplicationPolicies |-> Listing,
   EditReplicationPolicy |-> WithToken, DeleteReplicationPolicy |-> WithToken,
   SetReplicationPolicy |-> WithToken, SetDefaultReplicationPolicy |-> WithToken,
   GetDefaultReplicationPolicy |-> WithToken]

\* Logs.
LogClasses ==
  [SearchUploadLog |-> Listing, SearchDownloadLog |-> Listing,
   SearchLoginLog |-> Listing]

\* Products and contracts.
ProductClasses ==
  [GetAllProducts |-> AnonymousListing, PurchaseProduct |-> WithToken,
   GetMyProducts |-> Listing, CancelProduct |-> WithToken,
   GetAllContracts |-> AnonymousListing, PurchaseContract |-> WithToken,
   GetMyContracts |-> Listing, CancelContract |-> WithToken]

\* Purchases.
PurchaseClasses ==
  [SearchPaymentLog |-> Listing, SearchInvoiceLog |-> Listing]

-----------------------------------------------------------------------------
(* The calls.  Users and email addresses.                                  *)

\* Without a user name nothing is sent, and the result stays 0 with an empty token.
LoginTask == Call(SessionClasses.Login, "login", {"username", "password"})

LogoutTask == Call(SessionClasses.Logout, "logout", {})

CreateUserTask ==
  Call(SessionClasses.CreateUser, "createUser", {"username", "password", "email"})

DeleteUserTask == Call(SessionClasses.DeleteUser, "deleteUser", {})

ChangePasswordTask ==
  Call(SessionClasses.ChangePassword, "changePassword", {"old", "new"})

ResetPasswordTask == Call(SessionClasses.ResetPassword, "resetPassword", {"username"})

SetUserInfoTask == Call(UserInfoClasses.SetUserInfo, "setUserInfo", {})

GetUserInfoTask == Call(UserInfoClasses.GetUserInfo, "getUserInfo", {})

DeleteUserInfoTask == Call(UserInfoClasses.DeleteUserInfo, "deleteUserInfo", {})

GetEmailAddressesTask == Call(UserInfoClasses.GetEmailAddresses, "getEmailAddresses", {})

AddEmailTask == Call(UserInfoClasses.AddEmailAddress, "addEmail", {"email"})

DeleteEmailTask == Call(UserInfoClasses.DeleteEmailAddress, "deleteEmail", {"email"})

SetPrimaryEmailTask ==
  Call(UserInfoClasses.SetPrimaryEmailAddress, "setPrimaryEmail", {"email"})

-----------------------------------------------------------------------------
(* Files.                                                                  *)

CreateFileTask == Call(TransferClasses.CreateFile, "createFile", {"file"})

UploadTask == Call(TransferClasses.Upload, "upload", {"file"})

DownloadTask == Call(TransferClasses.Download, "download", {"file"})

DisplayFileTask == Call(TransferClasses.DisplayFile, "download", {"file"})

GetUploadTokenTask == Call(FindFileClasses.GetUploadToken, "getUploadToken", {"file"})

GetDownloadURLTask == Call(FindFileClasses.GetDownloadURL, "getDownloadURL", {"file"})

SearchFilesTask == Call(FindFileClasses.SearchFiles, "searchFiles", {})

SearchFilesTotalTask == Call(FindFileClasses.SearchFilesTotal, "searchFilesTotal", {})

SearchFilesTotalLogTask ==
  Call(FindFileClasses.SearchFilesTotalLog, "searchFilesTotalLog", {})

RenameFileTask == Call(ChangeFileClasses.RenameFile, "renameFile", {"file", "newname"})

DeleteFileTask == Call(ChangeFileClasses.DeleteFile, "deleteFile", {"file"})

UndeleteFileTask == Call(ChangeFileClasses.UndeleteFile, "undeleteFile", {"file"})

-----------------------------------------------------------------------------
(* Metadata.                                                               *)

CreateMetaDataTask ==
  Call(MetaDataClasses.CreateMetaData, "createMetaData", {"name", "value"})

CreateFileMetaDataTask ==
  Call(MetaDataClasses.CreateFileMetaData, "createFileMetaData", {"file", "name", "value"})

SetFileMetaDataTask ==
  Call(MetaDataClasses.SetFileMetaData, "setFileMetaData", {"file", "metaid"})

DeleteFileMetaDataTask ==
  Call(MetaDataClasses.DeleteFileMetaData, "deleteFileMetaData", {"file", "metaid"})

DeleteMetaDataTask == Call(MetaDataClasses.DeleteMetaData, "deleteMetaData", {"metaid"})

GetFileMetaDataTask == Call(MetaDataClasses.GetFileMetaData, "getFileMetaData", {"file"})

GetMetaDataTask == Call(MetaDataClasses.GetMetaData, "getMetaData", {})

EditMetaDataTask ==
  Call(MetaDataClasses.EditMetaData, "editMetaData", {"metaid", "name", "value"})

-----------------------------------------------------------------------------
(* Replication and storage.                                                *)

ReplicateTask == Call(StorageClasses.ReplicateFile, "replicate", {"file", "storagetype"})

UnReplicateTask == Call(StorageClasses.UnReplicateFile, "unReplicate", {"file"})

GetStorageTypesTask == Call(StorageClasses.GetStorageTypes, "getStorageTypes", {})

GetPhysicalFilesTask ==
  Call(StorageClasses.GetPhysicalFiles, "getPhysicalFiles", {"file"})

CreateReplicationPolicyTask ==
  Call(PolicyClasses.CreateReplicationPolicy, "createReplicationPolicy", {})

GetReplicationPoliciesTask ==
  Call(PolicyClasses.GetReplicationPolicies, "getReplicationPolicies", {})

EditReplicationPolicyTask ==
  Call(PolicyClasses.EditReplicationPolicy, "editReplicationPolicy", {"policy"})

DeleteReplicationPolicyTask ==
  Call(PolicyClasses.DeleteReplicationPolicy, "deleteReplicationPolicy", {"policy"})

SetReplicationPolicyTask ==
  Call(PolicyClasses.SetReplicationPolicy, "setReplicationPolicy", {"file", "policy"})

SetDefaultReplicationPolicyTask ==
  Call(PolicyClasses.SetDefaultReplicationPolicy, "setDefaultReplicationPolicy", {"policy"})

GetDefaultReplicationPolicyTask ==
  Call(PolicyClasses.GetDefaultReplicationPolicy, "getDefaultReplicationPolicy", {})

-----------------------------------------------------------------------------
(* Logs.                                                                   *)

SearchUploadLogTask == Call(LogClasses.SearchUploadLog, "searchUploadLog", {})

SearchDownloadLogTask == Call(LogClasses.SearchDownloadLog, "searchDownloadLog", {})

SearchLoginLogTask == Call(LogClasses.SearchLoginLog, "searchLoginLog", {})

-----------------------------------------------------------------------------
(* Products and contracts.                                                 *)

GetAllProductsTask == Call(ProductClasses.GetAllProducts, "getProducts", {})

PurchaseProductTask ==
  Call(ProductClasses.PurchaseProduct, "purchaseProduct", {"product"})

GetMyProductsTask == Call(ProductClasses.GetMyProducts, "getUserProducts", {})

CancelProductTask == Call(ProductClasses.CancelProduct, "cancelProduct", {"product"})

GetAllContractsTask == Call(ProductClasses.GetAllContracts, "getContracts", {})

PurchaseContractTask ==
  Call(ProductClasses.PurchaseContract, "purchaseContract", {"contract"})

GetMyContractsTask == Call(ProductClasses.GetMyContracts, "getUserContracts", {})

CancelContractTask == Call(ProductClasses.CancelContract, "cancelContract", {"contract"})

-----------------------------------------------------------------------------
(* Purchases.                                                              *)

SearchPaymentLogTask == Call(PurchaseClasses.SearchPaymentLog, "searchPayments", {})

SearchInvoiceLogTask == Call(PurchaseClasses.SearchInvoiceLog, "searchInvoices", {})

-----------------------------------------------------------------------------
\* What a call can come back with: done, nothing found, or an error.  A call
\* that sends an empty token gets a session error from the service.
Outcomes(task, loggedIn) ==
  {"failed"} \cup (IF task.token /\ ~loggedIn THEN {} ELSE {"done"})
             \cup (IF task.finds /\ (task.token => loggedIn) THEN {"nothing"} ELSE {})
=============================================================================
