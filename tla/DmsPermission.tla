---------------------------- MODULE DmsPermission ----------------------------
(* May a caller of another device reach an ability of this one?  The checks of       *)
(* distributed_sched_permission.cpp, over the facts they look up: a case says what    *)
(* the bundle manager, the device authentication and the access token service would    *)
(* answer.  A case is that of one caller, one ability and one pair of devices.          *)
EXTENDS FiniteSets

GroupTypes == {"identical", "peer", "other"}
Cases ==
    [addressed : {"here", "elsewhere", "itself"},     \* the two device names of the request
     found : {"page", "service", "extension", "no"},  \* by QueryAbilityInfo, QueryExtensionAbilityInfo
     forResult : BOOLEAN,                             \* the want holds dmsMissionId
     groups : SUBSET GroupTypes,                      \* the groups of the two devices for the caller
     access : BOOLEAN,                                \* CheckAccessToGroup: the target may use them
     visible : BOOLEAN,
     continuation : BOOLEAN,                          \* FLAG_ABILITY_CONTINUATION of the want
     sameApp : BOOLEAN,
     needsPermission : BOOLEAN,                       \* targetAbility.permissions
     allocated : BOOLEAN,                             \* AllocLocalTokenID finds the caller's token
     granted : BOOLEAN]                               \* VerifyAccessToken of that token

(* GetAccountInfo: the groups the two devices share, and whether one is of one account. *)
GetRelatedGroups(groups) ==
    [accountType |-> IF "identical" \in groups THEN "same" ELSE "different",
     groupIdList |-> groups \ {"other"}]
GetAccountInfo(groups) == GetRelatedGroups(groups).groupIdList # {}

CheckDeviceIdFromRemote(c) == c.addressed = "here"

GetTargetAbility(c, needQueryExtension) ==
    \/ c.found = "page"
    \/ c.found = "service" /\ ~c.forResult
    \/ c.found = "extension" /\ needQueryExtension

(* The account is the one the request brings: a field that is missing reads as 0, and   *)
(* SAME_ACCOUNT_TYPE is 0.                                                              *)
CheckAccountAccessPermission(c, account) ==
    \/ account.accountType \in {"same", "default"}
    \/ account.groupIdList # {} /\ c.access

\* Mutant of CheckComponentAccessPermission: an ability that is not visible may be continued.
CheckComponentAccessPermission_Hidden(c) ==
    (~c.visible => c.continuation) /\ (c.continuation => c.sameApp)
CheckComponentAccessPermission(c) == c.visible /\ (c.continuation => c.sameApp)

(* hasToken: the request brought the caller's access token. *)
CheckCustomPermission(c, hasToken) ==
    c.needsPermission => hasToken /\ c.allocated /\ c.granted

CheckDPermission(c, account, hasToken, needQueryExtension) ==
    /\ GetTargetAbility(c, needQueryExtension)
    /\ CheckAccountAccessPermission(c, account)
    /\ CheckComponentAccessPermission(c)
    /\ CheckCustomPermission(c, hasToken)

CheckGetCallerPermission(c, account, hasToken) ==
    CheckDPermission(c, account, hasToken, FALSE) /\ c.sameApp

(* The callers of this device: a service of the system or the foundation has a low uid, *)
(* and only the foundation carries its name in its token.                               *)
Callers == {"foundation", "system", "application"}
IsFoundationCall(who) == who = "foundation"
CheckCallingUid(who) == who # "application"

(* A token that is checked for DISTRIBUTED_DATASYNC. *)
Tokens == {"native", "granted", "denied"}
IsNativeCall(token) == token = "native"
VerifyPermission(token) == token = "granted"
CheckPermission(token) == IsNativeCall(token) \/ VerifyPermission(token)
=============================================================================
