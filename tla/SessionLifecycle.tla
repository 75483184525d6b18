--------------------------- MODULE SessionLifecycle ---------------------------
(***************************************************************************)
(* The credentials behind the session: the copy in memory and the record   *)
(* in SQLite (processor/auth/user_info.go), the flows that write them      *)
(* (login, refresh and restore in token_activate.go, the profile update in *)
(* user_center.go), the two teardowns that delete them (errors.go,         *)
(* auth_service.go), and the periodic refresher.                           *)
(*                                                                         *)
(* A job is one call of one of these, run by a goroutine of its own; it    *)
(* has the name of the operation it begins, if it begins one.  A member of *)
(* Users is an access token: the rest of a UserInfo follows it.  The cloud *)
(* is external: it hands out fresh tokens, a refresh invalidates the token *)
(* it was given, a logout revokes it.                                      *)
(*                                                                         *)
(* SaveUserInfo writes memory and then the record.  In a commit both       *)
(* happen under the authority's mu, before the transition is published.    *)
(* They are one step with it: a reader that sees the new token in between  *)
(* can begin nothing before mu is free, and an operation begun before is   *)
(* refused by OperationCurrent.                                            *)
(*                                                                         *)
(* Left out: processes that do not own the session, the legacy --token     *)
(* activation and refreshes with a token the caller supplies, an empty     *)
(* saved token, the listeners.  The refresh inside RestoreSession is a job *)
(* of its own.                                                             *)
(***************************************************************************)
EXTENDS SessionAuthority

VARIABLES
  memory,     \* currentUserInfo
  disk,       \* the token record
  refresher,  \* tokenRefresher is running
  job,        \* the goroutine of each job
  accepted,   \* external: the tokens the cloud takes
  issued,     \* external: the tokens it has ever handed out
  revoked,    \* history: tokens it withdrew, asked to or not
  lost,       \* history: the answer to a refresh did not arrive
  dropped,    \* history: a refresh was answered, and the answer discarded
  diverged    \* history: ways in which memory or the record went astray

storeVars == <<memory, disk>>
cloudVars == <<accepted, issued, revoked, lost, dropped>>
allVars   == <<vars, storeVars, refresher, job, cloudVars, diverged>>

Kinds  == {"none", "login", "refresh", "restore", "logout", "profile", "reader"}
Places == {"idle", "get", "load", "loaded", "wait", "decide", "send", "answered", "rejected",
           "restored", "save", "notify", "stop", "delete", "forget", "revoke", "run",
           "close", "done"}
Ways   == {"stale_load", "stale_profile", "disk_error", "late_teardown", "late_read"}
JobType == [kind : Kinds, at : Places, holds : BOOLEAN,   \* holds refreshSessionMu
            first : Users \cup {NoUser}, token : Users \cup {NoUser}]

IdleJob == [kind |-> "none", at |-> "idle", holds |-> FALSE, first |-> NoUser, token |-> NoUser]

At(o, place)   == job[o].at = place
Goto(o, place) == job' = [job EXCEPT ![o].at = place]
Finish(o)      == job' = [job EXCEPT ![o] = [IdleJob EXCEPT !.at = "done"]]

Note(way, happened) == {w \in {way} : happened}

TearingDown(o) == job[o].at \in {"stop", "delete", "forget"}

LifecycleInit ==
  /\ Init
  /\ memory = NoUser
  /\ disk \in Users \cup {NoUser}
  /\ refresher = FALSE
  /\ job = [o \in Ops |-> IdleJob]
  /\ issued = {disk} \ {NoUser} /\ accepted \in SUBSET issued
  /\ revoked = issued \ accepted
  /\ lost = FALSE /\ dropped = FALSE /\ diverged = {}

-------------------------------------------------------------------------------
(* Beginning a job. *)

BeginJob(o, kind, place) ==
  /\ At(o, "idle")
  /\ job' = [job EXCEPT ![o].kind = kind, ![o].at = place]
  /\ UNCHANGED <<storeVars, refresher, cloudVars, diverged>>

\* LoginWithPassword, ActivateWithTokens: the cloud issues a token.
BeginLogin(o) == BeginOperation(o) /\ BeginJob(o, "login", "send")

\* RefreshSession, by the refresher, the recovery loop or a 401.
BeginRefresh(o) == BeginOperation(o) /\ BeginJob(o, "refresh", "get")

\* RestoreSession is called once, by the startup, before anything else.
BeginRestore(o) ==
  /\ \A p \in Ops : At(p, "idle")
  /\ BeginOperation(o) /\ BeginJob(o, "restore", "load")

\* LogoutUser, UpdateUserProfile and GetCurrentUserInfoOrLoad begin no operation.
BeginOther(o) ==
  /\ \/ BeginJob(o, "logout", "get")
     \/ BeginJob(o, "profile", "get")
     \/ BeginJob(o, "reader", "get")
  /\ UNCHANGED vars

-------------------------------------------------------------------------------
(* Reading the credentials. *)

\* Where a job goes on with the credentials it has got.
Onward(o) ==
  CASE job[o].kind = "refresh" -> IF job[o].holds THEN "decide" ELSE "wait"
    [] job[o].kind = "restore" -> "restored"
    [] job[o].kind = "logout"  -> "notify"
    [] job[o].kind = "profile" -> "save"

Got(o, token) ==
  job' = [job EXCEPT ![o] = IF job[o].kind = "reader" THEN [IdleJob EXCEPT !.at = "done"]
                            ELSE [@ EXCEPT !.token = token, !.at = Onward(o)]]

\* GetCurrentUserInfo, and for all but the profile update LoadUserInfo if
\* memory is empty.
Get(o) ==
  /\ At(o, "get")
  /\ \/ memory # NoUser /\ Got(o, memory)
     \/ memory = NoUser /\ job[o].kind = "profile" /\ Finish(o)
     \/ memory = NoUser /\ job[o].kind # "profile" /\ Goto(o, "load")
  /\ diverged' = diverged \cup Note("late_read",
                   job[o].kind = "refresh" /\ memory # NoUser /\ \E p \in Ops : TearingDown(p))
  /\ UNCHANGED <<vars, storeVars, refresher, cloudVars>>

\* LoadUserInfo: the record is read ...
ReadRecord(o) ==
  /\ At(o, "load")
  /\ IF disk = NoUser THEN Got(o, NoUser)
     ELSE job' = [job EXCEPT ![o].token = disk, ![o].at = "loaded"]
  /\ UNCHANGED <<vars, storeVars, refresher, cloudVars, diverged>>

\* ... and then replaces what is in memory.
SetMemory(o) ==
  /\ At(o, "loaded")
  /\ memory' = job[o].token
  /\ diverged' = diverged \cup Note("stale_load",
                   disk # job[o].token \/ memory \notin {NoUser, job[o].token})
  /\ Got(o, job[o].token)
  /\ UNCHANGED <<vars, disk, refresher, cloudVars>>

\* SaveUserInfo: memory first, the record if that succeeds.
SaveUserInfo(token) ==
  /\ memory' = token
  /\ disk' \in {token, disk}

-------------------------------------------------------------------------------
(* RefreshSession. *)

WaitForRefreshMutex_NotExclusive(o) ==
  /\ At(o, "wait")
  /\ job' = [job EXCEPT ![o].at = IF job[o].token = NoUser THEN "close" ELSE "get",
                        ![o].holds = TRUE, ![o].first = job[o].token]
  /\ UNCHANGED <<vars, storeVars, refresher, cloudVars, diverged>>

WaitForRefreshMutex(o) ==
  /\ At(o, "wait")
  /\ IF job[o].token = NoUser
       THEN Goto(o, "close")
       ELSE /\ \A p \in Ops : ~ job[p].holds
            /\ job' = [job EXCEPT ![o].at = "get", ![o].holds = TRUE,
                                  ![o].first = job[o].token]
  /\ UNCHANGED <<vars, storeVars, refresher, cloudVars, diverged>>

\* The token rotated while this job was waiting.
Rotated(o) == job[o].token \notin {NoUser, job[o].first}

ToSend(o) == IF job[o].token = NoUser THEN job[o].first ELSE job[o].token

Decide(o) ==
  /\ At(o, "decide")
  /\ job' = [job EXCEPT ![o].at = IF Rotated(o) \/ ~ OperationCurrent(o)
                                    THEN "close" ELSE "send",
                        ![o].token = ToSend(o)]
  /\ UNCHANGED <<vars, storeVars, refresher, cloudVars, diverged>>

-------------------------------------------------------------------------------
(* The cloud, and what a login or refresh makes of its answer. *)

Fresh == Users \ issued

\* A refresh replaces the token it was sent; its answer may be lost.
CloudRenews(o) ==
  /\ At(o, "send")
  /\ job[o].kind = "login" \/ job[o].token \in accepted
  /\ \E t \in Fresh :
       /\ issued' = issued \cup {t}
       /\ accepted' = (accepted \ {job[o].token}) \cup {t}
       /\ \/ lost' = lost /\ job' = [job EXCEPT ![o].at = "answered", ![o].token = t]
          \/ lost' = TRUE /\ Goto(o, "close")
  /\ UNCHANGED <<vars, storeVars, refresher, revoked, dropped, diverged>>

CloudRejects(o) ==
  /\ At(o, "send") /\ job[o].kind = "refresh" /\ job[o].token \notin accepted
  /\ Goto(o, "rejected")
  /\ UNCHANGED <<vars, storeVars, refresher, cloudVars, diverged>>

CloudUnreachable(o) ==
  /\ At(o, "send")
  /\ Goto(o, "close")
  /\ UNCHANGED <<vars, storeVars, refresher, cloudVars, diverged>>

\* The commit of a login, a refresh or a restored session: the credentials are
\* saved by the callback that CommitAuthenticatedSnapshot calls before it
\* publishes.
Commit(o) ==
  /\ CommitOperation(o, "active", job[o].token)
  /\ SaveUserInfo(job[o].token)
  /\ diverged' = diverged \cup Note("disk_error", disk' # job[o].token)
                          \cup Note("late_teardown", \E p \in Ops : TearingDown(p))
  /\ Goto(o, "run")
  /\ UNCHANGED <<refresher, cloudVars>>

CommitAnswer_SavesAnyway(o) ==
  \/ At(o, "answered") /\ Commit(o)
  \/ /\ At(o, "answered") /\ ~ OperationCurrent(o)
     /\ SaveUserInfo(job[o].token)
     /\ Goto(o, "close")
     /\ UNCHANGED <<vars, refresher, cloudVars, diverged>>

CommitAnswer(o) == At(o, "answered") /\ Commit(o)

\* The operation was invalidated (its request cancelled, its commit refused), or
\* a login could not fetch the profile.
DropAnswer(o) ==
  /\ At(o, "answered")
  /\ ~ OperationCurrent(o) \/ job[o].kind = "login"
  /\ Goto(o, "close")
  /\ dropped' = (dropped \/ job[o].kind = "refresh")
  /\ UNCHANGED <<vars, storeVars, refresher, accepted, issued, revoked, lost, diverged>>

\* A 401 of the profile endpoint for the token just renewed, or of the refresh
\* itself, ends the session if the operation is current, and the check and the
\* teardown are two steps.
AnswerRejected(o) ==
  /\ \/ At(o, "rejected")
     \/ /\ At(o, "answered") /\ job[o].kind = "refresh"
        /\ job[o].token \notin accepted /\ OperationCurrent(o)
  /\ Goto(o, IF OperationCurrent(o) THEN "notify" ELSE "close")
  /\ UNCHANGED <<vars, storeVars, refresher, cloudVars, diverged>>

StartTokenRefresh_Unguarded(o) ==
  /\ At(o, "run")
  /\ RunIfGenerationActive(o)
  /\ refresher' = TRUE
  /\ Goto(o, "close")
  /\ UNCHANGED <<storeVars, cloudVars, diverged>>

StartTokenRefresh(o) ==
  /\ At(o, "run")
  /\ RunIfGenerationActive(o)
  /\ refresher' = (refresher \/ GenerationActive(published[o]))
  /\ Goto(o, "close")
  /\ UNCHANGED <<storeVars, cloudVars, diverged>>

CloseJob(o) ==
  /\ At(o, "close")
  /\ CloseOperation(o)
  /\ Finish(o)
  /\ UNCHANGED <<storeVars, refresher, cloudVars, diverged>>

-------------------------------------------------------------------------------
(* RestoreSession, with the record it found, after its refresh. *)

RestoreNothing(o) ==
  /\ At(o, "restored") /\ job[o].token = NoUser
  /\ CommitUnauthenticated(o)
  /\ Finish(o)
  /\ UNCHANGED <<storeVars, refresher, cloudVars, diverged>>

\* The refresh did not get through; the saved token does, for the profile.
RestoreProfile(o) ==
  /\ At(o, "restored") /\ job[o].token \in accepted
  /\ Commit(o)

RestoreLater(o) ==
  /\ At(o, "restored") /\ job[o].token # NoUser
  /\ CommitOperation(o, "soft_expired", job[o].token)
  /\ Finish(o)
  /\ UNCHANGED <<storeVars, refresher, cloudVars, diverged>>

RestoreOver(o) ==
  /\ At(o, "restored") /\ ~ OperationCurrent(o)
  /\ Goto(o, "close")
  /\ UNCHANGED <<vars, storeVars, refresher, cloudVars, diverged>>

-------------------------------------------------------------------------------
(* clearLocalSessionAfterExpiration and teardownLocalSessionAfterLogout. *)

Notify(o) ==
  /\ At(o, "notify")
  /\ IF job[o].kind = "logout" THEN NotifyLoggedOut ELSE NotifyRefreshFailed
  /\ Goto(o, "stop")
  /\ UNCHANGED <<storeVars, refresher, cloudVars, diverged>>

StopTokenRefresh(o) ==
  /\ At(o, "stop")
  /\ refresher' = FALSE
  /\ Goto(o, "delete")
  /\ UNCHANGED <<vars, storeVars, cloudVars, diverged>>

\* DeleteUserInfo: the record first.  If that fails the caller empties memory.
DeleteRecord(o) ==
  /\ At(o, "delete")
  /\ disk' \in {NoUser, disk}
  /\ diverged' = diverged \cup Note("disk_error", disk' # NoUser)
  /\ Goto(o, "forget")
  /\ UNCHANGED <<vars, memory, refresher, cloudVars>>

Forget(o) ==
  /\ At(o, "forget")
  /\ memory' = NoUser
  /\ Goto(o, IF job[o].kind = "logout" THEN "revoke" ELSE "close")
  /\ UNCHANGED <<vars, disk, refresher, cloudVars, diverged>>

\* remoteLogoutDispatch, with the token read first, as well as it goes.
RevokeRemotely(o) ==
  /\ At(o, "revoke")
  /\ \/ accepted' = accepted \ {job[o].token} /\ revoked' = revoked \cup (accepted \ accepted')
     \/ UNCHANGED <<accepted, revoked>>
  /\ Finish(o)
  /\ UNCHANGED <<vars, storeVars, refresher, issued, lost, dropped, diverged>>

-------------------------------------------------------------------------------
\* UpdateUserProfile saves the copy it read, with the new name, and asks nobody.
SaveProfile(o) ==
  /\ At(o, "save")
  /\ SaveUserInfo(job[o].token)
  /\ diverged' = diverged \cup Note("stale_profile", {memory, disk} # {job[o].token})
                          \cup Note("disk_error", disk' # job[o].token)
  /\ Finish(o)
  /\ UNCHANGED <<vars, refresher, cloudVars>>

\* RecoverOrExpireLocalSession: the cloud refused some token, old or new.
AccessRejected ==
  /\ issued \ accepted # {}
  /\ NotifyAccessRejected
  /\ UNCHANGED <<storeVars, refresher, job, cloudVars, diverged>>

\* The cloud withdraws a token: expired, or signed out elsewhere.
CloudRevokes ==
  /\ \E t \in accepted : accepted' = accepted \ {t} /\ revoked' = revoked \cup {t}
  /\ UNCHANGED <<vars, storeVars, refresher, job, issued, lost, dropped, diverged>>

-------------------------------------------------------------------------------
JobStep(o) ==
  \/ BeginLogin(o) \/ BeginRefresh(o) \/ BeginRestore(o) \/ BeginOther(o)
  \/ Get(o) \/ ReadRecord(o) \/ SetMemory(o)
  \/ WaitForRefreshMutex(o) \/ Decide(o)
  \/ CloudRenews(o) \/ CloudRejects(o) \/ CloudUnreachable(o)
  \/ CommitAnswer(o) \/ DropAnswer(o) \/ AnswerRejected(o)
  \/ StartTokenRefresh(o) \/ CloseJob(o)
  \/ RestoreNothing(o) \/ RestoreProfile(o) \/ RestoreLater(o) \/ RestoreOver(o)
  \/ Notify(o) \/ StopTokenRefresh(o) \/ DeleteRecord(o) \/ Forget(o) \/ RevokeRemotely(o)
  \/ SaveProfile(o)

LifecycleNext == (\E o \in Ops : JobStep(o)) \/ AccessRejected \/ CloudRevokes

LifecycleSpec == LifecycleInit /\ [][LifecycleNext]_allVars

-------------------------------------------------------------------------------
(* Properties. *)

LifecycleTypeOK ==
  /\ TypeOK
  /\ {memory, disk} \subseteq Users \cup {NoUser}
  /\ refresher \in BOOLEAN
  /\ job \in [Ops -> JobType]
  /\ \A o, p \in Ops : job[o].holds /\ job[p].holds => o = p
  /\ accepted \subseteq issued /\ revoked \subseteq issued /\ issued \subseteq Users
  /\ lost \in BOOLEAN /\ dropped \in BOOLEAN /\ diverged \subseteq Ways

Ended == snapshot.state \in {"unauthenticated", "hard_invalid"}
Torn  == \A o \in Ops : ~ TearingDown(o)

\* An ended session leaves no credentials behind, once its teardown is over: a
\* login, refresh or restore that was under way "can no longer repersist
\* credentials" (clearLocalSessionAfterExpiration).
EndedIsCleared == Ended /\ Torn /\ diverged = {} => memory = NoUser /\ disk = NoUser

\* The session, memory and the record hold the same token: the published
\* snapshot is the one a restart would restore, the one memory lends to requests.
SessionIsBacked ==
  snapshot.user # NoUser /\ diverged = {} => memory = snapshot.user /\ disk = snapshot.user

\* The refresher runs while a session is active, or is about to be started by the
\* job that activated it, and is stopped when the session has ended.
RefresherFollowsSession ==
  /\ Ended /\ (\A o \in Ops : ~ At(o, "stop")) => ~ refresher
  /\ snapshot.state = "active" /\ "late_teardown" \notin diverged =>
       refresher \/ \E o \in Ops : At(o, "run") /\ published[o] = snapshot.generation

\* "Logout is the linearization point: invalidate remote auth operations before
\* any local teardown that an old completion could otherwise undo"
\* (teardownLocalSessionAfterLogout): a session that has ended becomes active again
\* only by a login.
Revived == Ended /\ snapshot'.state = "active"
ByLogin == \E o \in Ops : job[o].kind = "login" /\ published'[o] = snapshot'.generation

OnlyLoginsRevive == [][Revived => ByLogin]_allVars

\* The same as long as memory and the record were written and read in order.
OnlyLoginsReviveInOrder == [][Revived /\ diverged = {} => ByLogin]_allVars

\* The cloud rejects a refresh because it withdrew the token, or because the
\* answer that replaced it did not arrive or was discarded: no two refreshes use
\* up the same token ("reuse the newest local session to avoid sending an
\* already-invalidated refresh token again", RefreshSession).
Excused(o) == job[o].token \in revoked \/ lost \/ diverged # {}
RejectedForAReason == \A o \in Ops : At(o, "rejected") => Excused(o) \/ dropped

\* The same without the last: the program itself throws no token away.  The
\* code does, when a transition makes a refresh stale whose answer is on its way.
NeverDropsTheToken == \A o \in Ops : At(o, "rejected") => Excused(o)
===============================================================================
