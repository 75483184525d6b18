-------------------------- MODULE SoftExpiryRecovery --------------------------
(***************************************************************************)
(* The single-flight loop that renews a session whose access token the     *)
(* cloud rejected (processor/auth/soft_expiry.go), those that start it     *)
(* (RecoverOrExpireLocalSession in errors.go and the SoftExpired listener  *)
(* in app/http/services/auth_runtime_hooks.go), and the transitions that   *)
(* happen around it.                                                       *)
(*                                                                         *)
(* A RefreshSession is its operation handle and an answer of the cloud.    *)
(* OperationCurrent(o) is captured[o] = snapshot.generation in every state *)
(* of SessionAuthority (RegisteredIsCurrent), so the handle is kept as the *)
(* generation it captured and the registry is left out (Ops = {}).  The    *)
(* refreshes of other callers are the transitions of LoginElsewhere.       *)
(***************************************************************************)
EXTENDS SessionAuthority

ASSUME RecoveryAssumption == NumListeners = 1

VARIABLES
  running,         \* softExpiryRunning
  loop,            \* where runSoftExpiryRecovery is
  attempt,         \* generation its RefreshSession captured, then committed
  hasCredentials,  \* GetCurrentUserInfoOrLoad() # nil
  rejecter,        \* a call of RecoverOrExpireLocalSession
  wiping,          \* another teardown has published and not deleted them yet
  swallowed        \* history: a start was a no-op while the loop was ending

loopVars == <<running, loop, attempt>>
recoveryVars == <<loopVars, hasCredentials, rejecter, wiping, swallowed>>
allRecoveryVars == <<vars, recoveryVars>>

LoopPlaces == {"off", "waiting", "calling", "refreshing", "committed", "wiping",
               "failed", "leaving"}

\* The flag that makes the loop single-flight is set exactly while its
\* goroutine exists, and only a refresh of the loop holds an operation.
RecoveryTypeOK ==
  /\ TypeOK
  /\ running \in BOOLEAN
  /\ loop \in LoopPlaces
  /\ running <=> loop # "off"
  /\ attempt \in Nat
  /\ attempt # 0 <=> loop \in {"refreshing", "committed"}
  /\ hasCredentials \in BOOLEAN
  /\ rejecter \in {"idle", "notifying"}
  /\ wiping \in BOOLEAN
  /\ swallowed \in BOOLEAN

\* A process that starts with a saved session, before RestoreSession is done.
RecoveryInit ==
  /\ Init
  /\ running = FALSE
  /\ loop = "off"
  /\ attempt = 0
  /\ hasCredentials = TRUE
  /\ rejecter = "idle"
  /\ wiping = FALSE
  /\ swallowed = FALSE

-------------------------------------------------------------------------------
StartSoftExpiryRecovery ==
  IF running
    THEN /\ swallowed' = (swallowed \/ loop \in {"committed", "leaving"})
         /\ UNCHANGED loopVars
    ELSE /\ running' = TRUE
         /\ loop' = "waiting"
         /\ UNCHANGED <<attempt, swallowed>>

\* runSoftExpiryRecovery after its backoff: the state is read ...
CheckState ==
  /\ loop = "waiting"
  /\ loop' = IF snapshot.state = "soft_expired" THEN "calling" ELSE "leaving"
  /\ UNCHANGED <<vars, running, attempt, hasCredentials, rejecter, wiping, swallowed>>

\* ... and RefreshSession called: it begins its operation, and fails at once
\* if there is no token to send.
CallRefresh ==
  /\ loop = "calling"
  /\ IF hasCredentials
       THEN loop' = "refreshing" /\ attempt' = snapshot.generation
       ELSE loop' = "failed" /\ UNCHANGED attempt
  /\ UNCHANGED <<vars, running, hasCredentials, rejecter, wiping, swallowed>>

Current == attempt = snapshot.generation

EndRefresh(place) == loop' = place /\ attempt' = 0 /\ UNCHANGED <<running, swallowed>>

\* 200: CommitAuthenticatedSnapshot, and with it SaveUserInfo, if the
\* operation is current; ErrStaleSessionOperation otherwise.
RefreshSucceeds ==
  /\ loop = "refreshing"
  /\ Current
  /\ PublishAuthenticated
  /\ hasCredentials' = TRUE
  /\ loop' = "committed"
  /\ attempt' = snapshot'.generation
  /\ UNCHANGED <<running, rejecter, wiping, swallowed>>

\* The listeners of that commit have returned, and so has RefreshSession.
RefreshReturns ==
  /\ loop = "committed"
  /\ \A t \in transitions : t.event.generation # attempt
  /\ EndRefresh("leaving")
  /\ UNCHANGED <<vars, hasCredentials, rejecter, wiping>>

RefreshStale ==
  /\ loop = "refreshing"
  /\ ~ Current
  /\ EndRefresh("failed")
  /\ UNCHANGED <<vars, hasCredentials, rejecter, wiping>>

\* The token was rotated while the call waited for refreshSessionMu: the
\* snapshot another refresh published is the result.
RefreshReused ==
  /\ loop = "refreshing"
  /\ snapshot.state = "active"
  /\ EndRefresh("leaving")
  /\ UNCHANGED <<vars, hasCredentials, rejecter, wiping>>

\* 401, to the refresh or to the profile request that follows it: the session
\* is wiped, credentials last.
RefreshRejected ==
  /\ loop = "refreshing"
  /\ Current
  /\ NotifyRefreshFailed
  /\ EndRefresh("wiping")
  /\ UNCHANGED <<hasCredentials, rejecter, wiping>>

Ended == \A t \in transitions : t.event.state \notin {"hard_invalid", "unauthenticated"}

RefreshWipes ==
  /\ loop = "wiping"
  /\ Ended
  /\ hasCredentials' = FALSE
  /\ loop' = "failed"
  /\ UNCHANGED <<vars, running, attempt, rejecter, wiping, swallowed>>

\* No answer, a 5xx, a body that does not parse.
RefreshTransient ==
  /\ loop = "refreshing"
  /\ EndRefresh("failed")
  /\ UNCHANGED <<vars, hasCredentials, rejecter, wiping>>

AfterFailure_GivesUp ==
  /\ loop = "failed"
  /\ loop' = "leaving"
  /\ UNCHANGED <<vars, running, attempt, hasCredentials, rejecter, wiping, swallowed>>

\* err # nil: the loop ends if the credentials are gone and tries again if
\* they are not.
AfterFailure ==
  /\ loop = "failed"
  /\ loop' = IF hasCredentials THEN "waiting" ELSE "leaving"
  /\ UNCHANGED <<vars, running, attempt, hasCredentials, rejecter, wiping, swallowed>>

\* The deferred function.
Leave ==
  /\ loop = "leaving"
  /\ running' = FALSE
  /\ loop' = "off"
  /\ UNCHANGED <<vars, attempt, hasCredentials, rejecter, wiping, swallowed>>

-------------------------------------------------------------------------------
\* RecoverOrExpireLocalSession: NotifyAccessRejected, which calls the
\* listeners if it publishes, and then a start of its own.
Reject ==
  /\ rejecter = "idle"
  /\ rejecter' = "notifying"
  /\ IF snapshot.state = "active" THEN NotifyAccessRejected ELSE UNCHANGED vars
  /\ UNCHANGED <<loopVars, hasCredentials, wiping, swallowed>>

SoftExpiryAnnounced == \A t \in transitions : t.event.state # "soft_expired"

StartDirectly ==
  /\ rejecter = "notifying"
  /\ SoftExpiryAnnounced
  /\ StartSoftExpiryRecovery
  /\ rejecter' = "idle"
  /\ UNCHANGED <<vars, hasCredentials, wiping>>

OnSessionEvent_LeavesStartToCaller ==
  /\ \E t \in transitions : CallListener(t)
  /\ UNCHANGED recoveryVars

\* onSessionEvent, as far as it concerns the loop.
OnSessionEvent ==
  \E t \in transitions :
    /\ CallListener(t)
    /\ IF t.event.state = "soft_expired"
         THEN StartSoftExpiryRecovery
         ELSE UNCHANGED <<loopVars, swallowed>>
    /\ UNCHANGED <<hasCredentials, rejecter, wiping>>

\* The rest of the process: a login or another caller's refresh, RestoreSession
\* that cannot reach the cloud, a logout or another caller's wipe.
LoginElsewhere ==
  /\ PublishAuthenticated
  /\ hasCredentials' = TRUE
  /\ UNCHANGED <<loopVars, rejecter, wiping, swallowed>>

RestoreUnavailable ==
  /\ snapshot.state = "restoring"
  /\ hasCredentials
  /\ \E u \in Users : Publish("soft_expired", u) /\ UNCHANGED <<phase, published>>
  /\ UNCHANGED recoveryVars

WipeElsewhere ==
  /\ ~ wiping
  /\ NotifyRefreshFailed \/ NotifyLoggedOut
  /\ wiping' = TRUE
  /\ UNCHANGED <<loopVars, hasCredentials, rejecter, swallowed>>

\* DeleteUserInfo, once the listeners have returned.
DeleteCredentials ==
  /\ wiping
  /\ Ended
  /\ hasCredentials' = FALSE
  /\ wiping' = FALSE
  /\ UNCHANGED <<vars, loopVars, rejecter, swallowed>>

-------------------------------------------------------------------------------
LoopStep ==
  \/ CheckState \/ CallRefresh
  \/ RefreshSucceeds \/ RefreshReturns \/ RefreshStale \/ RefreshReused
  \/ RefreshRejected \/ RefreshWipes \/ RefreshTransient
  \/ AfterFailure \/ Leave

\* The bound leaves the loop a transition: nothing else takes the last one.
Outside ==
  /\ snapshot.revision < MaxRevision - 1
  /\ Reject \/ LoginElsewhere \/ RestoreUnavailable \/ WipeElsewhere

RecoveryNext ==
  LoopStep \/ Outside \/ StartDirectly \/ OnSessionEvent \/ DeleteCredentials

RecoverySafetySpec == RecoveryInit /\ [][RecoveryNext]_allRecoveryVars

\* Goroutines run on.  A cloud that is asked again and again is reached at
\* last: it renews the token or rejects it.
DefiniteAnswer == RefreshSucceeds \/ RefreshRejected

RecoverySpec ==
  /\ RecoverySafetySpec
  /\ WF_allRecoveryVars(LoopStep)
  /\ WF_allRecoveryVars(OnSessionEvent)
  /\ WF_allRecoveryVars(StartDirectly)
  /\ WF_allRecoveryVars(DeleteCredentials)
  /\ SF_allRecoveryVars(DefiniteAnswer)

-------------------------------------------------------------------------------
(* Properties. *)

\* Every start has been made.
Settled ==
  /\ rejecter = "idle"
  /\ transitions = {}
  /\ ~ wiping

\* "this coordinator drives recovery ... retrying until success or permanent
\* rejection" (soft_expiry.go): a session left to recover has a loop to do it.
\* A start that finds the loop on its way out is lost, so the code does not
\* ensure it.
SoftExpiredIsDriven ==
  Settled /\ snapshot.state = "soft_expired" /\ hasCredentials => running

\* What it does ensure: a loop is missing only where a start came while the
\* previous loop had decided to end and had not yet said so.
DrivenUnlessSwallowed ==
  Settled /\ snapshot.state = "soft_expired" /\ hasCredentials => running \/ swallowed

\* A rejection while the session is active never leaves it soft-expired for
\* good, whatever transient failures the refresh meets, unless its starts were
\* lost: the loop renews the session or ends it.
RecoveryConcludes ==
  (snapshot.state = "soft_expired" /\ loop \in {"waiting", "calling", "refreshing", "failed"})
    ~> (snapshot.state # "soft_expired" \/ ~ hasCredentials \/ swallowed)
===============================================================================
