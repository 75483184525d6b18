----------------------------- MODULE SessionEvents -----------------------------
(***************************************************************************)
(* How a transition of the authority reaches a browser: the broker listens *)
(* to the authority and keeps one pending snapshot for each SSE client     *)
(* (app/http/services/session_event_broker.go); the page reduces what the  *)
(* stream and its GETs bring into the session view it shows                *)
(* (app/website/src/stores/{auth,sessionSnapshot}.js).  Stream and GET are *)
(* served to holders of a dashboard cookie only                            *)
(* (app/http/middleware/dashboard_session.go); a page that is told it has  *)
(* none pins its login view until a login or logout command of its own     *)
(* succeeds.                                                               *)
(*                                                                         *)
(* The broker is the authority's one listener (NumListeners = 1), so       *)
(* Broadcast below is CallListener and what the listener does.             *)
(* The instance id of a process is its number.  A restart severs every     *)
(* connection, but what has left the old process still arrives: unread     *)
(* messages of its streams and answers to GETs.                            *)
(***************************************************************************)
EXTENDS SessionAuthority, Sequences

CONSTANTS Browsers,     \* pages, each with one EventSource
          Local,        \* those that reach the process over loopback
          NoEvent,      \* an empty channel, a request without an answer
          MaxInstance,  \* bound: the process stops restarting
          MaxDrops      \* bound: connections dropped and cookies expired

ASSUME EventsAssumption ==
  /\ NumListeners = 1
  /\ Local \subseteq Browsers
  /\ MaxInstance \in Nat \ {0}
  /\ MaxDrops \in Nat

VARIABLES
  instance,   \* instance id of the running process
  client,     \* a page's EventSource, with the handler that serves it
  slot,       \* its channel in the broker's clients map
  wire,       \* snapshots written to the stream, not yet read by the page
  request,    \* the page's GET of the session
  dashboard,  \* the page's dashboard session and the command it waits for
  view,       \* the page's session view
  met,        \* history: the processes whose snapshots the page has shown
  masked,     \* history: the snapshot shown was reduced under the pin
  delivered,  \* history: highest revision the broker was called with
  overtaken,  \* history: the broker was called with a lower one after it
  drops

streamVars == <<client, slot, wire>>
shownVars == <<view, met, masked>>
historyVars == <<delivered, overtaken>>
eventVars == <<instance, streamVars, request, dashboard, shownVars, historyVars, drops>>
allVars == <<vars, eventVars>>

ClientPhases == {"unopened", "closed", "subscribed", "streaming", "refused"}
EventType == [instance : 1..MaxInstance, snapshot : SnapshotType]
ASSUME NoEventAssumption == NoEvent \notin EventType

ViewType == [instance : 0..MaxInstance, revision : Nat, retired : SUBSET (0..MaxInstance),
             state : States, user : Users \cup {NoUser}, isAuthenticated : BOOLEAN]
RequestType == [phase : {"idle", "sent", "refused"}, answer : EventType \cup {NoEvent}]

\* ready and pinned are the page's dashboardSessionReady and
\* dashboardSessionRequired; credential says whether the process accepts its
\* cookie; command is how far a login or logout it asked for has come.
DashboardType == [ready : BOOLEAN, pinned : BOOLEAN, credential : BOOLEAN,
                  command : {"none", "login", "logout", "reconciling"}]

\* Snapshots keep their shape on the way to a page, a page that shows the
\* session ended shows no account, and one that is pinned is not logged in.
EventsTypeOK ==
  /\ TypeOK
  /\ instance \in 1..MaxInstance
  /\ client \in [Browsers -> ClientPhases]
  /\ slot \in [Browsers -> EventType \cup {NoEvent}]
  /\ wire \in [Browsers -> Seq(EventType)]
  /\ request \in [Browsers -> RequestType]
  /\ dashboard \in [Browsers -> DashboardType]
  /\ view \in [Browsers -> ViewType]
  /\ \A b \in Browsers :
       /\ view[b].state \in {"unauthenticated", "hard_invalid"} => view[b].user = NoUser
       /\ dashboard[b].pinned => ~ view[b].isAuthenticated
  /\ met \in [Browsers -> SUBSET (1..MaxInstance)]
  /\ masked \in [Browsers -> BOOLEAN]
  /\ delivered \in Nat /\ overtaken \in BOOLEAN /\ drops \in 0..MaxDrops

Idle == [phase |-> "idle", answer |-> NoEvent]
Sent == [phase |-> "sent", answer |-> NoEvent]
Refused == [phase |-> "refused", answer |-> NoEvent]

EventsInit ==
  /\ Init
  /\ instance = 1
  /\ client = [b \in Browsers |-> "unopened"]
  /\ slot = [b \in Browsers |-> NoEvent]
  /\ wire = [b \in Browsers |-> <<>>]
  /\ request = [b \in Browsers |-> Idle]
  /\ dashboard \in [Browsers -> {[ready |-> FALSE, pinned |-> FALSE, credential |-> c,
                                   command |-> "none"] : c \in BOOLEAN}]
  /\ view = [b \in Browsers |->
       [instance |-> 0, revision |-> 0, retired |-> {}, state |-> "restoring",
        user |-> NoUser, isAuthenticated |-> FALSE]]
  /\ met = [b \in Browsers |-> {}]
  /\ masked = [b \in Browsers |-> FALSE]
  /\ delivered = 0
  /\ overtaken = FALSE
  /\ drops = 0

\* Bound: a process started later makes fewer transitions, and the last one of a
\* process is followed by no restart.
InBudget == snapshot.revision + instance <= MaxRevision

-------------------------------------------------------------------------------
(* The broker. *)

Open(b) == client[b] \in {"subscribed", "streaming"}

\* SessionEventBroker.Publish: into an empty channel, or in place of what it
\* holds, for every client subscribed.
Queued_KeepsFirst(b, e) == IF ~ Open(b) \/ slot[b] # NoEvent THEN slot[b] ELSE e
Queued(b, e) == IF Open(b) THEN e ELSE NoEvent

Broadcast ==
  \E t \in transitions :
    /\ CallListener(t)
    /\ slot' = [b \in Browsers |->
         Queued(b, [instance |-> instance, snapshot |-> t.event])]
    /\ overtaken' = (overtaken \/ t.event.revision < delivered)
    /\ delivered' = IF t.event.revision > delivered THEN t.event.revision ELSE delivered
    /\ UNCHANGED <<instance, client, wire, request, dashboard, shownVars, drops>>

Newest == [instance |-> instance, snapshot |-> snapshot]

\* The page opens its EventSource once its dashboard session is ready
\* (connectSessionEvents), or the EventSource connects again by itself; what
\* the previous connection left unread is lost by then.  Without a valid cookie
\* the stream is refused, and an EventSource that was refused stays closed.
Subscribe(b) ==
  /\ client[b] = "closed" \/ (client[b] = "unopened" /\ dashboard[b].ready)
  /\ client' = [client EXCEPT ![b] =
       IF dashboard[b].credential THEN "subscribed" ELSE "refused"]
  /\ slot' = [slot EXCEPT ![b] = NoEvent]
  /\ wire' = [wire EXCEPT ![b] = <<>>]
  /\ UNCHANGED <<vars, instance, request, dashboard, shownVars, historyVars, drops>>

\* ServeSessionEvents reads the snapshot after it has subscribed.
SendInitial(b) ==
  /\ client[b] = "subscribed"
  /\ client' = [client EXCEPT ![b] = "streaming"]
  /\ wire' = [wire EXCEPT ![b] = Append(@, Newest)]
  /\ UNCHANGED <<vars, instance, slot, request, dashboard, shownVars, historyVars, drops>>

SendQueued(b) ==
  /\ client[b] = "streaming"
  /\ slot[b] # NoEvent
  /\ wire' = [wire EXCEPT ![b] = Append(@, slot[b])]
  /\ slot' = [slot EXCEPT ![b] = NoEvent]
  /\ UNCHANGED <<vars, instance, client, request, dashboard, shownVars, historyVars, drops>>

\* The stream breaks: a write fails or the request's context is done, and the
\* deferred Unsubscribe forgets the channel.
Unsubscribe(b) ==
  /\ Open(b)
  /\ drops < MaxDrops
  /\ drops' = drops + 1
  /\ client' = [client EXCEPT ![b] = "closed"]
  /\ slot' = [slot EXCEPT ![b] = NoEvent]
  /\ UNCHANGED <<vars, instance, wire, request, dashboard, shownVars, historyVars>>

-------------------------------------------------------------------------------
(* The page reduces a snapshot. *)

\* reduceSessionSnapshot accepts e.  An active snapshot always has its user.
Accepts_ForgetsRetired(v, e) == e.instance = v.instance => e.snapshot.revision > v.revision
Accepts_RevisionOnly(v, e) == e.snapshot.revision > v.revision
Accepts(v, e) == IF e.instance = v.instance
                   THEN e.snapshot.revision > v.revision
                   ELSE e.instance \notin v.retired

UserShown(v, s) == IF s.state \in {"unauthenticated", "hard_invalid"} THEN NoUser
                   ELSE IF s.user # NoUser THEN s.user ELSE v.user

\* A process that is restoring leaves the page as logged in as it was.
AuthShown(v, s) == IF s.state = "restoring" THEN v.isAuthenticated
                   ELSE UserShown(v, s) # NoUser

Reduce(v, e) ==
  [instance |-> e.instance,
   revision |-> e.snapshot.revision,
   retired  |-> v.retired \cup ({v.instance} \ {0, e.instance}),
   state    |-> e.snapshot.state,
   user     |-> UserShown(v, e.snapshot),
   isAuthenticated |-> AuthShown(v, e.snapshot)]

\* applySessionSnapshot: the pin has the last word on isAuthenticated.
Applied_DespitePin(v, e, pinned) == IF Accepts(v, e) THEN Reduce(v, e) ELSE v
Applied(v, e, pinned) ==
  IF ~ Accepts(v, e) THEN v
  ELSE [Reduce(v, e) EXCEPT !.isAuthenticated = @ /\ ~ pinned]

ApplySessionSnapshot(b, e) ==
  LET v == view[b]
      pinned == dashboard[b].pinned
      keeps == masked[b] /\ e.snapshot.state = "restoring"
  IN  /\ view' = [view EXCEPT ![b] = Applied(v, e, pinned)]
      /\ met' = [met EXCEPT ![b] = IF Accepts(v, e) THEN @ \cup {e.instance} ELSE @]
      /\ masked' = [masked EXCEPT ![b] = IF Accepts(v, e) THEN pinned \/ keeps ELSE @]

OnMessage(b) ==
  /\ wire[b] # <<>>
  /\ ApplySessionSnapshot(b, Head(wire[b]))
  /\ wire' = [wire EXCEPT ![b] = Tail(@)]
  /\ UNCHANGED <<vars, instance, client, slot, request, dashboard, historyVars, drops>>

-------------------------------------------------------------------------------
(* The page's GETs and its dashboard session. *)

\* restoreAuthSession: from the 5 s timer, onerror or a failed feature request;
\* one GET at a time.
SendGet(b) ==
  /\ request[b].phase = "idle"
  /\ request' = [request EXCEPT ![b] = Sent]
  /\ UNCHANGED <<vars, instance, streamVars, dashboard, shownVars, historyVars, drops>>

AnswerGet(b) ==
  /\ request[b] = Sent
  /\ request' = [request EXCEPT ![b] =
       IF dashboard[b].credential THEN [phase |-> "sent", answer |-> Newest] ELSE Refused]
  /\ UNCHANGED <<vars, instance, streamVars, dashboard, shownVars, historyVars, drops>>

ApplyAnswer(b) ==
  /\ request[b].answer # NoEvent
  /\ ApplySessionSnapshot(b, request[b].answer)
  /\ request' = [request EXCEPT ![b] = Idle]
  /\ UNCHANGED <<vars, instance, streamVars, dashboard, historyVars, drops>>

\* applySessionReadFailure of a 401: the view keeps everything but its status.
ApplyRefusal(b) ==
  /\ request[b] = Refused
  /\ request' = [request EXCEPT ![b] = Idle]
  /\ dashboard' = [dashboard EXCEPT ![b].ready = FALSE]
  /\ UNCHANGED <<vars, instance, streamVars, shownVars, historyVars, drops>>

\* ensureDashboardSession: the process gives a cookie to a page on loopback, and
\* renews a valid one of another page while the session is active.
Bootstrap(b) ==
  /\ ~ dashboard[b].ready
  /\ b \in Local \/ (dashboard[b].credential /\ snapshot.state = "active")
  /\ dashboard' = [dashboard EXCEPT ![b].ready = TRUE, ![b].credential = TRUE]
  /\ UNCHANGED <<vars, instance, streamVars, request, shownVars, historyVars, drops>>

\* The cookie expires, or 64 newer ones have replaced it.
LoseCredential(b) ==
  /\ dashboard[b].credential
  /\ drops < MaxDrops
  /\ drops' = drops + 1
  /\ dashboard' = [dashboard EXCEPT ![b].credential = FALSE]
  /\ UNCHANGED <<vars, instance, streamVars, request, shownVars, historyVars>>

\* A quick-setup request is answered with 401: for want of a cookie, or of a
\* fresh upstream token, which look the same to the page.
MarkDashboardSessionRequired(b) ==
  /\ dashboard' = [dashboard EXCEPT ![b].pinned = TRUE]
  /\ view' = [view EXCEPT ![b].isAuthenticated = FALSE]
  /\ masked' = [masked EXCEPT ![b] = TRUE]
  /\ UNCHANGED <<vars, instance, streamVars, request, met, historyVars, drops>>

-------------------------------------------------------------------------------
(* The page's own login and logout. *)

\* The process serves the command: it publishes before it replies.
ServeLogin(b) ==
  /\ InBudget
  /\ dashboard[b].command = "none"
  /\ PublishAuthenticated
  /\ dashboard' = [dashboard EXCEPT ![b].command = "login"]
  /\ UNCHANGED <<instance, streamVars, request, shownVars, historyVars, drops>>

ServeLogout(b) ==
  /\ InBudget
  /\ dashboard[b].command = "none"
  /\ NotifyLoggedOut
  /\ dashboard' = [dashboard EXCEPT ![b].command = "logout"]
  /\ UNCHANGED <<instance, streamVars, request, shownVars, historyVars, drops>>

\* The reply to a login brings a new cookie (writeAuthResult), that to a logout
\* does not.
ReceiveResult(b) ==
  /\ dashboard[b].command \in {"login", "logout"}
  /\ dashboard' = [dashboard EXCEPT
       ![b].command = "reconciling",
       ![b].credential = @ \/ dashboard[b].command = "login"]
  /\ UNCHANGED <<vars, instance, streamVars, request, shownVars, historyVars, drops>>

\* The reply is lost, the cookie cannot be issued, or the bootstrap is refused.
CommandFails(b) ==
  /\ dashboard[b].command # "none"
  /\ dashboard' = [dashboard EXCEPT ![b].command = "none"]
  /\ UNCHANGED <<vars, instance, streamVars, request, shownVars, historyVars, drops>>

\* reconcileAfterAuthCommand, past ensureDashboardSession: the pin is released
\* and a forced GET takes the place of one under way, whose answer is ignored.
Reconcile(b) ==
  /\ dashboard[b].command = "reconciling"
  /\ dashboard[b].ready
  /\ dashboard' = [dashboard EXCEPT ![b].command = "none", ![b].pinned = FALSE]
  /\ request' = [request EXCEPT ![b] = Sent]
  /\ UNCHANGED <<vars, instance, streamVars, shownVars, historyVars, drops>>

-------------------------------------------------------------------------------
(* The process restarts; its authority starts over at revision 1.  The cookies *)
(* it has issued are in a file.                                                *)

Restart ==
  /\ instance < MaxInstance /\ InBudget
  /\ instance' = instance + 1
  /\ snapshot' = [revision |-> 1, generation |-> 1, state |-> "restoring", user |-> NoUser]
  /\ transitions' = {}
  /\ client' = [b \in Browsers |-> IF Open(b) THEN "closed" ELSE client[b]]
  /\ slot' = [b \in Browsers |-> NoEvent]
  /\ request' = [b \in Browsers |-> IF request[b] = Sent THEN Idle ELSE request[b]]
  /\ delivered' = 0
  /\ overtaken' = FALSE
  /\ UNCHANGED <<opVars, flowVars, forcedProxyFlowCloses, wire, dashboard, shownVars, drops>>

-------------------------------------------------------------------------------
PublishingStep ==
  PublishAuthenticated \/ NotifyAccessRejected \/ NotifyRefreshFailed \/ NotifyLoggedOut

StreamStep(b) == Subscribe(b) \/ SendInitial(b) \/ SendQueued(b) \/ Unsubscribe(b)
Polls(b) == SendGet(b) \/ AnswerGet(b) \/ ApplyAnswer(b) \/ ApplyRefusal(b)
SessionStep(b) == Bootstrap(b) \/ LoseCredential(b) \/ MarkDashboardSessionRequired(b)
ReplyStep(b) == ReceiveResult(b) \/ CommandFails(b) \/ Reconcile(b)

EventsNext ==
  \/ InBudget /\ PublishingStep /\ UNCHANGED eventVars
  \/ Broadcast
  \/ \E b \in Browsers :
       \/ StreamStep(b) \/ OnMessage(b) \/ Polls(b) \/ SessionStep(b)
       \/ ServeLogin(b) \/ ServeLogout(b) \/ ReplyStep(b)
  \/ Restart

EventsSafetySpec == EventsInit /\ [][EventsNext]_allVars

\* The page's timer keeps firing: it asks for a cookie while it has none, then
\* for the session, and the process answers what reaches it.  Nothing is assumed
\* of the stream: it may never be opened or read.
EventsSpec ==
  EventsSafetySpec /\ \A b \in Browsers : WF_allVars(Bootstrap(b)) /\ WF_allVars(Polls(b))

-------------------------------------------------------------------------------
(* Properties. *)

\* A page never goes back, however stream, GETs and restarts interleave: not to
\* an earlier snapshot of the process it shows, nor to a process it has shown
\* before, whose messages and answers may still arrive (reduceSessionSnapshot,
\* "rejects delayed snapshots from the retired instance").
ViewNeverMovesBack ==
  [][\A b \in Browsers :
       /\ view'[b].instance = view[b].instance => view'[b].revision >= view[b].revision
       /\ view'[b].instance # view[b].instance => view'[b].instance \notin met[b]]_allVars

\* Nothing is on its way to the page's stream any more.
StreamQuiet(b) ==
  /\ client[b] = "streaming"
  /\ slot[b] = NoEvent
  /\ wire[b] = <<>>
  /\ transitions = {}

StreamIsCurrent(b) ==
  view[b].instance = instance /\ view[b].revision = snapshot.revision

\* The page has met the running process, and then a delayed snapshot of an older
\* one it had not met: instance ids have no order, so it has retired the process
\* that runs and takes nothing from it.
Strayed(b) == instance \in view[b].retired

\* "A transition racing that read is either reflected in the read or queued"
\* (ServeSessionEvents): a stream that has gone quiet has shown its page the
\* newest snapshot, unless the broker was called out of order or the page has
\* strayed.  The listeners run outside the authority's lock, so the broker may
\* be, and "always converges to the newest authority revision"
\* (SessionEventBroker) does not hold without the exception.
StreamLosesNothing ==
  \A b \in Browsers : StreamQuiet(b) /\ ~ overtaken /\ ~ Strayed(b) => StreamIsCurrent(b)

\* What a page that shows the newest snapshot tells its user: nothing but the
\* login view while it is pinned; logged in exactly if the authority holds a
\* session, unless that snapshot was reduced under the pin.
TellsTheTruth(b) ==
  /\ dashboard[b].pinned => ~ view[b].isAuthenticated
  /\ ~ masked[b] /\ snapshot.state # "restoring" =>
       view[b].isAuthenticated = (snapshot.user # NoUser)

\* "SSE or the periodic pure GET will converge" (logoutUser): once transitions,
\* restarts and lost cookies cease, a page on loopback shows the newest snapshot
\* for good, unless it has strayed.
PageConverges ==
  \A b \in Local : <>[](Strayed(b) \/ (StreamIsCurrent(b) /\ TellsTheTruth(b)))

\* "the periodic GET remains authoritative" (connectSessionEvents): a page on
\* loopback ends up with the newest snapshot, whatever the stream has brought.
PollingIsAuthoritative == \A b \in Local : <>[]StreamIsCurrent(b)

\* A command that succeeds releases the pin "so that the snapshots that follow
\* are authoritative again" (reconcileAfterAuthCommand): a page on loopback that
\* is not pinned comes to show an active session as logged in.
LoginReleasesPin ==
  \A b \in Local :
    snapshot.state = "active" /\ ~ dashboard[b].pinned
      ~> view[b].isAuthenticated \/ dashboard[b].pinned \/ snapshot.state # "active"
===============================================================================
