---------------------------- MODULE IngressControl ----------------------------
(***************************************************************************)
(* How session transitions start and stop the local HTTP proxy:            *)
(* onSessionEvent (app/http/services/auth_runtime_hooks.go), RunService    *)
(* (app/http/services/run.go) in HTTP mode, and the proxy's accept loop    *)
(* and lifecycle flags (inbound/http/server.go).                           *)
(*                                                                         *)
(* The authority calls onSessionEvent for every transition, on the         *)
(* goroutine that published it; thread g runs it for generation g, thread  *)
(* 0 serves the user's requests.  What a mutex covers is one step, and the *)
(* windows the code opens between two of them are steps of other threads.  *)
(* StopHttpProxy is called from several places and has three such parts.   *)
(*                                                                         *)
(* Left out: TUN mode and switching modes, the update gate of StartService *)
(* (it only refuses starts), the flows themselves (SessionAuthority).      *)
(***************************************************************************)
EXTENDS SessionAuthority

CONSTANTS Starts,   \* calls of StartMitmHttp, each with the listener it may bind
          NoStart,  \* a nil listener
          MaxPending \* bound: transitions with listeners to run, at one time

ASSUME IngressAssumption ==
  /\ NumListeners = 1
  /\ NoStart \notin Starts
  /\ MaxPending \in Nat \ {0}
  /\ MaxRevision # 0

VARIABLES
  startup,      \* StartupState.status: "ready" stands for CONFIGURED too,
                \* "unconfigured" for CONFIGURING, as canStartProxyWithStatus does
  isRunning,    \* RunService.isRunning
  paused,       \* proxyPausedForSoftExpiry
  serverFlag,   \* isHttpRunning
  current,      \* the start whose context and listener httpCtx, httpListener are
  cancelled,    \* starts whose context is done
  open,         \* starts whose listener is bound and not closed
  server,       \* the goroutine of each start
  thread,       \* what each thread is doing
  exited,       \* the process has exited: a listener could not be bound
  desynced,     \* history: isHttpRunning was cleared with a listener open
  overlapped    \* history: transitions were handled at once or out of order, or one
                \* was published before a login had marked the startup state

serverVars == <<serverFlag, current, cancelled, open, server, exited, desynced>>
ingressVars == <<startup, isRunning, paused, serverVars, thread, overlapped>>
allVars == <<vars, ingressVars>>

Threads == 0..MaxRevision

ThreadPlaces ==
  {"idle", "ready", "take_paused", "clear_paused", "unconfigure",
   "stop_flag", "probe", "cancel", "close", "closed", "set_stopped", "set_paused",
   "check", "commit", "login", "done", "clear_startup"}
Kinds == {"none", "resume", "pause", "expire", "logout", "start", "stop", "login"}
ServerPlaces == {"unused", "spawned", "accepting", "leaving", "ended"}

\* The proxy has at most one listener bound, whatever its flags say.
IngressTypeOK ==
  /\ TypeOK
  /\ startup \in {"unconfigured", "ready"}
  /\ isRunning \in BOOLEAN /\ paused \in BOOLEAN /\ serverFlag \in BOOLEAN
  /\ current \in Starts \cup {NoStart}
  /\ cancelled \subseteq Starts
  /\ open \subseteq Starts /\ Cardinality(open) <= 1
  /\ server \in [Starts -> ServerPlaces]
  /\ thread \in [Threads -> [at : ThreadPlaces, kind : Kinds, was : BOOLEAN,
                             taken : Starts \cup {NoStart}]]
  /\ exited \in BOOLEAN /\ desynced \in BOOLEAN /\ overlapped \in BOOLEAN

IdleThread == [at |-> "idle", kind |-> "none", was |-> FALSE, taken |-> NoStart]

IngressInit ==
  /\ Init
  /\ startup \in {"unconfigured", "ready"}
  /\ isRunning = FALSE /\ paused = FALSE /\ serverFlag = FALSE
  /\ current = NoStart
  /\ cancelled = {} /\ open = {}
  /\ server = [s \in Starts |-> "unused"]
  /\ thread = [g \in Threads |-> IdleThread]
  /\ exited = FALSE /\ desynced = FALSE /\ overlapped = FALSE

Goto(g, place) == thread' = [thread EXCEPT ![g].at = place]

-------------------------------------------------------------------------------
(* The HTTP server. *)

\* StartMitmHttp up to its accept loop, all under httpMutex.
BindListener_FlagUnread(s) ==
  /\ server[s] = "spawned"
  /\ IF snapshot.state # "active"
       THEN /\ server' = [server EXCEPT ![s] = "ended"]
            /\ UNCHANGED <<serverFlag, current, open, exited>>
     ELSE IF open # {}
       THEN exited' = TRUE /\ UNCHANGED <<server, serverFlag, current, open>>
     ELSE /\ open' = open \cup {s}
          /\ current' = s
          /\ serverFlag' = TRUE
          /\ server' = [server EXCEPT ![s] = "accepting"]
          /\ UNCHANGED exited
  /\ UNCHANGED <<vars, startup, isRunning, paused, cancelled, thread, desynced, overlapped>>

BindListener(s) ==
  /\ server[s] = "spawned"
  /\ IF serverFlag \/ snapshot.state # "active"
       THEN /\ server' = [server EXCEPT ![s] = "ended"]
            /\ UNCHANGED <<serverFlag, current, open, exited>>
     ELSE IF open # {}   \* the port is taken: Fatal
       THEN exited' = TRUE /\ UNCHANGED <<server, serverFlag, current, open>>
     ELSE /\ open' = open \cup {s}
          /\ current' = s
          /\ serverFlag' = TRUE
          /\ server' = [server EXCEPT ![s] = "accepting"]
          /\ UNCHANGED exited
  /\ UNCHANGED <<vars, startup, isRunning, paused, cancelled, thread, desynced, overlapped>>

\* Accept fails on a closed listener, and the loop looks at httpCtx: at the
\* context of the newest start, which need not be its own.  If that one is not
\* done the loop goes on accepting.
AcceptFails(s) ==
  /\ server[s] = "accepting"
  /\ s \notin open
  /\ current \in cancelled
  /\ server' = [server EXCEPT ![s] = "leaving"]
  /\ UNCHANGED <<vars, startup, isRunning, paused, serverFlag, current, cancelled, open,
                 thread, exited, desynced, overlapped>>

ClearFlag ==
  /\ serverFlag' = FALSE
  /\ desynced' = (desynced \/ open # {})

AcceptLoopEnds(s) ==
  /\ server[s] = "leaving"
  /\ server' = [server EXCEPT ![s] = "ended"]
  /\ ClearFlag
  /\ UNCHANGED <<vars, startup, isRunning, paused, current, cancelled, open, thread,
                 exited, overlapped>>

\* StopHttpProxy: cancel under the lock ...
CancelContext(g) ==
  /\ thread[g].at = "cancel"
  /\ IF serverFlag
       THEN /\ cancelled' = cancelled \cup {current}
            /\ thread' = [thread EXCEPT ![g].at = "close", ![g].taken = current]
       ELSE Goto(g, "set_stopped") /\ UNCHANGED cancelled
  /\ UNCHANGED <<vars, startup, isRunning, paused, serverFlag, current, open, server,
                 exited, desynced, overlapped>>

\* ... close the listener outside it ...
CloseListener(g) ==
  /\ thread[g].at = "close"
  /\ open' = open \ {thread[g].taken}
  /\ Goto(g, "closed")
  /\ UNCHANGED <<vars, startup, isRunning, paused, serverFlag, current, cancelled, server,
                 exited, desynced, overlapped>>

\* ... and clear the flag under it again.
StopReturns(g) ==
  /\ thread[g].at = "closed"
  /\ ClearFlag
  /\ thread' = [thread EXCEPT ![g].at = "set_stopped", ![g].taken = NoStart]
  /\ UNCHANGED <<vars, startup, isRunning, paused, current, cancelled, open, server,
                 exited, overlapped>>

-------------------------------------------------------------------------------
(* RunService. *)

\* StopIngressIfActive and StopIngressForLogout read the flag under the mode
\* mutex; the latter, and StopService, clear it there.
ReadRunning(g) ==
  /\ thread[g].at = "stop_flag"
  /\ thread' = [thread EXCEPT
       ![g].at = IF thread[g].kind # "stop" THEN "probe"
                 ELSE IF isRunning THEN "cancel" ELSE "done",
       ![g].was = isRunning]
  /\ isRunning' = (isRunning /\ thread[g].kind \notin {"logout", "stop"})
  /\ UNCHANGED <<vars, startup, paused, serverVars, overlapped>>

NothingToStop_FlagOnly(g) == ~ thread[g].was
NothingToStop(g) == ~ thread[g].was /\ ~ serverFlag

Probe(g) ==
  /\ thread[g].at = "probe"
  /\ thread' = [thread EXCEPT ![g].at = IF NothingToStop(g) THEN "done" ELSE "cancel",
                              ![g].was = FALSE]
  /\ UNCHANGED <<vars, startup, isRunning, paused, serverVars, overlapped>>

\* StopIngressIfActive ends with SetRunning(false), and a pause is remembered
\* once it has returned.
SetStopped(g) ==
  /\ thread[g].at = "set_stopped"
  /\ isRunning' = (isRunning /\ thread[g].kind \notin {"pause", "expire"})
  /\ Goto(g, IF thread[g].kind = "pause" THEN "set_paused" ELSE "done")
  /\ UNCHANGED <<vars, startup, paused, serverVars, overlapped>>

SetPaused(g) ==
  /\ thread[g].at = "set_paused"
  /\ paused' = TRUE
  /\ Goto(g, "done")
  /\ UNCHANGED <<vars, startup, isRunning, serverVars, overlapped>>

MayStart == startup = "ready" /\ snapshot.state = "active"

\* StartService: the gate, and the gate again under the mode mutex, with
\* isRunning set and StartMitmHttp spawned.
CheckStart(g) ==
  /\ thread[g].at = "check"
  /\ Goto(g, IF MayStart THEN "commit" ELSE "done")
  /\ UNCHANGED <<vars, startup, isRunning, paused, serverVars, overlapped>>

CommitStart(g) ==
  /\ thread[g].at = "commit"
  /\ Goto(g, "done")
  /\ IF MayStart /\ ~ isRunning
       THEN \E s \in Starts :
              /\ server[s] = "unused"
              /\ server' = [server EXCEPT ![s] = "spawned"]
              /\ isRunning' = TRUE
       ELSE UNCHANGED <<server, isRunning>>
  /\ UNCHANGED <<vars, startup, paused, serverFlag, current, cancelled, open, exited,
                 desynced, overlapped>>

-------------------------------------------------------------------------------
(* onSessionEvent. *)

Handler(to) == CASE to = "active"          -> [at |-> "ready", kind |-> "resume"]
                 [] to = "soft_expired"    -> [at |-> "stop_flag", kind |-> "pause"]
                 [] to = "hard_invalid"    -> [at |-> "clear_paused", kind |-> "expire"]
                 [] to = "unauthenticated" -> [at |-> "clear_paused", kind |-> "logout"]

Handling(g) == thread[g].at # "idle"

BeginListener(t) ==
  LET g == t.event.generation IN
    /\ ~ Handling(g)
    /\ thread' = [thread EXCEPT ![g].at   = Handler(t.event.state).at,
                                ![g].kind = Handler(t.event.state).kind]
    /\ overlapped' = (\/ overlapped
                      \/ \E h \in Threads \ {0, g} : Handling(h)
                      \/ \E u \in transitions : u.event.generation < g)
    /\ UNCHANGED <<vars, startup, isRunning, paused, serverVars>>

SetReady(g) ==
  /\ thread[g].at = "ready"
  /\ startup' = "ready"
  /\ Goto(g, IF thread[g].kind = "resume" THEN "take_paused" ELSE "done")
  /\ UNCHANGED <<vars, isRunning, paused, serverVars, overlapped>>

TakePaused_NotReset(g) ==
  /\ thread[g].at = "take_paused"
  /\ Goto(g, IF paused THEN "check" ELSE "done")
  /\ UNCHANGED <<vars, startup, isRunning, paused, serverVars, overlapped>>

TakePaused(g) ==
  /\ thread[g].at = "take_paused"
  /\ paused' = FALSE
  /\ Goto(g, IF paused THEN "check" ELSE "done")
  /\ UNCHANGED <<vars, startup, isRunning, serverVars, overlapped>>

ClearPaused(g) ==
  /\ thread[g].at = "clear_paused"
  /\ paused' = FALSE
  /\ Goto(g, "unconfigure")
  /\ UNCHANGED <<vars, startup, isRunning, serverVars, overlapped>>

Unconfigure(g) ==
  /\ thread[g].at = "unconfigure"
  /\ startup' = "unconfigured"
  /\ Goto(g, "stop_flag")
  /\ UNCHANGED <<vars, isRunning, paused, serverVars, overlapped>>

\* A logout, and a wipe by the page's own refresh, end with clearing the
\* startup state once more, after the transition has returned.
ClearsStartup(state) == CASE state = "unauthenticated" -> {TRUE}
                          [] state = "hard_invalid"    -> BOOLEAN
                          [] OTHER                     -> {FALSE}

EndListener(t) ==
  /\ thread[t.event.generation].at = "done"
  /\ CallListener(t)
  /\ \E clears \in ClearsStartup(t.event.state) :
       thread' = [thread EXCEPT ![t.event.generation] =
                    IF clears THEN [IdleThread EXCEPT !.at = "clear_startup"]
                    ELSE IdleThread]
  /\ UNCHANGED <<startup, isRunning, paused, serverVars, overlapped>>

ClearStartup(g) ==
  /\ thread[g].at = "clear_startup"
  /\ startup' = "unconfigured"
  /\ thread' = [thread EXCEPT ![g] = IdleThread]
  /\ UNCHANGED <<vars, isRunning, paused, serverVars, overlapped>>

-------------------------------------------------------------------------------
(* Requests: start, stop, and a login or refresh, whose handler marks the    *)
(* startup state ready once it has returned                                  *)
(* (syncStartupStateForAuthenticatedUser).                                   *)

BeginRequest ==
  /\ ~ Handling(0)
  /\ \E k \in {"start", "stop"} :
       thread' = [thread EXCEPT ![0].kind = k,
                                ![0].at = IF k = "start" THEN "check" ELSE "stop_flag"]
  /\ UNCHANGED <<vars, startup, isRunning, paused, serverVars, overlapped>>

MayPublish == Cardinality(transitions) < MaxPending

BeginLogin ==
  /\ ~ Handling(0) /\ MayPublish
  /\ PublishAuthenticated
  /\ thread' = [thread EXCEPT ![0].kind = "login", ![0].at = "login"]
  /\ UNCHANGED <<startup, isRunning, paused, serverVars, overlapped>>

LoginReturns ==
  /\ thread[0].at = "login"
  /\ \A t \in transitions : t.event.state # "active"
  /\ Goto(0, "ready")
  /\ UNCHANGED <<vars, startup, isRunning, paused, serverVars, overlapped>>

EndRequest ==
  /\ thread[0].at = "done"
  /\ thread' = [thread EXCEPT ![0] = IdleThread]
  /\ UNCHANGED <<vars, startup, isRunning, paused, serverVars, overlapped>>

\* Refreshes, rejections, wipes and logouts of other goroutines.
PublishElsewhere ==
  /\ MayPublish
  /\ PublishAuthenticated \/ NotifyAccessRejected \/ NotifyRefreshFailed \/ NotifyLoggedOut
  /\ overlapped' = (overlapped \/ thread[0].kind = "login")
  /\ UNCHANGED <<startup, isRunning, paused, serverVars, thread>>

-------------------------------------------------------------------------------
ThreadStep(g) ==
  \/ CancelContext(g) \/ CloseListener(g) \/ StopReturns(g)
  \/ ReadRunning(g) \/ Probe(g) \/ SetStopped(g) \/ SetPaused(g)
  \/ CheckStart(g) \/ CommitStart(g)
  \/ SetReady(g) \/ TakePaused(g) \/ ClearPaused(g) \/ Unconfigure(g) \/ ClearStartup(g)

ServerStep(s) == BindListener(s) \/ AcceptFails(s) \/ AcceptLoopEnds(s)

ListenerStep(t) == BeginListener(t) \/ EndListener(t)

IngressNext ==
  /\ ~ exited
  /\ \/ \E g \in Threads : ThreadStep(g)
     \/ \E s \in Starts : ServerStep(s)
     \/ \E t \in transitions : ListenerStep(t)
     \/ BeginRequest \/ BeginLogin \/ LoginReturns \/ EndRequest
     \/ PublishElsewhere

IngressSafetySpec == IngressInit /\ [][IngressNext]_allVars

-------------------------------------------------------------------------------
(* Properties. *)

Settled ==
  /\ ~ exited
  /\ transitions = {}
  /\ \A g \in Threads : ~ Handling(g)
  /\ \A s \in Starts : server[s] # "spawned"

Ended == snapshot.state \in {"hard_invalid", "unauthenticated"}

\* An ended session leaves no ingress behind: once its listeners have run, no
\* proxy port is open and RunService does not believe in one; except after a
\* start that slipped in between the closing of a listener and the clearing of
\* isHttpRunning.
EndedIsStopped == Settled /\ Ended /\ ~ desynced => open = {} /\ ~ isRunning

\* The same without the exception.  StopIngressIfActive "stops based on the
\* REAL listener state": isHttpRunning is not that.  The code does not ensure it.
EndedHasNoListener == Settled /\ Ended => open = {}

\* The process exits because the port is taken only after such a start: however
\* starts, stops and transitions interleave, isHttpRunning keeps every other one
\* from binding a port that is still bound.
ExitsOnlyDesynced == exited => desynced

\* The subsystems' state is derived from the session: while transitions are
\* handled one at a time, the startup state and the pause follow it.  When they
\* overlap neither need: a login whose handler writes READY after the session
\* has ended leaves it READY.
DerivedInOrder ==
  Settled /\ ~ overlapped =>
    /\ snapshot.state = "active" => startup = "ready" /\ ~ paused
    /\ Ended => startup = "unconfigured" /\ ~ paused

\* "->Active: ... if we paused the proxy for SoftExpired, resume it": a proxy
\* paused for a soft expiry is not left paused under an active session.  A
\* recovery that overtakes the pause of its soft expiry does leave it so.
ActiveIsResumed == Settled /\ snapshot.state = "active" => ~ paused
===============================================================================
