--------------------------- MODULE SessionAuthority ---------------------------
(***************************************************************************)
(* processor/auth/session_authority.go: the process-wide authentication    *)
(* snapshot, the registry of operations in progress, and the proxy leases. *)
(*                                                                         *)
(* Everything a method does between mu.Lock and mu.Unlock is one step.     *)
(* What it does after Unlock (finishSessionTransition: the closers of the  *)
(* flows it revoked, then the listeners, in order) is a record in          *)
(* `transitions', worked off one callback at a time while other goroutines *)
(* run.  Callbacks of different transitions therefore interleave freely,   *)
(* as they do in the code.                                                 *)
(*                                                                         *)
(* An operator named X_Fault, placed before X, is X with a fault a change   *)
(* to the code could introduce; the property it breaks is shown to depend  *)
(* on X.  No specification uses it.                                        *)
(*                                                                         *)
(* Ids that a counter hands out (nextOperation, nextProxyFlow) are members *)
(* of Ops and Flows, each used once.  Reasons are omitted: nothing here    *)
(* depends on them.                                                        *)
(***************************************************************************)
EXTENDS Naturals, FiniteSets

CONSTANTS Ops,           \* authentication operations (keys of `operations')
          Flows,         \* proxy flows (keys of `proxyFlows')
          Users,         \* account snapshots a login, refresh or restore yields
          NoUser,        \* a nil *UserInfo
          NumListeners,  \* listeners subscribed at package initialisation
          MaxRevision    \* bound: transitions stop at this revision

ASSUME ConstantsAssumption ==
  /\ IsFiniteSet(Flows)
  /\ NoUser \notin Users
  /\ NumListeners \in Nat
  /\ MaxRevision \in Nat

VARIABLES
  snapshot,     \* the immutable record behind the atomic pointer
  operations,   \* ids in the operations map
  captured,     \* SessionOperation.generation of each handle
  phase,        \* how far the goroutine that holds the handle has come
  published,    \* generation its commit returned, 0 if it did not commit
  proxyFlows,   \* ids in the proxyFlows map
  flow,         \* the goroutine serving each flow
  closed,       \* flows whose close callback a transition has called
  transitions,  \* transitions published whose callbacks are not all done
  forcedProxyFlowCloses

vars == <<snapshot, operations, captured, phase, published, proxyFlows, flow,
          closed, transitions, forcedProxyFlowCloses>>

opVars   == <<operations, captured, phase, published>>
flowVars == <<proxyFlows, flow, closed>>

States == {"restoring", "unauthenticated", "active", "soft_expired", "hard_invalid"}
Phases == {"unused", "running", "committed", "closing", "closed"}
FlowPhases == {"idle", "serving", "rejected", "released"}

SnapshotType == [revision : Nat, generation : Nat, state : States,
                 user : Users \cup {NoUser}]
TransitionType == [event : SnapshotType, closers : SUBSET Flows, called : 0..NumListeners]

TypeOK ==
  /\ snapshot \in SnapshotType
  /\ snapshot.user # NoUser <=> snapshot.state \in {"active", "soft_expired"}
  /\ operations \subseteq Ops
  /\ captured \in [Ops -> Nat]
  /\ phase \in [Ops -> Phases]
  /\ published \in [Ops -> Nat]
  /\ proxyFlows \subseteq Flows
  /\ flow \in [Flows -> FlowPhases]
  /\ closed \subseteq Flows
  /\ transitions \subseteq TransitionType
  /\ forcedProxyFlowCloses \in Nat

Init ==
  /\ snapshot = [revision |-> 1, generation |-> 1, state |-> "restoring", user |-> NoUser]
  /\ operations = {}
  /\ captured = [o \in Ops |-> 0]
  /\ phase = [o \in Ops |-> "unused"]
  /\ published = [o \in Ops |-> 0]
  /\ proxyFlows = {}
  /\ flow = [f \in Flows |-> "idle"]
  /\ closed = {}
  /\ transitions = {}
  /\ forcedProxyFlowCloses = 0

-------------------------------------------------------------------------------
(* publishLocked. *)

Demotes(to) == snapshot.state = "active" /\ to # "active"

\* The closers and listeners of a transition that remain to be called.
Owed(t) == t.closers # {} \/ t.called < NumListeners

Add(t) == {u \in {t} : Owed(u)}

\* Flows whose closers a demotion hands to finishSessionTransition.
FlowsTaken(to) == IF Demotes(to) THEN proxyFlows ELSE {}

FlowsKept_NotDeleted(to) == proxyFlows
FlowsKept(to) == proxyFlows \ FlowsTaken(to)

FlowsCounted(to) == Cardinality(FlowsTaken(to))

\* cancelOperationsLocked: every caller passes invalidateOperations = true.
OperationsKept_All == operations
OperationsKept == {}

Publish(to, user) ==
  /\ snapshot.revision < MaxRevision
  /\ snapshot' = [revision |-> snapshot.revision + 1,
                  generation |-> snapshot.generation + 1,
                  state |-> to, user |-> user]
  /\ operations' = OperationsKept
  /\ proxyFlows' = FlowsKept(to)
  /\ forcedProxyFlowCloses' = forcedProxyFlowCloses + FlowsCounted(to)
  /\ transitions' = transitions \cup
       Add([event |-> snapshot', closers |-> FlowsTaken(to), called |-> 0])
  /\ UNCHANGED <<captured, flow, closed>>

-------------------------------------------------------------------------------
(* Operations. *)

BeginOperation(o) ==
  /\ phase[o] = "unused"
  /\ phase' = [phase EXCEPT ![o] = "running"]
  /\ operations' = operations \cup {o}
  /\ captured' = [captured EXCEPT ![o] = snapshot.generation]
  /\ UNCHANGED <<snapshot, published, flowVars, transitions, forcedProxyFlowCloses>>

OperationCurrent_NotInvalidated(o) == captured[o] <= snapshot.generation
OperationCurrent(o) ==
  o \in operations /\ captured[o] = snapshot.generation

\* Close: finishOperation forgets the id if a transition has not done so.
CloseOperation(o) ==
  /\ phase[o] \in {"running", "closing"}
  /\ phase' = [phase EXCEPT ![o] = "closed"]
  /\ operations' = operations \ {o}
  /\ UNCHANGED <<snapshot, captured, published, flowVars, transitions, forcedProxyFlowCloses>>

\* CommitAuthenticatedSnapshot, CommitSoftExpired and CommitUnauthenticated
\* differ in the state they publish and the user it carries.
CommitOperation(o, to, user) ==
  /\ phase[o] = "running"
  /\ OperationCurrent(o)
  /\ Publish(to, user)
  /\ phase' = [phase EXCEPT ![o] = "committed"]
  /\ published' = [published EXCEPT ![o] = snapshot.generation + 1]

CommitAuthenticatedSnapshot(o) == \E u \in Users : CommitOperation(o, "active", u)
CommitSoftExpired(o)           == \E u \in Users : CommitOperation(o, "soft_expired", u)
CommitUnauthenticated(o)       == CommitOperation(o, "unauthenticated", NoUser)

\* A commit that publishes nothing: the operation is stale, or the persist
\* callback of CommitAuthenticatedSnapshot returned an error.
CommitFails(o) ==
  /\ phase[o] = "running"
  /\ phase' = [phase EXCEPT ![o] = "closing"]
  /\ UNCHANGED <<snapshot, operations, captured, published, flowVars, transitions,
                 forcedProxyFlowCloses>>

\* The goroutine that committed has left finishSessionTransition.
Returned(o) == \A t \in transitions : t.event.generation # published[o]

GenerationActive(g) == snapshot.generation = g /\ snapshot.state = "active"

\* What the committing goroutine does with the generation it published:
\* RunIfGenerationActive(snapshot.Generation, startTokenRefresh).  What the
\* callback does if GenerationActive(published[o]) is in SessionLifecycle.
RunIfGenerationActive(o) ==
  /\ phase[o] = "committed"
  /\ Returned(o)
  /\ phase' = [phase EXCEPT ![o] = "closing"]
  /\ UNCHANGED <<snapshot, operations, captured, published, flowVars, transitions,
                 forcedProxyFlowCloses>>

-------------------------------------------------------------------------------
(* Transitions that no operation guards. *)

PublishAuthenticated ==
  \E u \in Users : Publish("active", u) /\ UNCHANGED <<phase, published>>

NotifyAccessRejected_FromAnyState ==
  \E u \in Users : Publish("soft_expired", u) /\ UNCHANGED <<phase, published>>

NotifyAccessRejected ==
  /\ snapshot.state = "active"
  /\ Publish("soft_expired", snapshot.user)
  /\ UNCHANGED <<phase, published>>

ForceTerminal_KeepsUser(to) ==
  /\ Publish(to, snapshot.user)
  /\ UNCHANGED <<phase, published>>

ForceTerminal(to) ==
  /\ Publish(to, NoUser)
  /\ UNCHANGED <<phase, published>>

NotifyRefreshFailed == ForceTerminal("hard_invalid")
NotifyLoggedOut     == ForceTerminal("unauthenticated")

-------------------------------------------------------------------------------
(* Proxy leases. *)

AcquireProxyLease_Unchecked(f) ==
  /\ flow[f] = "idle"
  /\ proxyFlows' = proxyFlows \cup {f}
  /\ flow' = [flow EXCEPT ![f] = "serving"]
  /\ UNCHANGED <<snapshot, opVars, closed, transitions, forcedProxyFlowCloses>>

AcquireProxyLease(f) ==
  /\ flow[f] = "idle"
  /\ IF snapshot.state = "active"
       THEN /\ proxyFlows' = proxyFlows \cup {f}
            /\ flow' = [flow EXCEPT ![f] = "serving"]
       ELSE /\ flow' = [flow EXCEPT ![f] = "rejected"]
            /\ UNCHANGED proxyFlows
  /\ UNCHANGED <<snapshot, opVars, closed, transitions, forcedProxyFlowCloses>>

\* The goroutine that serves the flow ends, by itself or because its
\* connection was closed under it, and its deferred Release runs.
ReleaseProxyLease(f) ==
  /\ flow[f] = "serving"
  /\ flow' = [flow EXCEPT ![f] = "released"]
  /\ proxyFlows' = proxyFlows \ {f}
  /\ UNCHANGED <<snapshot, opVars, closed, transitions, forcedProxyFlowCloses>>

-------------------------------------------------------------------------------
(* finishSessionTransition: closers first, then the listeners in order. *)

CloseFlow_PanicSkipsRest(t, f) ==
  /\ f \in t.closers
  /\ closed' = closed \cup {f}
  /\ transitions' = (transitions \ {t}) \cup Add([t EXCEPT !.closers = {}])
  /\ UNCHANGED <<snapshot, opVars, proxyFlows, flow, forcedProxyFlowCloses>>

CloseFlow_NotCalled(t, f) ==
  /\ f \in t.closers
  /\ transitions' = (transitions \ {t}) \cup Add([t EXCEPT !.closers = @ \ {f}])
  /\ UNCHANGED <<snapshot, opVars, flowVars, forcedProxyFlowCloses>>

CloseFlow(t, f) ==
  /\ f \in t.closers
  /\ closed' = closed \cup {f}
  /\ transitions' = (transitions \ {t}) \cup Add([t EXCEPT !.closers = @ \ {f}])
  /\ UNCHANGED <<snapshot, opVars, proxyFlows, flow, forcedProxyFlowCloses>>

\* Listener number t.called + 1 runs; a panic in it is recovered.
CallListener(t) ==
  /\ t.closers = {}
  /\ t.called < NumListeners
  /\ transitions' = (transitions \ {t}) \cup Add([t EXCEPT !.called = @ + 1])
  /\ UNCHANGED <<snapshot, opVars, flowVars, forcedProxyFlowCloses>>

FinishTransition(t) == (\E f \in Flows : CloseFlow(t, f)) \/ CallListener(t)

-------------------------------------------------------------------------------
OperationStep(o) ==
  \/ BeginOperation(o)
  \/ CommitAuthenticatedSnapshot(o)
  \/ CommitSoftExpired(o)
  \/ CommitUnauthenticated(o)
  \/ CommitFails(o)
  \/ RunIfGenerationActive(o)
  \/ CloseOperation(o)

Next ==
  \/ \E o \in Ops : OperationStep(o)
  \/ PublishAuthenticated
  \/ NotifyAccessRejected
  \/ NotifyRefreshFailed
  \/ NotifyLoggedOut
  \/ \E f \in Flows : AcquireProxyLease(f) \/ ReleaseProxyLease(f)
  \/ \E t \in transitions : FinishTransition(t)

\* A goroutine inside finishSessionTransition runs on: closers and listeners
\* return.  Nothing makes operations, flows or rejections happen.
CloseRevoked(f) == \E t \in transitions : CloseFlow(t, f)

Fairness == \A f \in Flows : WF_vars(CloseRevoked(f))

SafetySpec == Init /\ [][Next]_vars

Spec == SafetySpec /\ Fairness

-------------------------------------------------------------------------------
(* Properties. *)

Pending == UNION {t.closers : t \in transitions}

\* Leases exist only under an active session: whatever the interleaving of
\* admissions and demotions, no demotion leaves a lease behind
\* (AcquireProxyLease and publishLocked are serialised by mu).
LeasesOnlyWhileActive == proxyFlows # {} => snapshot.state = "active"

\* "either the flow is registered and subsequently closed by demotion, or
\* admission is rejected" (the comment on ProxyLease): a connection that is
\* still being served is in the registry, so that a demotion will find it, or
\* in the hands of the demotion that took it out.
NoFlowEscapes ==
  \A f \in Flows : flow[f] = "serving" /\ f \notin closed =>
    f \in proxyFlows \/ f \in Pending

\* No close callback is owed by two transitions, owed while the flow is still
\* registered, or owed again after it was called: each runs at most once.
ClosedAtMostOnce ==
  /\ \A t1, t2 \in transitions : t1 # t2 => t1.closers \cap t2.closers = {}
  /\ Pending \cap (proxyFlows \cup closed) = {}
  /\ proxyFlows \cap closed = {}

\* forcedProxyFlowCloses counts exactly the flows that demotions took.
ForcedCountIsExact == forcedProxyFlowCloses = Cardinality(closed \cup Pending)

\* An operation that committed did so on the very snapshot it began under: no
\* transition, and so no logout, wipe or rival commit, came in between, and
\* operations that captured the same generation commit at most once between
\* them ("prevents an old restore/refresh/login response from reviving a
\* session after logout or permanent invalidation").
CommitsAreExclusive ==
  \A o \in Ops : published[o] # 0 =>
    /\ published[o] = captured[o] + 1
    /\ \A p \in Ops \ {o} : published[p] # published[o]

\* A registered operation is never stale: the map lookup and the generation
\* comparison in operationCurrentLocked agree, so OperationCurrent answers
\* "may I commit" exactly.
RegisteredIsCurrent ==
  \A o \in operations : phase[o] \in {"running", "closing"} /\ captured[o] = snapshot.generation

\* A flow that outlives the active session is cut off (or ends by itself).
RevokedFlowsAreCut ==
  \A f \in Flows :
    (snapshot.state # "active" /\ flow[f] = "serving" /\ f \notin closed)
      ~> (f \in closed \/ flow[f] = "released")

\* The authority implements SessionGate.
Gate == INSTANCE SessionGate WITH
          state    <- snapshot.state,
          valid    <- {o \in operations : captured[o] = snapshot.generation /\ phase[o] = "running"},
          admitted <- proxyFlows,
          revoked  <- Pending

ImplementsGate == Gate!GateSpec
===============================================================================
