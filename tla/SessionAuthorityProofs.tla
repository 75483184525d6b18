------------------------ MODULE SessionAuthorityProofs ------------------------
(***************************************************************************)
(* What SessionAuthority guarantees for any number of operations, flows,   *)
(* listeners and transitions.                                              *)
(*                                                                         *)
(* The invariants the runs check are not inductive one by one: that no     *)
(* close callback is owed twice needs that owed flows are out of the       *)
(* registry, that commits are exclusive needs that no generation published *)
(* so far lies ahead of the snapshot.  IInv joins them with what they need.*)
(***************************************************************************)
EXTENDS SessionAuthority, FiniteSetTheorems, TLAPS

\* The handles' generations never run ahead of the snapshot, and only an
\* operation that committed has a published one.
HandlesInv ==
  \A o \in Ops :
    /\ captured[o] <= snapshot.generation
    /\ published[o] <= snapshot.generation
    /\ phase[o] \in {"unused", "running"} => published[o] = 0

\* Flows in the registry are being served; flows handed to a demotion were.
FlowsInv ==
  /\ \A f \in proxyFlows : flow[f] = "serving"
  /\ \A f \in Pending \cup closed : flow[f] \in {"serving", "released"}

OpSide == HandlesInv /\ RegisteredIsCurrent /\ CommitsAreExclusive

FlowSide ==
  /\ LeasesOnlyWhileActive
  /\ FlowsInv
  /\ ClosedAtMostOnce
  /\ NoFlowEscapes
  /\ ForcedCountIsExact

IInv == TypeOK /\ OpSide /\ FlowSide

-------------------------------------------------------------------------------
(* What the steps do to the set of close callbacks that are still owed. *)

\* A transition owes what it took out of the registry.
LEMMA PendingAfterPublish ==
  ASSUME NEW to, NEW user, Publish(to, user)
  PROVE  /\ Pending' = Pending \cup FlowsTaken(to)
         /\ \E r : /\ r = [event |-> snapshot', closers |-> FlowsTaken(to), called |-> 0]
                  /\ transitions' = transitions \cup Add(r)
<1>1. PICK r : /\ r = [event |-> snapshot', closers |-> FlowsTaken(to), called |-> 0]
               /\ transitions' = transitions \cup Add(r)
  BY DEF Publish
<1>2. r.closers = FlowsTaken(to)
  BY <1>1
<1>3. \A x \in Add(r) : x = r
  BY DEF Add
<1>4. r.closers # {} => r \in Add(r)
  BY DEF Add, Owed
<1>5. Pending' = UNION {x.closers : x \in transitions'}
  BY DEF Pending
<1>6. ASSUME NEW g PROVE g \in Pending' <=> g \in Pending \cup FlowsTaken(to)
  <2>1. g \in Pending' <=> \E x \in transitions' : g \in x.closers
    BY <1>5
  <2>2. g \in Pending <=> \E x \in transitions : g \in x.closers
    BY DEF Pending
  <2> QED
    BY <2>1, <2>2, <1>1, <1>2, <1>3, <1>4
<1> QED
  BY <1>1, <1>6

\* A close callback that ran is owed no longer, because only one transition
\* owed it.
LEMMA PendingAfterClose ==
  ASSUME NEW t \in transitions, NEW f \in Flows, CloseFlow(t, f), TypeOK,
         ClosedAtMostOnce
  PROVE  Pending' = Pending \ {f}
<1> DEFINE u == [t EXCEPT !.closers = @ \ {f}]
<1>1. t \in TransitionType
  BY DEF TypeOK
<1>2. u.closers = t.closers \ {f} /\ u.called = t.called
  BY <1>1 DEF TransitionType
<1>3. transitions' = (transitions \ {t}) \cup Add(u)
  BY DEF CloseFlow
<1>4. \A x \in Add(u) : x = u
  BY DEF Add
<1>5. u.closers # {} => u \in Add(u)
  BY DEF Add, Owed
<1>6. f \in t.closers
  BY DEF CloseFlow
<1>7. \A x \in transitions \ {t} : f \notin x.closers
  BY <1>6 DEF ClosedAtMostOnce
<1> HIDE DEF u
<1>8. Pending' = UNION {x.closers : x \in transitions'}
  BY DEF Pending
<1>9. ASSUME NEW g PROVE g \in Pending' <=> g \in Pending \ {f}
  <2>1. CASE g \in Pending'
    <3>1. PICK x \in transitions' : g \in x.closers
      BY <2>1, <1>8
    <3>2. CASE x \in transitions \ {t}
      BY <3>1, <3>2, <1>7 DEF Pending
    <3>3. CASE x = u
      BY <3>1, <3>3, <1>2 DEF Pending
    <3> QED
      BY <3>1, <3>2, <3>3, <1>3, <1>4
  <2>2. CASE g \in Pending \ {f}
    <3>1. PICK x \in transitions : g \in x.closers
      BY <2>2 DEF Pending
    <3>2. CASE x = t
      BY <3>1, <3>2, <2>2, <1>2, <1>3, <1>5, <1>8
    <3>3. CASE x # t
      BY <2>2, <3>1, <3>3, <1>3, <1>8
    <3> QED
      BY <3>2, <3>3
  <2> QED
    BY <2>1, <2>2
<1> QED
  BY <1>9

\* Listeners are called only when no close callback of the transition is owed.
LEMMA PendingAfterCall ==
  ASSUME NEW t \in transitions, CallListener(t), TypeOK
  PROVE  Pending' = Pending
<1> DEFINE u == [t EXCEPT !.called = @ + 1]
<1>1. t.closers = {} /\ u.closers = {}
  BY DEF CallListener, TypeOK, TransitionType
<1>2. transitions' = (transitions \ {t}) \cup Add(u)
  BY DEF CallListener
<1>3. \A x \in Add(u) : x = u
  BY DEF Add
<1> QED
  <2>1. ASSUME NEW g PROVE g \in Pending' <=> g \in Pending
    <3>1. g \in Pending' <=> \E x \in transitions' : g \in x.closers
      BY DEF Pending
    <3>2. g \in Pending <=> \E x \in transitions : g \in x.closers
      BY DEF Pending
    <3> QED
      BY <3>1, <3>2, <1>1, <1>2, <1>3
  <2> QED
    BY <2>1

-------------------------------------------------------------------------------
(* Publishing a transition. *)

\* A demotion takes finitely many flows.
LEMMA TakenIsFinite ==
  ASSUME TypeOK, NEW to
  PROVE  /\ FlowsTaken(to) \in SUBSET Flows
         /\ IsFiniteSet(FlowsTaken(to))
         /\ FlowsCounted(to) \in Nat
<1>1. FlowsTaken(to) \subseteq Flows
  BY DEF FlowsTaken, TypeOK
<1>2. IsFiniteSet(FlowsTaken(to))
  BY <1>1, FS_Subset, ConstantsAssumption
<1> QED
  BY <1>1, <1>2, FS_CardinalityType DEF FlowsCounted

\* Whoever publishes, a well-typed snapshot and transition come out, the
\* generation moves by one and no operation stays registered.
LEMMA PublishKeepsTypes ==
  ASSUME TypeOK, NEW to \in States, NEW user \in Users \cup {NoUser},
         user # NoUser <=> to \in {"active", "soft_expired"},
         Publish(to, user),
         phase' \in [Ops -> Phases], published' \in [Ops -> Nat]
  PROVE  /\ TypeOK'
         /\ snapshot'.generation = snapshot.generation + 1
         /\ snapshot'.state = to
         /\ operations' = {}
         /\ captured' = captured
<1>1. /\ snapshot' \in SnapshotType
      /\ snapshot'.generation = snapshot.generation + 1
      /\ snapshot'.state = to
      /\ snapshot'.user = user
  BY DEF Publish, TypeOK, SnapshotType
<1>2. operations' = {} /\ captured' = captured /\ flow' = flow /\ closed' = closed
  BY DEF Publish, OperationsKept
<1>3. forcedProxyFlowCloses' \in Nat
  BY TakenIsFinite DEF Publish, TypeOK
<1>4. proxyFlows' \subseteq Flows
  BY DEF Publish, FlowsKept, TypeOK
<1>5. transitions' \subseteq TransitionType
  <2>1. PICK r : /\ r = [event |-> snapshot', closers |-> FlowsTaken(to), called |-> 0]
                 /\ transitions' = transitions \cup Add(r)
    BY PendingAfterPublish
  <2>2. r \in TransitionType
    BY <2>1, <1>1, TakenIsFinite, ConstantsAssumption DEF TransitionType
  <2> QED
    BY <2>1, <2>2 DEF Add, TypeOK
<1> QED
  BY <1>1, <1>2, <1>3, <1>4, <1>5 DEF TypeOK

\* A demotion moves the registered flows to the ones owed a close; any other
\* transition leaves the leases alone.
LEMMA PublishKeepsFlowSide ==
  ASSUME TypeOK, FlowSide, NEW to \in States, NEW user,
         Publish(to, user)
  PROVE  FlowSide'
<1>1. Pending' = Pending \cup FlowsTaken(to)
  BY PendingAfterPublish
<1>2. /\ proxyFlows' = proxyFlows \ FlowsTaken(to)
      /\ flow' = flow
      /\ closed' = closed
      /\ snapshot'.state = to
  BY DEF Publish, FlowsKept
<1>3. FlowsTaken(to) \subseteq proxyFlows
  BY DEF FlowsTaken
<1>4. proxyFlows \cap (Pending \cup closed) = {}
  BY DEF FlowSide, ClosedAtMostOnce
<1>5. LeasesOnlyWhileActive'
  BY <1>2 DEF FlowSide, LeasesOnlyWhileActive, FlowsTaken, Demotes
<1>6. FlowsInv'
  BY <1>1, <1>2, <1>3 DEF FlowSide, FlowsInv
<1>7. ClosedAtMostOnce'
  <2>1. PICK r : /\ r = [event |-> snapshot', closers |-> FlowsTaken(to), called |-> 0]
                 /\ transitions' = transitions \cup Add(r)
    BY PendingAfterPublish
  <2>2. r.closers = FlowsTaken(to)
    BY <2>1
  <2>3. \A x \in transitions : x.closers \cap FlowsTaken(to) = {}
    BY <1>3, <1>4 DEF Pending
  <2>4. \A x \in Add(r) : x = r
    BY DEF Add
  <2>5. \A t1, t2 \in transitions' : t1 # t2 => t1.closers \cap t2.closers = {}
    BY <2>1, <2>2, <2>3, <2>4 DEF FlowSide, ClosedAtMostOnce
  <2> QED
    BY <2>5, <1>1, <1>2, <1>3, <1>4 DEF FlowSide, ClosedAtMostOnce
<1>8. NoFlowEscapes'
  BY <1>1, <1>2 DEF FlowSide, NoFlowEscapes
<1>9. ForcedCountIsExact'
  <2>1. (closed \cup Pending)' = (closed \cup Pending) \cup FlowsTaken(to)
    BY <1>1, <1>2
  <2>2. (closed \cup Pending) \cap FlowsTaken(to) = {}
    BY <1>3, <1>4
  <2>3. closed \cup Pending \subseteq Flows
    BY DEF TypeOK, Pending, TransitionType
  <2>4. IsFiniteSet(closed \cup Pending) /\ IsFiniteSet(FlowsTaken(to))
    BY <2>3, FS_Subset, ConstantsAssumption, TakenIsFinite
  <2>5. Cardinality((closed \cup Pending) \cup FlowsTaken(to))
          = Cardinality(closed \cup Pending) + Cardinality(FlowsTaken(to))
    <3>1. Cardinality((closed \cup Pending) \cap FlowsTaken(to)) = 0
      BY <2>2, FS_EmptySet
    <3>2. /\ Cardinality(closed \cup Pending) \in Nat
          /\ Cardinality(FlowsTaken(to)) \in Nat
      BY <2>4, FS_CardinalityType
    <3>3. Cardinality((closed \cup Pending) \cup FlowsTaken(to))
            = Cardinality(closed \cup Pending) + Cardinality(FlowsTaken(to))
              - Cardinality((closed \cup Pending) \cap FlowsTaken(to))
      BY <2>4, FS_Union
    <3> QED
      BY <3>1, <3>2, <3>3
  <2>6. forcedProxyFlowCloses' = forcedProxyFlowCloses + Cardinality(FlowsTaken(to))
    BY DEF Publish, FlowsCounted
  <2> QED
    BY <2>1, <2>5, <2>6 DEF FlowSide, ForcedCountIsExact
<1> QED
  BY <1>5, <1>6, <1>7, <1>8, <1>9 DEF FlowSide

-------------------------------------------------------------------------------
(* The other steps, one lemma for each side of the state they can disturb. *)

\* A commit stamps its handle with a generation no other handle carries; a
\* forced transition stamps none.  Both leave the registry empty.
LEMMA PublishKeepsOpSide ==
  ASSUME TypeOK, OpSide, TypeOK',
         snapshot'.generation = snapshot.generation + 1,
         operations' = {}, captured' = captured,
         \/ UNCHANGED <<phase, published>>
         \/ \E o \in Ops : /\ phase[o] = "running" /\ OperationCurrent(o)
                           /\ phase' = [phase EXCEPT ![o] = "committed"]
                           /\ published' = [published EXCEPT ![o] = snapshot.generation + 1]
  PROVE  OpSide'
<1>1. snapshot.generation \in Nat
  BY DEF TypeOK, SnapshotType
<1>2. \A o \in Ops : captured[o] \in Nat /\ published[o] \in Nat
  BY DEF TypeOK
<1>3. RegisteredIsCurrent'
  BY DEF RegisteredIsCurrent
<1>4. CASE UNCHANGED <<phase, published>>
  <2>1. HandlesInv'
    BY <1>1, <1>2, <1>4 DEF OpSide, HandlesInv
  <2>2. CommitsAreExclusive'
    BY <1>4 DEF OpSide, CommitsAreExclusive
  <2> QED
    BY <1>3, <2>1, <2>2 DEF OpSide
<1>5. CASE \E o \in Ops : /\ phase[o] = "running" /\ OperationCurrent(o)
                          /\ phase' = [phase EXCEPT ![o] = "committed"]
                          /\ published' = [published EXCEPT ![o] = snapshot.generation + 1]
  <2> PICK o \in Ops : /\ phase[o] = "running" /\ OperationCurrent(o)
                       /\ phase' = [phase EXCEPT ![o] = "committed"]
                       /\ published' = [published EXCEPT ![o] = snapshot.generation + 1]
    BY <1>5
  <2>1. captured[o] = snapshot.generation
    BY DEF OperationCurrent
  <2>2. /\ published'[o] = snapshot.generation + 1
        /\ phase'[o] = "committed"
        /\ \A p \in Ops \ {o} : published'[p] = published[p] /\ phase'[p] = phase[p]
    BY DEF TypeOK
  <2>3. HandlesInv'
    BY <1>1, <1>2, <2>2 DEF OpSide, HandlesInv
  <2>4. CommitsAreExclusive'
    <3>1. \A p \in Ops : published[p] < snapshot.generation + 1
      BY <1>1, <1>2 DEF OpSide, HandlesInv
    <3> QED
      BY <3>1, <1>1, <1>2, <2>1, <2>2 DEF OpSide, CommitsAreExclusive
  <2> QED
    BY <1>3, <2>3, <2>4 DEF OpSide
<1> QED
  BY <1>4, <1>5

\* The steps of an operation that publish nothing.
LEMMA OperationKeepsIInv ==
  ASSUME IInv, NEW o \in Ops,
         BeginOperation(o) \/ CommitFails(o) \/ RunIfGenerationActive(o) \/ CloseOperation(o)
  PROVE  IInv'
<1> USE DEF IInv
<1>1. UNCHANGED <<snapshot, proxyFlows, flow, closed, transitions, forcedProxyFlowCloses>>
  BY DEF BeginOperation, CommitFails, RunIfGenerationActive, CloseOperation, flowVars
<1>2. FlowSide'
  BY <1>1 DEF FlowSide, LeasesOnlyWhileActive, FlowsInv, ClosedAtMostOnce,
              NoFlowEscapes, ForcedCountIsExact, Pending
<1>3. snapshot.generation \in Nat
  BY DEF TypeOK, SnapshotType
<1>4. CASE BeginOperation(o)
  <2>1. TypeOK'
    BY <1>1, <1>3, <1>4 DEF BeginOperation, TypeOK, Phases
  <2>2. published[o] = 0
    BY <1>4 DEF BeginOperation, OpSide, HandlesInv
  <2>3. OpSide'
    BY <1>1, <1>3, <1>4, <2>2
       DEF BeginOperation, TypeOK, OpSide, HandlesInv, RegisteredIsCurrent,
           CommitsAreExclusive
  <2> QED
    BY <1>2, <2>1, <2>3
<1>5. CASE CommitFails(o) \/ RunIfGenerationActive(o) \/ CloseOperation(o)
  <2>1. /\ UNCHANGED <<captured, published>>
        /\ operations' \subseteq operations
        /\ phase' \in [Ops -> Phases]
    BY <1>5 DEF CommitFails, RunIfGenerationActive, CloseOperation, TypeOK, Phases
  <2>2. TypeOK'
    BY <1>1, <2>1 DEF TypeOK
  <2>3. /\ \A p \in Ops : phase'[p] \in {"unused", "running"} => phase[p] \in {"unused", "running"}
        /\ \A p \in operations' : phase'[p] \in {"running", "closing"}
    BY <1>5
       DEF CommitFails, RunIfGenerationActive, CloseOperation, TypeOK, OpSide,
           RegisteredIsCurrent
  <2>4. OpSide'
    BY <1>1, <2>1, <2>3
       DEF OpSide, HandlesInv, RegisteredIsCurrent, CommitsAreExclusive
  <2> QED
    BY <1>2, <2>2, <2>4
<1> QED
  BY <1>4, <1>5

\* Admission, release and the callbacks of a transition touch no operation.
LEMMA FlowStepKeepsIInv ==
  ASSUME IInv,
         \/ \E f \in Flows : AcquireProxyLease(f) \/ ReleaseProxyLease(f)
         \/ \E t \in transitions : FinishTransition(t)
  PROVE  IInv'
<1> USE DEF IInv
<1>1. UNCHANGED <<snapshot, operations, captured, phase, published>>
  BY DEF AcquireProxyLease, ReleaseProxyLease, FinishTransition, CloseFlow,
         CallListener, opVars
<1>2. OpSide'
  BY <1>1 DEF OpSide, HandlesInv, RegisteredIsCurrent, CommitsAreExclusive
<1>0. Pending \cup closed \cup proxyFlows \subseteq Flows
  BY DEF TypeOK, Pending, TransitionType
<1>3. ASSUME NEW f \in Flows, AcquireProxyLease(f)
      PROVE  IInv'
  <2>1. TypeOK'
    BY <1>1, <1>3 DEF AcquireProxyLease, TypeOK, FlowPhases
  <2>2. UNCHANGED <<closed, transitions, forcedProxyFlowCloses, Pending>>
    BY <1>3 DEF AcquireProxyLease, Pending
  <2>3. f \notin Pending \cup closed \cup proxyFlows
    BY <1>3 DEF AcquireProxyLease, FlowSide, FlowsInv
  <2>4. LeasesOnlyWhileActive' /\ FlowsInv' /\ NoFlowEscapes'
    BY <1>0, <1>1, <1>3, <2>2, <2>3
       DEF AcquireProxyLease, FlowSide, LeasesOnlyWhileActive, FlowsInv,
           NoFlowEscapes, TypeOK
  <2>5. ClosedAtMostOnce' /\ ForcedCountIsExact'
    BY <1>3, <2>2, <2>3
       DEF AcquireProxyLease, FlowSide, ClosedAtMostOnce, ForcedCountIsExact
  <2> QED
    BY <1>2, <2>1, <2>4, <2>5 DEF FlowSide
<1>4. ASSUME NEW f \in Flows, ReleaseProxyLease(f)
      PROVE  IInv'
  <2>1. TypeOK'
    BY <1>1, <1>4 DEF ReleaseProxyLease, TypeOK, FlowPhases
  <2>2. UNCHANGED <<closed, transitions, forcedProxyFlowCloses, Pending>>
    BY <1>4 DEF ReleaseProxyLease, Pending
  <2>3. LeasesOnlyWhileActive' /\ FlowsInv' /\ NoFlowEscapes'
    BY <1>0, <1>1, <1>4, <2>2
       DEF ReleaseProxyLease, FlowSide, LeasesOnlyWhileActive, FlowsInv,
           NoFlowEscapes, TypeOK
  <2>4. ClosedAtMostOnce' /\ ForcedCountIsExact'
    BY <1>4, <2>2
       DEF ReleaseProxyLease, FlowSide, ClosedAtMostOnce, ForcedCountIsExact
  <2> QED
    BY <1>2, <2>1, <2>3, <2>4 DEF FlowSide
<1>5. ASSUME NEW t \in transitions, NEW f \in Flows, CloseFlow(t, f)
      PROVE  IInv'
  <2>1. Pending' = Pending \ {f}
    BY <1>5, PendingAfterClose DEF FlowSide
  <2>2. /\ f \in Pending
        /\ closed' = closed \cup {f}
        /\ UNCHANGED <<proxyFlows, flow, forcedProxyFlowCloses>>
    BY <1>5 DEF CloseFlow, Pending
  <2>3. PICK u : /\ u = [t EXCEPT !.closers = @ \ {f}]
                 /\ transitions' = (transitions \ {t}) \cup Add(u)
    BY <1>5 DEF CloseFlow
  <2>4. u \in TransitionType /\ u.closers = t.closers \ {f}
    BY <2>3 DEF TypeOK, TransitionType
  <2>5. \A x \in Add(u) : x = u
    BY DEF Add
  <2>6. TypeOK'
    BY <1>1, <2>2, <2>3, <2>4, <2>5 DEF TypeOK
  <2>7. ClosedAtMostOnce'
    <3>1. \A t1, t2 \in transitions' : t1 # t2 => t1.closers \cap t2.closers = {}
      BY <2>3, <2>4, <2>5 DEF FlowSide, ClosedAtMostOnce
    <3> QED
      BY <3>1, <2>1, <2>2 DEF FlowSide, ClosedAtMostOnce
  <2>8. LeasesOnlyWhileActive' /\ FlowsInv' /\ NoFlowEscapes'
    BY <1>1, <2>1, <2>2
       DEF FlowSide, LeasesOnlyWhileActive, FlowsInv, NoFlowEscapes
  <2>9. ForcedCountIsExact'
    <3>1. (closed \cup Pending)' = closed \cup Pending
      BY <2>1, <2>2
    <3> QED
      BY <3>1, <2>2 DEF FlowSide, ForcedCountIsExact
  <2> QED
    BY <1>2, <2>6, <2>7, <2>8, <2>9 DEF FlowSide
<1>6. ASSUME NEW t \in transitions, CallListener(t)
      PROVE  IInv'
  <2>1. Pending' = Pending
    BY <1>6, PendingAfterCall
  <2>2. UNCHANGED <<proxyFlows, flow, closed, forcedProxyFlowCloses>>
    BY <1>6 DEF CallListener, flowVars
  <2>3. PICK u : /\ u = [t EXCEPT !.called = @ + 1]
                 /\ transitions' = (transitions \ {t}) \cup Add(u)
    BY <1>6 DEF CallListener
  <2>4. u \in TransitionType /\ u.closers = {}
    BY <1>6, <2>3, ConstantsAssumption DEF CallListener, TypeOK, TransitionType
  <2>5. \A x \in Add(u) : x = u
    BY DEF Add
  <2>6. TypeOK'
    BY <1>1, <2>2, <2>3, <2>4, <2>5 DEF TypeOK
  <2>7. ClosedAtMostOnce'
    BY <2>1, <2>2, <2>3, <2>4, <2>5 DEF FlowSide, ClosedAtMostOnce
  <2>8. LeasesOnlyWhileActive' /\ FlowsInv' /\ NoFlowEscapes' /\ ForcedCountIsExact'
    BY <1>1, <2>1, <2>2
       DEF FlowSide, LeasesOnlyWhileActive, FlowsInv, NoFlowEscapes, ForcedCountIsExact
  <2> QED
    BY <1>2, <2>6, <2>7, <2>8 DEF FlowSide
<1> QED
  BY <1>3, <1>4, <1>5, <1>6 DEF FinishTransition

-------------------------------------------------------------------------------
\* The invariant holds at start-up.
LEMMA InitIInv == ASSUME Init PROVE IInv
<1>1. Pending = {}
  BY DEF Init, Pending
<1>2. TypeOK
  BY DEF Init, TypeOK, SnapshotType, States, Phases, FlowPhases
<1>3. OpSide
  BY DEF Init, OpSide, HandlesInv, RegisteredIsCurrent, CommitsAreExclusive
<1>4. Cardinality(closed \cup Pending) = 0
  BY <1>1, FS_EmptySet DEF Init
<1>5. FlowSide
  BY <1>1, <1>4
     DEF Init, FlowSide, LeasesOnlyWhileActive, FlowsInv, ClosedAtMostOnce,
         NoFlowEscapes, ForcedCountIsExact
<1> QED
  BY <1>2, <1>3, <1>5 DEF IInv

\* Every publishing step, seen as what it publishes and what it does to the
\* handles.
LEMMA PublishingKeepsIInv ==
  ASSUME IInv, NEW to \in States, NEW user \in Users \cup {NoUser},
         user # NoUser <=> to \in {"active", "soft_expired"},
         Publish(to, user),
         \/ UNCHANGED <<phase, published>>
         \/ \E o \in Ops : /\ phase[o] = "running" /\ OperationCurrent(o)
                           /\ phase' = [phase EXCEPT ![o] = "committed"]
                           /\ published' = [published EXCEPT ![o] = snapshot.generation + 1]
  PROVE  IInv'
<1>1. phase' \in [Ops -> Phases] /\ published' \in [Ops -> Nat]
  BY DEF IInv, TypeOK, Phases, SnapshotType
<1>2. /\ TypeOK'
      /\ snapshot'.generation = snapshot.generation + 1
      /\ operations' = {}
      /\ captured' = captured
  BY <1>1, PublishKeepsTypes DEF IInv
<1>3. OpSide'
  BY <1>2, PublishKeepsOpSide DEF IInv
<1>4. FlowSide'
  BY PublishKeepsFlowSide DEF IInv
<1> QED
  BY <1>2, <1>3, <1>4 DEF IInv

\* Every step keeps the invariant.
LEMMA NextIInv == ASSUME IInv, [Next]_vars PROVE IInv'
<1>1. CASE UNCHANGED vars
  BY <1>1
     DEF vars, IInv, TypeOK, OpSide, HandlesInv, RegisteredIsCurrent,
         CommitsAreExclusive, FlowSide, LeasesOnlyWhileActive, FlowsInv,
         ClosedAtMostOnce, NoFlowEscapes, ForcedCountIsExact, Pending
<1>2. ASSUME NEW o \in Ops, OperationStep(o)
      PROVE  IInv'
  <2>1. CASE CommitAuthenticatedSnapshot(o)
    <3>1. PICK u \in Users : CommitOperation(o, "active", u)
      BY <2>1 DEF CommitAuthenticatedSnapshot
    <3>2. u # NoUser
      BY ConstantsAssumption
    <3> QED
      BY <3>1, <3>2, PublishingKeepsIInv DEF CommitOperation, States
  <2>2. CASE CommitSoftExpired(o)
    <3>1. PICK u \in Users : CommitOperation(o, "soft_expired", u)
      BY <2>2 DEF CommitSoftExpired
    <3>2. u # NoUser
      BY ConstantsAssumption
    <3> QED
      BY <3>1, <3>2, PublishingKeepsIInv DEF CommitOperation, States
  <2>3. CASE CommitUnauthenticated(o)
    BY <2>3, PublishingKeepsIInv DEF CommitUnauthenticated, CommitOperation, States
  <2>4. CASE \/ BeginOperation(o) \/ CommitFails(o)
             \/ RunIfGenerationActive(o) \/ CloseOperation(o)
    BY <2>4, OperationKeepsIInv
  <2> QED
    BY <1>2, <2>1, <2>2, <2>3, <2>4 DEF OperationStep
<1>3. CASE PublishAuthenticated
  <2>1. PICK u \in Users : Publish("active", u) /\ UNCHANGED <<phase, published>>
    BY <1>3 DEF PublishAuthenticated
  <2>2. u # NoUser
    BY ConstantsAssumption
  <2> QED
    BY <2>1, <2>2, PublishingKeepsIInv DEF States
<1>4. CASE NotifyAccessRejected
  <2>1. PICK u : u = snapshot.user
    OBVIOUS
  <2>2. u \in Users \cup {NoUser} /\ u # NoUser
    BY <1>4, <2>1 DEF NotifyAccessRejected, IInv, TypeOK, SnapshotType
  <2>3. Publish("soft_expired", u) /\ UNCHANGED <<phase, published>>
    BY <1>4, <2>1 DEF NotifyAccessRejected
  <2> QED
    BY <2>2, <2>3, PublishingKeepsIInv DEF States
<1>5. CASE NotifyRefreshFailed
  BY <1>5, PublishingKeepsIInv DEF NotifyRefreshFailed, ForceTerminal, States
<1>6. CASE NotifyLoggedOut
  BY <1>6, PublishingKeepsIInv DEF NotifyLoggedOut, ForceTerminal, States
<1>7. CASE \/ \E f \in Flows : AcquireProxyLease(f) \/ ReleaseProxyLease(f)
           \/ \E t \in transitions : FinishTransition(t)
  BY <1>7, FlowStepKeepsIInv
<1> QED
  BY <1>1, <1>2, <1>3, <1>4, <1>5, <1>6, <1>7 DEF Next

\* The inductive invariant holds of every behaviour.
THEOREM Invariance == SafetySpec => []IInv
<1>1. Init => IInv
  BY InitIInv
<1>2. IInv /\ [Next]_vars => IInv'
  BY NextIInv
<1> QED
  BY <1>1, <1>2, PTL DEF SafetySpec

\* The snapshot, the handles and the transitions in progress stay well formed,
\* and the session has a user exactly while it is active or recovering.
THEOREM TypeCorrect == SafetySpec => []TypeOK
<1>1. IInv => TypeOK
  BY DEF IInv
<1> QED
  BY <1>1, Invariance, PTL

\* No lease outlives the active session, however admissions and demotions
\* interleave.
THEOREM LeasesSafe == SafetySpec => []LeasesOnlyWhileActive
<1>1. IInv => LeasesOnlyWhileActive
  BY DEF IInv, FlowSide
<1> QED
  BY <1>1, Invariance, PTL

\* A served connection is always either registered or owed a close, and the
\* counter of forced closes is exact.
THEOREM FlowsSafe == SafetySpec => [](NoFlowEscapes /\ ForcedCountIsExact)
<1>1. IInv => NoFlowEscapes /\ ForcedCountIsExact
  BY DEF IInv, FlowSide
<1> QED
  BY <1>1, Invariance, PTL

\* A close callback is never owed by two transitions, nor again after it ran.
THEOREM ClosedOnce == SafetySpec => []ClosedAtMostOnce
<1>1. IInv => ClosedAtMostOnce
  BY DEF IInv, FlowSide
<1> QED
  BY <1>1, Invariance, PTL

\* No login, refresh or restore commits after any transition it did not see,
\* and rivals of one generation do not both commit.
THEOREM CommitsSafe == SafetySpec => []CommitsAreExclusive
<1>1. IInv => CommitsAreExclusive
  BY DEF IInv, OpSide
<1> QED
  BY <1>1, Invariance, PTL

\* The registry and the generations never disagree about who may commit.
THEOREM RegistrationExact == SafetySpec => []RegisteredIsCurrent
<1>1. IInv => RegisteredIsCurrent
  BY DEF IInv, OpSide
<1> QED
  BY <1>1, Invariance, PTL

-------------------------------------------------------------------------------
(* What a component that listens to the authority needs to know of it. *)

\* A step publishes a transition that no operation guards.
Forces(to, user) ==
  /\ to \in States /\ user \in Users \cup {NoUser}
  /\ user # NoUser <=> to \in {"active", "soft_expired"}
  /\ Publish(to, user) /\ UNCHANGED <<phase, published>>

\* The forced transitions of the authority are of that form.
LEMMA ForcedSteps ==
  ASSUME TypeOK
  PROVE  /\ PublishAuthenticated => \E u \in Users : Forces("active", u)
         /\ NotifyAccessRejected => \E u \in Users : Forces("soft_expired", u)
         /\ NotifyRefreshFailed => Forces("hard_invalid", NoUser)
         /\ NotifyLoggedOut => Forces("unauthenticated", NoUser)
<1>1. ASSUME PublishAuthenticated PROVE \E u \in Users : Forces("active", u)
  BY <1>1, ConstantsAssumption DEF PublishAuthenticated, Forces, States
<1>2. ASSUME NotifyAccessRejected PROVE \E u \in Users : Forces("soft_expired", u)
  <2>1. PICK u : u = snapshot.user
    OBVIOUS
  <2>2. u \in Users
    BY <1>2, <2>1 DEF NotifyAccessRejected, TypeOK, SnapshotType
  <2> QED
    BY <1>2, <2>1, <2>2, ConstantsAssumption DEF NotifyAccessRejected, Forces, States
<1>3. NotifyRefreshFailed => Forces("hard_invalid", NoUser)
  BY DEF NotifyRefreshFailed, ForceTerminal, Forces, States
<1>4. NotifyLoggedOut => Forces("unauthenticated", NoUser)
  BY DEF NotifyLoggedOut, ForceTerminal, Forces, States
<1> QED
  BY <1>1, <1>2, <1>3, <1>4

\* A forced transition is announced to whoever listens, with the snapshot it
\* published; the ones under way go on.
LEMMA ForcedIsAnnounced ==
  ASSUME TypeOK, NumListeners = 1, NEW to, NEW user, Forces(to, user)
  PROVE  /\ TypeOK'
         /\ snapshot' = [revision |-> snapshot.revision + 1, generation |-> snapshot.generation + 1,
                         state |-> to, user |-> user]
         /\ \E r : /\ transitions' = transitions \cup {r}
                  /\ r.event = snapshot' /\ r.called = 0
<1>1. TypeOK'
  BY PublishKeepsTypes DEF Forces, TypeOK
<1>2. PICK r : /\ r = [event |-> snapshot', closers |-> FlowsTaken(to), called |-> 0]
               /\ transitions' = transitions \cup Add(r)
  BY PendingAfterPublish DEF Forces
<1>3. Add(r) = {r}
  BY <1>2 DEF Add, Owed
<1> QED
  BY <1>1, <1>2, <1>3 DEF Forces, Publish

\* With one listener, a transition is over when that one was called.
LEMMA SoleListener ==
  ASSUME TypeOK, NumListeners = 1, NEW t \in transitions, CallListener(t)
  PROVE  TypeOK' /\ UNCHANGED snapshot /\ transitions' = transitions \ {t}
<1> DEFINE u == [t EXCEPT !.called = @ + 1]
<1>1. t \in TransitionType /\ t.closers = {} /\ t.called < 1
  BY DEF TypeOK, CallListener
<1>2. u.closers = {} /\ u.called = 1
  BY <1>1 DEF TransitionType
<1>3. Add(u) = {}
  <2> HIDE DEF u
  <2> QED
    BY <1>2 DEF Add, Owed
<1>4. transitions' = (transitions \ {t}) \cup Add(u)
  BY DEF CallListener
<1>5. transitions' = transitions \ {t}
  BY <1>3, <1>4
<1>6. UNCHANGED <<snapshot, opVars, flowVars, forcedProxyFlowCloses>>
  BY DEF CallListener
<1> QED
  BY <1>5, <1>6 DEF TypeOK, opVars, flowVars

-------------------------------------------------------------------------------
(* The authority implements SessionGate: every step is one of its steps or   *)
(* leaves its variables alone.                                               *)

Valid == {o \in operations : captured[o] = snapshot.generation /\ phase[o] = "running"}

\* A published transition is a Move of the gate.
LEMMA PublishIsMove ==
  ASSUME NEW to, NEW user, Publish(to, user)
  PROVE  /\ snapshot'.state = to
         /\ Valid' = {}
         /\ IF snapshot.state = "active" /\ to # "active"
              THEN proxyFlows' = {} /\ Pending' = Pending \cup proxyFlows
              ELSE proxyFlows' = proxyFlows /\ Pending' = Pending
<1>1. Pending' = Pending \cup FlowsTaken(to)
  BY PendingAfterPublish
<1>2. operations' = {}
  BY DEF Publish, OperationsKept
<1> QED
  BY <1>1, <1>2 DEF Publish, FlowsKept, FlowsTaken, Demotes, Valid

\* An operation's steps are steps of the gate or stutters.
LEMMA OperationStepRefines ==
  ASSUME IInv, NEW o \in Ops, OperationStep(o)
  PROVE  [Gate!GateNext]_Gate!gateVars
<1>1. ASSUME NEW to \in {"active", "soft_expired", "unauthenticated"}, NEW user,
             CommitOperation(o, to, user)
      PROVE  Gate!GateNext
  <2>1. o \in Valid
    BY <1>1 DEF CommitOperation, OperationCurrent, Valid
  <2>2. Publish(to, user)
    BY <1>1 DEF CommitOperation
  <2>3. Gate!Commit(o, to)
    BY <2>1, <2>2, PublishIsMove DEF Gate!Commit, Gate!Move, Valid
  <2> QED
    BY <2>3 DEF Gate!GateNext, Gate!States
<1>2. CASE BeginOperation(o)
  <2>1. UNCHANGED <<snapshot, proxyFlows, transitions, Pending>>
    BY <1>2 DEF BeginOperation, flowVars, Pending
  <2>2. Valid' = Valid \cup {o}
    BY <1>2 DEF BeginOperation, Valid, IInv, TypeOK
  <2>3. Gate!Start(o)
    BY <2>1, <2>2 DEF Gate!Start, Valid
  <2> QED
    BY <2>3 DEF Gate!GateNext
<1>3. CASE CommitFails(o) \/ CloseOperation(o)
  <2>1. UNCHANGED <<snapshot, proxyFlows, transitions, Pending>>
    BY <1>3 DEF CommitFails, CloseOperation, flowVars, Pending
  <2>2. Valid' = Valid \ {o}
    BY <1>3 DEF CommitFails, CloseOperation, Valid, IInv, TypeOK
  <2>3. Gate!Abandon(o)
    BY <2>1, <2>2 DEF Gate!Abandon, Valid
  <2> QED
    BY <2>3 DEF Gate!GateNext
<1>4. CASE RunIfGenerationActive(o)
  <2>1. UNCHANGED <<snapshot, proxyFlows, transitions, Pending>>
    BY <1>4 DEF RunIfGenerationActive, flowVars, Pending
  <2>2. Valid' = Valid
    BY <1>4 DEF RunIfGenerationActive, Valid, IInv, TypeOK
  <2> QED
    BY <2>1, <2>2 DEF Gate!gateVars, Valid
<1> QED
  BY <1>1, <1>2, <1>3, <1>4, OperationStep(o)
     DEF OperationStep, CommitAuthenticatedSnapshot, CommitSoftExpired,
         CommitUnauthenticated

\* A publication without an operation is a step of the gate.
LEMMA ForcedStepRefines ==
  ASSUME IInv,
         \/ PublishAuthenticated \/ NotifyAccessRejected
         \/ NotifyRefreshFailed \/ NotifyLoggedOut
  PROVE  Gate!GateNext
<1>1. ASSUME NEW to \in States, NEW user, Publish(to, user),
             \/ to = "soft_expired" /\ snapshot.state = "active"
             \/ to \in {"active", "hard_invalid", "unauthenticated"}
      PROVE  Gate!GateNext
  <2>1. Gate!Force(to)
    BY <1>1, PublishIsMove DEF Gate!Force, Gate!Move, Valid
  <2> QED
    BY <2>1 DEF Gate!GateNext, Gate!States, States
<1>2. CASE NotifyAccessRejected
  <2>1. PICK u : u = snapshot.user
    OBVIOUS
  <2>2. Publish("soft_expired", u) /\ snapshot.state = "active"
    BY <1>2, <2>1 DEF NotifyAccessRejected
  <2> QED
    BY <2>2, <1>1 DEF States
<1> QED
  BY <1>1, <1>2
     DEF PublishAuthenticated, NotifyRefreshFailed, NotifyLoggedOut,
         ForceTerminal, States

\* Leases and their closes are steps of the gate, listeners' calls stutters.
LEMMA FlowStepRefines ==
  ASSUME IInv,
         \/ \E f \in Flows : AcquireProxyLease(f) \/ ReleaseProxyLease(f)
         \/ \E t \in transitions : FinishTransition(t)
  PROVE  [Gate!GateNext]_Gate!gateVars
<1>1. UNCHANGED <<snapshot, Valid>>
  BY DEF AcquireProxyLease, ReleaseProxyLease, FinishTransition, CloseFlow,
         CallListener, opVars, Valid
<1>2. ASSUME NEW f \in Flows, AcquireProxyLease(f)
      PROVE  [Gate!GateNext]_Gate!gateVars
  <2>1. Pending' = Pending
    BY <1>2 DEF AcquireProxyLease, Pending
  <2>2. f \notin proxyFlows \cup Pending
    BY <1>2 DEF AcquireProxyLease, IInv, FlowSide, FlowsInv
  <2>3. CASE snapshot.state = "active"
    <3>1. Gate!Admit(f)
      BY <1>1, <1>2, <2>1, <2>2, <2>3 DEF AcquireProxyLease, Gate!Admit, Valid
    <3> QED
      BY <3>1 DEF Gate!GateNext
  <2>4. CASE snapshot.state # "active"
    BY <1>1, <1>2, <2>1, <2>4 DEF AcquireProxyLease, Gate!gateVars, Valid
  <2> QED
    BY <2>3, <2>4
<1>3. ASSUME NEW f \in Flows, ReleaseProxyLease(f)
      PROVE  Gate!GateNext
  <2>1. Pending' = Pending
    BY <1>3 DEF ReleaseProxyLease, Pending
  <2>2. Gate!Finish(f)
    BY <1>1, <1>3, <2>1 DEF ReleaseProxyLease, Gate!Finish, Valid
  <2> QED
    BY <2>2 DEF Gate!GateNext
<1>4. ASSUME NEW t \in transitions, NEW f \in Flows, CloseFlow(t, f)
      PROVE  Gate!GateNext
  <2>1. Pending' = Pending \ {f} /\ f \in Pending
    BY <1>4, PendingAfterClose DEF IInv, FlowSide, CloseFlow, Pending
  <2>2. Gate!CutOff(f)
    BY <1>1, <1>4, <2>1 DEF CloseFlow, Gate!CutOff, Valid
  <2> QED
    BY <2>2 DEF Gate!GateNext
<1>5. ASSUME NEW t \in transitions, CallListener(t)
      PROVE  UNCHANGED Gate!gateVars
  BY <1>1, <1>5, PendingAfterCall
     DEF IInv, CallListener, flowVars, Gate!gateVars, Valid
<1> QED
  BY <1>2, <1>3, <1>4, <1>5 DEF FinishTransition

\* Every step is a step of the gate or a stutter.
LEMMA StepRefines ==
  ASSUME IInv, [Next]_vars
  PROVE  [Gate!GateNext]_Gate!gateVars
<1>1. CASE UNCHANGED vars
  BY <1>1 DEF vars, Gate!gateVars, Pending
<1>2. CASE Next
  BY <1>2, OperationStepRefines, ForcedStepRefines, FlowStepRefines DEF Next
<1> QED
  BY <1>1, <1>2

\* Every behaviour of the authority is, seen through its state, its committable
\* operations and its leases, a behaviour of SessionGate (its safety part: the
\* cut-off of revoked flows is model-checked).
THEOREM Refinement == SafetySpec => Gate!GateSafety
<1>1. Init => Gate!GateInit
  BY DEF Init, Gate!GateInit, Pending
<1>2. IInv /\ [Next]_vars => [Gate!GateNext]_Gate!gateVars
  BY StepRefines
<1> QED
  BY <1>1, <1>2, Invariance, PTL DEF SafetySpec, Gate!GateSafety
===============================================================================
