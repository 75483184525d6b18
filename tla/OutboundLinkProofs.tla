-------------------------- MODULE OutboundLinkProofs --------------------------
(***************************************************************************)
(* Proofs about OutboundLink for any number of instances and dials and any *)
(* threshold.  That one monitor runs between refreshes is not inductive:   *)
(* it needs to know who holds the mutex (Holder), that an instance not yet *)
(* refreshed is untouched (Fresh), and how far the refresh under way has   *)
(* taken the old monitor apart (Phase).                                    *)
(***************************************************************************)
EXTENDS OutboundLink, TLAPS

\* The monitor of x, and no other, runs.
Watched(x) ==
    \A m \in Inst : /\ Runs(m) <=> inst[x].handle = m
                    /\ Runs(m) => monitor[m].of = x /\ ~monitor[m].cancelled

Unwatched == \A m \in Inst : ~Runs(m)

\* The refresh that holds the mutex is the one under way, of the registered instance.
Holder ==
    /\ \A i \in Inst : refresh[i].pc \notin {"new", "done"} <=> lock = i
    /\ lock # NoInst => registry = lock
    /\ registry # NoInst => refresh[registry].pc # "new"

\* An instance whose refresh is not over has no monitor and is open.
Fresh ==
    \A i \in Inst : refresh[i].pc # "done" =>
        /\ monitor[i].pc = "none" /\ ~monitor[i].cancelled
        /\ inst[i].handle = NoInst /\ ~inst[i].closed

Idle ==
    lock = NoInst => IF registry = NoInst THEN Unwatched
                     ELSE ~inst[registry].closed /\ Watched(registry)

PhaseOf(i) ==
        /\ refresh[i].pc \in {"closing", "stopping"} =>
              refresh[i].old \in Inst /\ refresh[refresh[i].old].pc = "done" /\ Watched(refresh[i].old)
        /\ refresh[i].pc = "closing" => ~inst[refresh[i].old].closed
        /\ refresh[i].pc = "waiting" =>
              refresh[i].awaits \in Inst /\ \A m \in Inst : Runs(m) => m = refresh[i].awaits
        /\ refresh[i].pc \in {"closed", "starting"} => Unwatched
        /\ refresh[i].pc = "starting" => refresh[i].starts = i

Phase == \A i \in Inst : lock = i => PhaseOf(i)

\* Whatever runs has an instance.
Named ==
    /\ \A m \in Inst : Runs(m) => monitor[m].of \in Inst
    /\ \A d \in Dial : dial[d].pc # "idle" => dial[d].of \in Inst

\* What dials has an attempt left.
Trying ==
    /\ \A m \in Inst : monitor[m].pc = "dialing" => monitor[m].attempts < MaxAttempts
    /\ \A d \in Dial : dial[d].pc \in {"got", "dialing"} => dial[d].attempts < MaxAttempts

LinkInv == OutboundTypeOK /\ Holder /\ Fresh /\ Idle /\ Phase /\ Named /\ Trying

-----------------------------------------------------------------------------
Link == [closed : BOOLEAN, handle : Inst \cup {NoInst}, failures : 0..Threshold,
         link : {"unknown", "connecting", "connected", "disconnected"}]

Refresh == [pc : {"new", "closing", "stopping", "waiting", "closed", "starting", "done"},
            old : Inst \cup {NoInst}, awaits : Inst \cup {NoInst}, starts : Inst \cup {NoInst}]

Monitor == [pc : {"none", "deciding", "probing", "dialing", "waiting", "gone"},
            of : Inst \cup {NoInst}, attempts : 0..MaxAttempts, cancelled : BOOLEAN]

\* The conjuncts of the type invariant, each with its record set named.
LEMMA TypeInParts ==
    OutboundTypeOK <=>
        /\ {registry, lock} \subseteq Inst \cup {NoInst} /\ relay \in BOOLEAN
        /\ refresh \in [Inst -> Refresh] /\ inst \in [Inst -> Link] /\ monitor \in [Inst -> Monitor]
        /\ dial \in [Dial -> [pc : {"idle", "got", "dialing"}, of : Inst \cup {NoInst}, attempts : 0..MaxAttempts]]
<1>1. QED
  BY DEF OutboundTypeOK, Refresh, Link, Monitor

\* A function that is changed at one place stays in its set when the value there does.
LEMMA ExceptKeeps ==
    ASSUME NEW S, NEW T, NEW f \in [S -> T], NEW x \in S, NEW y \in T
    PROVE  [f EXCEPT ![x] = y] \in [S -> T]
<1>1. QED
  OBVIOUS

\* What marks the link of an instance touches nothing else of it.
LEMMA MarksKeepTypes ==
    ASSUME OutboundTypeOK, NEW i \in Inst, NEW f,
           f \in {inst, MarkConnecting(i), MarkSuccess(i), MarkFailure(i)}
    PROVE  /\ f \in [Inst -> Link]
           /\ \A j \in Inst : f[j].closed = inst[j].closed /\ f[j].handle = inst[j].handle
<1> USE OutboundAssumption DEF OutboundTypeOK, Link
<1> DEFINE n == IF inst[i].failures < Threshold THEN inst[i].failures + 1 ELSE Threshold
           link == IF n < Threshold THEN inst[i].link ELSE "disconnected"
<1>1. n \in 0..Threshold /\ 0 \in 0..Threshold
  OBVIOUS
<1>2. link \in {"unknown", "connecting", "connected", "disconnected"}
  OBVIOUS
<1> HIDE DEF n, link
<1>3. /\ MarkConnecting(i) = [inst EXCEPT ![i] = [@ EXCEPT !.link = "connecting"]]
      /\ MarkSuccess(i) = [inst EXCEPT ![i] = [@ EXCEPT !.link = "connected", !.failures = 0]]
      /\ MarkFailure(i) = [inst EXCEPT ![i] = [@ EXCEPT !.failures = n, !.link = link]]
  BY DEF MarkConnecting, MarkSuccess, MarkFailure, n, link
<1> DEFINE Kept(r) == r \in Link /\ r.closed = inst[i].closed /\ r.handle = inst[i].handle
<1>4. /\ Kept(inst[i])
      /\ Kept([inst[i] EXCEPT !.link = "connecting"])
      /\ Kept([inst[i] EXCEPT !.link = "connected", !.failures = 0])
      /\ Kept([inst[i] EXCEPT !.failures = n, !.link = link])
  <2>1. inst[i] \in Link
    OBVIOUS
  <2>2. QED
    BY <1>1, <1>2, <2>1
<1>5. \E r : Kept(r) /\ f = [inst EXCEPT ![i] = r]
  <2>1. inst = [inst EXCEPT ![i] = inst[i]]
    OBVIOUS
  <2> HIDE DEF Kept
  <2>2. QED
    BY <1>3, <1>4, <2>1
<1>6. QED
  BY <1>5

\* The registry starts empty.
LEMMA OutboundInitHolds == OutboundInit => LinkInv
<1> SUFFICES ASSUME OutboundInit PROVE LinkInv
  OBVIOUS
<1>1. OutboundTypeOK
  BY OutboundAssumption DEF OutboundInit, OutboundTypeOK
<1>2. Unwatched /\ Holder /\ Fresh /\ Named /\ Trying
  BY OutboundAssumption DEF OutboundInit, Unwatched, Runs, Holder, Fresh, Named, Trying
<1>3. QED
  BY <1>1, <1>2, OutboundAssumption DEF OutboundInit, LinkInv, Idle, Phase

\* A monitor or a dial that goes on, as far as the invariant sees it: it may only leave, when cancelled.
Beside ==
    /\ UNCHANGED <<registry, lock, refresh>>
    /\ \A j \in Inst : /\ inst'[j].closed = inst[j].closed /\ inst'[j].handle = inst[j].handle
                       /\ monitor'[j].of = monitor[j].of /\ monitor'[j].cancelled = monitor[j].cancelled
                       /\ \/ monitor[j].pc = "none" /\ monitor'[j].pc = "none"
                          \/ Runs(j) /\ Runs(j)'
                          \/ ~Runs(j) /\ ~Runs(j)' /\ monitor[j].pc # "none"
                          \/ Runs(j) /\ ~Runs(j)' /\ monitor[j].cancelled

\* What goes on beside the refreshes keeps the invariant.
LEMMA BesideKeeps ==
    ASSUME LinkInv, OutboundTypeOK', Beside, Named', Trying'
    PROVE  LinkInv'
<1> USE OutboundAssumption DEF LinkInv, Beside
<1>1. Holder'
  BY DEF Holder
<1>2. Fresh'
  BY DEF Fresh, Runs
<1>3. ASSUME NEW x \in Inst, Watched(x) PROVE Watched(x)'
  BY <1>3 DEF Watched, Runs
<1>4. Unwatched => Unwatched'
  BY DEF Unwatched, Runs
<1>5. Idle'
  <2>1. registry \in Inst \cup {NoInst}
    BY DEF OutboundTypeOK
  <2>2. QED
    BY <1>3, <1>4, <2>1 DEF Idle
<1>6. Phase'
  <2> SUFFICES ASSUME NEW i \in Inst, lock' = i PROVE PhaseOf(i)'
    BY DEF Phase
  <2>1. PhaseOf(i)
    BY DEF Phase
  <2>2. \A m \in Inst : Runs(m)' => Runs(m)
    BY DEF Runs
  <2>3. QED
    BY <1>3, <1>4, <2>1, <2>2 DEF PhaseOf
<1>7. QED
  BY <1>1, <1>2, <1>5, <1>6

\* Each step of a monitor.
LEMMA MonitorStepKeeps ==
    ASSUME LinkInv, NEW m \in Inst, MonitorStep(m)
    PROVE  LinkInv'
<1> USE OutboundAssumption DEF LinkInv
<1> DEFINE i == monitor[m].of
<1>0. monitor[m].pc # "none" /\ monitor[m].pc # "gone"
  BY DEF MonitorStep, Decide, BeginProbe, Probe, Wake, Leave
<1>1. i \in Inst
  BY <1>0 DEF Named, Runs
<1>2. inst' \in {inst, MarkConnecting(i), MarkSuccess(i), MarkFailure(i)}
  BY DEF MonitorStep, Decide, BeginProbe, Probe, Wake, Leave
<1>3. /\ inst' \in [Inst -> Link]
      /\ \A j \in Inst : inst'[j].closed = inst[j].closed /\ inst'[j].handle = inst[j].handle
  BY <1>1, <1>2, MarksKeepTypes
<1> DEFINE Moved(r) == /\ r \in [pc : {"deciding", "probing", "dialing", "waiting", "gone"}, of : Inst \cup {NoInst},
                                  attempts : 0..MaxAttempts, cancelled : BOOLEAN]
                       /\ r.of = i /\ r.cancelled = monitor[m].cancelled
                       /\ r.pc = "gone" => monitor[m].cancelled
                       /\ r.pc = "dialing" => r.attempts < MaxAttempts
<1>4. PICK r : monitor' = [monitor EXCEPT ![m] = r] /\ Moved(r)
  <2>1. monitor[m] \in [pc : {"none", "deciding", "probing", "dialing", "waiting", "gone"},
                        of : Inst \cup {NoInst}, attempts : 0..MaxAttempts, cancelled : BOOLEAN]
    BY DEF OutboundTypeOK
  <2>2. CASE Decide(m)
    <3> DEFINE pc == IF Recoverable(inst[i].link) THEN "probing" ELSE "waiting"
    <3>1. monitor' = [monitor EXCEPT ![m] = [@ EXCEPT !.pc = pc]]
      BY <2>2 DEF Decide
    <3>2. pc \in {"probing", "waiting"}
      OBVIOUS
    <3> HIDE DEF pc
    <3>3. Moved([monitor[m] EXCEPT !.pc = pc])
      BY <2>1, <3>2
    <3> HIDE DEF Moved
    <3>4. QED
      BY <3>1, <3>3
  <2>3. CASE BeginProbe(m)
    <3> DEFINE pc == IF inst[i].closed THEN "waiting" ELSE "dialing"
    <3>1. monitor' = [monitor EXCEPT ![m] = [@ EXCEPT !.pc = pc, !.attempts = 0]]
      BY <2>3 DEF BeginProbe
    <3>2. pc \in {"dialing", "waiting"} /\ 0 \in 0..MaxAttempts /\ 0 < MaxAttempts
      OBVIOUS
    <3> HIDE DEF pc
    <3>3. Moved([monitor[m] EXCEPT !.pc = pc, !.attempts = 0])
      BY <2>1, <3>2
    <3> HIDE DEF Moved
    <3>4. QED
      BY <3>1, <3>3
  <2>4. CASE Probe(m)
    <3> DEFINE up == relay /\ ~monitor[m].cancelled
               last == monitor[m].cancelled \/ monitor[m].attempts + 1 = MaxAttempts
               pc == IF up \/ last THEN "waiting" ELSE monitor[m].pc
               n == monitor[m].attempts + 1
    <3>1. monitor' = [monitor EXCEPT ![m] = [@ EXCEPT !.pc = pc, !.attempts = n]]
      BY <2>4 DEF Probe
    <3>2. /\ pc \in {"dialing", "waiting"}
          /\ n \in 0..MaxAttempts
          /\ pc = "dialing" => n < MaxAttempts
      BY <2>1, <2>4 DEF Probe, Trying
    <3> HIDE DEF pc, n
    <3>3. Moved([monitor[m] EXCEPT !.pc = pc, !.attempts = n])
      BY <2>1, <3>2
    <3> HIDE DEF Moved
    <3>4. QED
      BY <3>1, <3>3
  <2>5. CASE Wake(m) \/ Leave(m)
    <3>1. PICK pc \in {"deciding", "gone"} : /\ monitor' = [monitor EXCEPT ![m] = [@ EXCEPT !.pc = pc]]
                                             /\ pc = "gone" => monitor[m].cancelled
      BY <2>5 DEF Wake, Leave
    <3>2. Moved([monitor[m] EXCEPT !.pc = pc])
      BY <2>1, <3>1
    <3> HIDE DEF Moved
    <3>3. QED
      BY <3>1, <3>2
  <2>6. QED
    BY <2>2, <2>3, <2>4, <2>5 DEF MonitorStep
<1>5. UNCHANGED <<registry, lock, refresh, dial, relay>>
  BY DEF MonitorStep, Decide, BeginProbe, Probe, Wake, Leave
<1>6. OutboundTypeOK'
  BY <1>3, <1>4, <1>5 DEF OutboundTypeOK, Link
<1>7. Beside
  BY <1>0, <1>3, <1>4, <1>5 DEF OutboundTypeOK, Beside, Runs
<1>8. Named'
  BY <1>1, <1>4, <1>5 DEF OutboundTypeOK, Named, Runs
<1>9. Trying'
  BY <1>4, <1>5 DEF OutboundTypeOK, Trying
<1>10. QED
  BY <1>6, <1>7, <1>8, <1>9, BesideKeeps

\* Each step of a dial.
LEMMA DialStepKeeps ==
    ASSUME LinkInv, NEW d \in Dial, GetAliang(d) \/ DialStep(d) \/ Abandon(d)
    PROVE  LinkInv'
<1> USE OutboundAssumption DEF LinkInv
<1>1. UNCHANGED <<registry, lock, refresh, monitor, relay>>
  BY DEF GetAliang, DialStep, BeginDial, Attempt, Abandon
<1> DEFINE Moved(r) == /\ r \in [pc : {"idle", "got", "dialing"}, of : Inst, attempts : 0..MaxAttempts]
                       /\ r.pc \in {"got", "dialing"} => r.attempts < MaxAttempts
<1>2. PICK r : dial' = [dial EXCEPT ![d] = r] /\ Moved(r)
  <2>1. dial[d] \in [pc : {"idle", "got", "dialing"}, of : Inst \cup {NoInst}, attempts : 0..MaxAttempts]
    BY DEF OutboundTypeOK
  <2>2. CASE GetAliang(d)
    <3> DEFINE new == [pc |-> "got", of |-> registry, attempts |-> 0]
    <3>1. dial' = [dial EXCEPT ![d] = new] /\ registry \in Inst
      BY <2>2 DEF GetAliang, OutboundTypeOK
    <3>2. Moved(new)
      BY <3>1
    <3> HIDE DEF Moved, new
    <3>3. QED
      BY <3>1, <3>2
  <2>3. CASE DialStep(d) \/ Abandon(d)
    <3>1. dial[d].of \in Inst
      BY <2>3 DEF DialStep, BeginDial, Attempt, Abandon, Named
    <3>2. \E pc \in {"idle", "dialing"}, n \in 0..MaxAttempts :
              /\ dial' = [dial EXCEPT ![d] = [@ EXCEPT !.pc = pc, !.attempts = n]]
              /\ pc = "dialing" => n < MaxAttempts
      <4>1. dial[d] = [dial[d] EXCEPT !.attempts = dial[d].attempts]
        BY <2>1
      <4>2. CASE BeginDial(d)
        <5> DEFINE pc == IF inst[dial[d].of].closed THEN "idle" ELSE "dialing"
        <5>1. dial' = [dial EXCEPT ![d] = [@ EXCEPT !.pc = pc, !.attempts = dial[d].attempts]]
          BY <2>1, <4>2 DEF BeginDial, OutboundTypeOK
        <5>2. pc \in {"idle", "dialing"} /\ dial[d].attempts \in 0..MaxAttempts /\ dial[d].attempts < MaxAttempts
          BY <2>1, <4>2 DEF BeginDial, Trying
        <5> HIDE DEF pc
        <5>3. QED
          BY <5>1, <5>2
      <4>3. CASE Attempt(d)
        <5> DEFINE n == dial[d].attempts + 1
                   pc == IF relay \/ n = MaxAttempts THEN "idle" ELSE dial[d].pc
        <5>1. dial' = [dial EXCEPT ![d] = [@ EXCEPT !.pc = pc, !.attempts = n]]
          BY <4>3 DEF Attempt
        <5>2. /\ pc \in {"idle", "dialing"} /\ n \in 0..MaxAttempts
              /\ pc = "dialing" => n < MaxAttempts
          BY <2>1, <4>3 DEF Attempt, Trying
        <5> HIDE DEF pc, n
        <5>3. QED
          BY <5>1, <5>2
      <4>4. CASE Abandon(d)
        <5>1. dial' = [dial EXCEPT ![d] = [@ EXCEPT !.pc = "idle", !.attempts = dial[d].attempts]]
          BY <2>1, <4>4 DEF Abandon, OutboundTypeOK
        <5>2. QED
          BY <2>1, <5>1
      <4>5. QED
        BY <2>3, <4>2, <4>3, <4>4 DEF DialStep
    <3>3. PICK pc \in {"idle", "dialing"}, n \in 0..MaxAttempts :
              /\ dial' = [dial EXCEPT ![d] = [@ EXCEPT !.pc = pc, !.attempts = n]]
              /\ pc = "dialing" => n < MaxAttempts
      BY <3>2
    <3>4. Moved([dial[d] EXCEPT !.pc = pc, !.attempts = n])
      BY <2>1, <3>1, <3>3
    <3> HIDE DEF Moved
    <3>5. QED
      BY <3>3, <3>4
  <2>4. QED
    BY <2>2, <2>3
<1>3. /\ inst' \in [Inst -> Link]
      /\ \A j \in Inst : inst'[j].closed = inst[j].closed /\ inst'[j].handle = inst[j].handle
  <2>1. CASE GetAliang(d)
    BY <2>1 DEF GetAliang, OutboundTypeOK, Link
  <2>2. CASE DialStep(d) \/ Abandon(d)
    <3> DEFINE i == dial[d].of
    <3>1. i \in Inst
      BY <2>2 DEF DialStep, BeginDial, Attempt, Abandon, Named
    <3>2. inst' \in {inst, MarkConnecting(i), MarkSuccess(i), MarkFailure(i)}
      BY <2>2 DEF DialStep, BeginDial, Attempt, Abandon
    <3> HIDE DEF i, Moved
    <3>3. QED
      BY <3>1, <3>2, MarksKeepTypes
  <2>3. QED
    BY <2>1, <2>2
<1>4. OutboundTypeOK'
  BY <1>1, <1>2, <1>3 DEF OutboundTypeOK, Link
<1>5. Beside
  BY <1>1, <1>3 DEF OutboundTypeOK, Beside, Runs
<1>6. Named' /\ Trying'
  BY <1>1, <1>2 DEF OutboundTypeOK, Named, Trying, Runs
<1>7. QED
  BY <1>4, <1>5, <1>6, BesideKeeps

\* A refresh takes the mutex and the registry; what was registered before is watched.
LEMMA SwapKeeps ==
    ASSUME LinkInv, NEW i \in Inst, Swap(i)
    PROVE  LinkInv'
<1> USE OutboundAssumption DEF LinkInv
<1>1. /\ refresh[i].pc = "new" /\ lock = NoInst /\ lock' = i /\ registry' = i
      /\ UNCHANGED <<inst, monitor, dial, relay>>
  BY DEF Swap
<1> DEFINE pc == IF registry = NoInst THEN "closed" ELSE "closing"
<1>2. refresh' = [refresh EXCEPT ![i] = [@ EXCEPT !.pc = pc, !.old = registry]]
  BY DEF Swap
<1>3. OutboundTypeOK'
  <2>1. pc \in {"closed", "closing"} /\ registry \in Inst \cup {NoInst} /\ refresh[i] \in Refresh
    BY TypeInParts
  <2> HIDE DEF pc
  <2>2. [refresh[i] EXCEPT !.pc = pc, !.old = registry] \in Refresh
    BY <2>1 DEF Refresh
  <2>3. refresh' \in [Inst -> Refresh]
    BY <1>2, <2>2, TypeInParts, ExceptKeeps
  <2>4. QED
    BY <1>1, <2>3 DEF OutboundTypeOK, Refresh, Link, Monitor
<1>4. /\ refresh'[i].pc = pc /\ refresh'[i].old = registry
      /\ \A j \in Inst \ {i} : refresh'[j] = refresh[j]
  BY <1>2 DEF OutboundTypeOK
<1>5. Holder'
  BY <1>1, <1>4 DEF Holder
<1>6. Fresh'
  BY <1>1, <1>4 DEF Fresh
<1>7. Idle'
  BY <1>1 DEF Idle
<1>8. Phase'
  <2>1. CASE registry = NoInst
    BY <1>1, <1>4, <2>1 DEF Idle, Phase, PhaseOf, Unwatched, Runs
  <2>2. CASE registry # NoInst
    <3>1. registry \in Inst /\ refresh[registry].pc = "done"
      BY <1>1, <2>2 DEF OutboundTypeOK, Holder
    <3>2. ~inst[registry].closed /\ Watched(registry)
      BY <1>1, <2>2 DEF Idle
    <3>3. refresh'[registry].pc = "done"
      BY <1>1, <1>4, <3>1
    <3>4. Watched(registry) => Watched(refresh[i].old)'
      BY <1>1, <1>4 DEF Watched, Runs
    <3>5. PhaseOf(i)'
      BY <1>1, <1>4, <2>2, <3>1, <3>2, <3>3, <3>4 DEF PhaseOf
    <3>6. QED
      BY <1>1, <3>5 DEF Phase
  <2>3. QED
    BY <2>1, <2>2
<1>9. Named' /\ Trying'
  BY <1>1 DEF Named, Trying, Runs
<1>10. QED
  BY <1>3, <1>5, <1>6, <1>7, <1>8, <1>9

\* The old instance is marked closed; its monitor goes on.
LEMMA CloseKeeps ==
    ASSUME LinkInv, NEW i \in Inst, Close(i)
    PROVE  LinkInv'
<1> USE OutboundAssumption DEF LinkInv
<1> DEFINE old == refresh[i].old
<1>1. refresh[i].pc = "closing" /\ lock = i
  BY DEF Close, Holder
<1>2. old \in Inst \ {i} /\ refresh[old].pc = "done" /\ ~inst[old].closed /\ Watched(old)
  BY <1>1 DEF Phase, PhaseOf
<1>3. UNCHANGED <<registry, lock, monitor, dial, relay>>
  BY DEF Close
<1>4. /\ refresh' = [refresh EXCEPT ![i] = [@ EXCEPT !.pc = "stopping"]]
      /\ inst' = [inst EXCEPT ![old] = [@ EXCEPT !.closed = TRUE]]
  BY <1>2 DEF Close
<1> HIDE DEF old
<1>5. OutboundTypeOK'
  <2>1. [refresh[i] EXCEPT !.pc = "stopping"] \in Refresh
    BY TypeInParts DEF Refresh
  <2>2. [inst[old] EXCEPT !.closed = TRUE] \in Link
    <3>1. inst[old] \in Link
      BY <1>2, TypeInParts
    <3>2. QED
      BY <3>1 DEF Link
  <2>3. refresh' \in [Inst -> Refresh] /\ inst' \in [Inst -> Link]
    BY <1>2, <1>4, <2>1, <2>2, TypeInParts, ExceptKeeps
  <2>4. QED
    BY <1>3, <2>3 DEF OutboundTypeOK, Refresh, Link, Monitor
<1>6. /\ refresh'[i] = [refresh[i] EXCEPT !.pc = "stopping"]
      /\ \A j \in Inst \ {i} : refresh'[j] = refresh[j]
  BY <1>4 DEF OutboundTypeOK
<1>7. /\ \A j \in Inst : inst'[j].handle = inst[j].handle
      /\ \A j \in Inst \ {old} : inst'[j] = inst[j]
  BY <1>2, <1>4 DEF OutboundTypeOK
<1>8. refresh'[i].pc = "stopping" /\ refresh'[i].old = old
  BY <1>6 DEF OutboundTypeOK, old
<1>9. Holder'
  BY <1>1, <1>3, <1>6, <1>8 DEF Holder
<1>10. Fresh'
  BY <1>1, <1>2, <1>3, <1>6, <1>7 DEF Fresh
<1>11. Idle'
  BY <1>1, <1>3 DEF Idle
<1>12. Phase'
  <2>1. refresh'[old].pc = "done"
    BY <1>2, <1>6
  <2>2. Watched(refresh[i].old)'
    BY <1>2, <1>3, <1>7, <1>8 DEF Watched, Runs
  <2>3. PhaseOf(i)'
    BY <1>2, <1>8, <2>1, <2>2 DEF PhaseOf
  <2>4. QED
    BY <1>1, <1>3, <2>3 DEF Phase
<1>13. Named' /\ Trying'
  BY <1>3 DEF Named, Trying, Runs
<1>14. QED
  BY <1>5, <1>9, <1>10, <1>11, <1>12, <1>13

\* The monitor of the old instance, if it has one, is cancelled and awaited.
LEMMA StopMonitorKeeps ==
    ASSUME LinkInv, NEW i \in Inst, StopMonitor(i)
    PROVE  LinkInv'
<1> USE OutboundAssumption DEF LinkInv
<1> DEFINE old == refresh[i].old
           m == inst[old].handle
           pc == IF m = NoInst THEN "closed" ELSE "waiting"
<1>1. refresh[i].pc = "stopping" /\ lock = i
  BY DEF StopMonitor, Holder
<1>2. old \in Inst \ {i} /\ refresh[old].pc = "done" /\ Watched(old)
  BY <1>1 DEF Phase, PhaseOf
<1>3. UNCHANGED <<registry, lock, dial, relay>>
  BY DEF StopMonitor
<1>4. /\ refresh' = [refresh EXCEPT ![i] = [@ EXCEPT !.pc = pc, !.awaits = m]]
      /\ inst' = [inst EXCEPT ![old] = [@ EXCEPT !.handle = NoInst]]
      /\ monitor' = IF m = NoInst THEN monitor ELSE [monitor EXCEPT ![m] = [@ EXCEPT !.cancelled = TRUE]]
  BY DEF StopMonitor
<1>5. m \in Inst \cup {NoInst}
  BY <1>2 DEF OutboundTypeOK
<1>6. m \in Inst => refresh[m].pc = "done"
  BY <1>2 DEF Watched, Fresh, Runs
<1>7. \A x \in Inst : Runs(x) => x = m
  BY <1>2 DEF Watched
<1>8. pc \in {"closed", "waiting"} /\ (pc = "closed" <=> m = NoInst)
  OBVIOUS
<1> HIDE DEF old, m, pc
<1>9. OutboundTypeOK'
  <2>1. [refresh[i] EXCEPT !.pc = pc, !.awaits = m] \in Refresh
    <3>1. refresh[i] \in Refresh
      BY TypeInParts
    <3>2. QED
      BY <1>5, <1>8, <3>1 DEF Refresh
  <2>2. [inst[old] EXCEPT !.handle = NoInst] \in Link
    BY <1>2, TypeInParts DEF Link, old
  <2>3. m \in Inst => [monitor[m] EXCEPT !.cancelled = TRUE] \in Monitor
    BY TypeInParts DEF Monitor
  <2>4. refresh' \in [Inst -> Refresh] /\ inst' \in [Inst -> Link]
    BY <1>2, <1>4, <2>1, <2>2, TypeInParts, ExceptKeeps
  <2>5. monitor' \in [Inst -> Monitor]
    BY <1>4, <1>5, <2>3, TypeInParts, ExceptKeeps
  <2>6. QED
    BY <1>3, <2>4, <2>5 DEF OutboundTypeOK, Refresh, Link, Monitor
<1>10. /\ refresh'[i].pc = pc /\ refresh'[i].awaits = m
       /\ \A j \in Inst \ {i} : refresh'[j] = refresh[j]
  BY <1>4 DEF OutboundTypeOK
<1>11. \A j \in Inst : /\ inst'[j].closed = inst[j].closed
                       /\ inst'[j].handle = inst[j].handle \/ inst'[j].handle = NoInst
  BY <1>4 DEF OutboundTypeOK
<1>12. \A x \in Inst : /\ monitor'[x].pc = monitor[x].pc /\ monitor'[x].of = monitor[x].of
                       /\ monitor'[x].attempts = monitor[x].attempts
                       /\ x # m => monitor'[x] = monitor[x]
  BY <1>4 DEF OutboundTypeOK
<1>13. Holder'
  BY <1>1, <1>3, <1>8, <1>10 DEF Holder
<1>14. Fresh'
  <2> SUFFICES ASSUME NEW j \in Inst, refresh'[j].pc # "done"
               PROVE  /\ monitor'[j].pc = "none" /\ ~monitor'[j].cancelled
                      /\ inst'[j].handle = NoInst /\ ~inst'[j].closed
    BY DEF Fresh
  <2>1. refresh[j].pc # "done"
    BY <1>1, <1>10
  <2>2. j # m
    BY <1>6, <2>1
  <2>3. QED
    BY <1>11, <1>12, <2>1, <2>2 DEF Fresh
<1>15. Idle'
  BY <1>1, <1>3 DEF Idle
<1>16. Phase'
  <2>1. \A x \in Inst : Runs(x)' => x = m
    BY <1>7, <1>12 DEF Runs
  <2>2. PhaseOf(i)'
    BY <1>5, <1>8, <1>10, <2>1 DEF PhaseOf, Unwatched
  <2>3. QED
    BY <1>1, <1>3, <2>2 DEF Phase
<1>17. Named' /\ Trying'
  BY <1>3, <1>12 DEF Named, Trying, Runs
<1>18. QED
  BY <1>9, <1>13, <1>14, <1>15, <1>16, <1>17

\* The awaited monitor is gone, and the registered instance is read: none runs meanwhile.
LEMMA AwaitKeeps ==
    ASSUME LinkInv, NEW i \in Inst, MonitorIsGone(i) \/ ReadRegistered(i)
    PROVE  LinkInv'
<1> USE OutboundAssumption DEF LinkInv
<1>1. refresh[i].pc \in {"waiting", "closed"} /\ lock = i /\ registry = i
  BY DEF MonitorIsGone, ReadRegistered, Holder
<1>2. UNCHANGED <<registry, lock, inst, monitor, dial, relay>>
  BY DEF MonitorIsGone, ReadRegistered
<1>3. Unwatched
  <2>1. CASE MonitorIsGone(i)
    BY <1>1, <2>1 DEF MonitorIsGone, Phase, PhaseOf, Unwatched, Runs
  <2>2. CASE ReadRegistered(i)
    BY <1>1, <2>2 DEF ReadRegistered, Phase, PhaseOf
  <2>3. QED
    BY <2>1, <2>2
<1>4. PICK pc \in {"closed", "starting"}, x \in Inst \cup {NoInst} :
          /\ refresh' = [refresh EXCEPT ![i] = [@ EXCEPT !.pc = pc, !.starts = x]]
          /\ pc = "starting" => x = i
  <2>1. CASE MonitorIsGone(i)
    <3>1. refresh' = [refresh EXCEPT ![i] = [@ EXCEPT !.pc = "closed", !.starts = refresh[i].starts]]
      BY <2>1 DEF MonitorIsGone, OutboundTypeOK
    <3>2. refresh[i].starts \in Inst \cup {NoInst}
      BY DEF OutboundTypeOK
    <3>3. QED
      BY <3>1, <3>2
  <2>2. CASE ReadRegistered(i)
    <3>1. refresh' = [refresh EXCEPT ![i] = [@ EXCEPT !.pc = "starting", !.starts = i]]
      BY <1>1, <2>2 DEF ReadRegistered
    <3>2. QED
      BY <3>1
  <2>3. QED
    BY <2>1, <2>2
<1>5. OutboundTypeOK'
  <2>1. [refresh[i] EXCEPT !.pc = pc, !.starts = x] \in Refresh
    <3>1. refresh[i] \in Refresh
      BY TypeInParts
    <3>2. QED
      BY <1>4, <3>1 DEF Refresh
  <2>2. refresh' \in [Inst -> Refresh]
    BY <1>4, <2>1, TypeInParts, ExceptKeeps
  <2>3. QED
    BY <1>2, <2>2 DEF OutboundTypeOK, Refresh, Link, Monitor
<1>6. /\ refresh'[i].pc = pc /\ refresh'[i].starts = x
      /\ \A j \in Inst \ {i} : refresh'[j] = refresh[j]
  BY <1>4 DEF OutboundTypeOK
<1>7. Holder'
  BY <1>1, <1>2, <1>6 DEF Holder
<1>8. Fresh'
  BY <1>1, <1>2, <1>6 DEF Fresh
<1>9. Idle'
  BY <1>1, <1>2 DEF Idle
<1>10. Phase'
  <2>1. Unwatched'
    BY <1>2, <1>3 DEF Unwatched, Runs
  <2>2. PhaseOf(i)'
    BY <1>4, <1>6, <2>1 DEF PhaseOf
  <2>3. QED
    BY <1>1, <1>2, <2>2 DEF Phase
<1>11. Named' /\ Trying'
  BY <1>2 DEF Named, Trying, Runs
<1>12. QED
  BY <1>5, <1>7, <1>8, <1>9, <1>10, <1>11

\* The refresh ends: the monitor it starts is the only one, of the instance it registered.
LEMMA StartHealthMonitorKeeps ==
    ASSUME LinkInv, NEW i \in Inst, StartHealthMonitor(i)
    PROVE  LinkInv'
<1> USE OutboundAssumption DEF LinkInv
<1>1. refresh[i].pc = "starting" /\ lock = i /\ registry = i
  BY DEF StartHealthMonitor, Holder
<1>2. refresh[i].starts = i /\ Unwatched
  BY <1>1 DEF Phase, PhaseOf
<1>3. ~monitor[i].cancelled /\ inst[i].handle = NoInst /\ ~inst[i].closed
  BY <1>1 DEF Fresh
<1>4. /\ registry' = i /\ lock' = NoInst /\ UNCHANGED <<dial, relay>>
      /\ refresh' = [refresh EXCEPT ![i] = [@ EXCEPT !.pc = "done"]]
      /\ inst' = [inst EXCEPT ![i] = [@ EXCEPT !.handle = i]]
      /\ monitor' = [monitor EXCEPT ![i] = [@ EXCEPT !.pc = "deciding", !.of = i]]
  BY <1>1, <1>2, <1>3 DEF StartHealthMonitor
<1>5. OutboundTypeOK'
  <2>1. [refresh[i] EXCEPT !.pc = "done"] \in Refresh
    BY TypeInParts DEF Refresh
  <2>2. [inst[i] EXCEPT !.handle = i] \in Link
    BY TypeInParts DEF Link
  <2>3. [monitor[i] EXCEPT !.pc = "deciding", !.of = i] \in Monitor
    <3>1. monitor[i] \in Monitor
      BY TypeInParts
    <3>2. QED
      BY <3>1 DEF Monitor
  <2>4. refresh' \in [Inst -> Refresh] /\ inst' \in [Inst -> Link] /\ monitor' \in [Inst -> Monitor]
    BY <1>4, <2>1, <2>2, <2>3, TypeInParts, ExceptKeeps
  <2>5. QED
    BY <1>4, <2>4 DEF OutboundTypeOK, Refresh, Link, Monitor
<1>6. /\ refresh'[i].pc = "done"
      /\ inst'[i].handle = i /\ inst'[i].closed = inst[i].closed
      /\ monitor'[i].pc = "deciding" /\ monitor'[i].of = i
      /\ monitor'[i].cancelled = monitor[i].cancelled
  BY <1>4 DEF OutboundTypeOK
<1>7. \A j \in Inst \ {i} : refresh'[j] = refresh[j] /\ inst'[j] = inst[j] /\ monitor'[j] = monitor[j]
  BY <1>4 DEF OutboundTypeOK
<1>8. Holder'
  BY <1>1, <1>4, <1>6, <1>7 DEF Holder
<1>9. Fresh'
  BY <1>6, <1>7 DEF Fresh
<1>10. Idle'
  <2>1. Watched(registry)'
    BY <1>2, <1>3, <1>4, <1>6, <1>7 DEF Watched, Unwatched, Runs
  <2>2. QED
    BY <1>3, <1>4, <1>6, <2>1 DEF Idle
<1>11. Phase'
  BY <1>4 DEF Phase
<1>12. Named' /\ Trying'
  BY <1>4, <1>6, <1>7 DEF Named, Trying, Runs
<1>13. QED
  BY <1>5, <1>8, <1>9, <1>10, <1>11, <1>12

\* Every step of the outbound keeps the invariant, and so does a stuttering one.
LEMMA OutboundStepKeeps == LinkInv /\ [OutboundNext]_vars => LinkInv'
<1> SUFFICES ASSUME LinkInv, [OutboundNext]_vars PROVE LinkInv'
  OBVIOUS
<1>1. ASSUME NEW i \in Inst, Swap(i) PROVE LinkInv'
  BY <1>1, SwapKeeps
<1>2. ASSUME NEW i \in Inst, RefreshStep(i) PROVE LinkInv'
  BY <1>2, CloseKeeps, StopMonitorKeeps, AwaitKeeps, StartHealthMonitorKeeps DEF RefreshStep
<1>3. ASSUME NEW i \in Inst, MonitorStep(i) PROVE LinkInv'
  BY <1>3, MonitorStepKeeps
<1>4. ASSUME NEW d \in Dial, GetAliang(d) \/ DialStep(d) \/ Abandon(d) PROVE LinkInv'
  BY <1>4, DialStepKeeps
<1>5. ASSUME RelayChanges \/ UNCHANGED vars PROVE LinkInv'
  <2>1. UNCHANGED <<registry, lock, refresh, inst, monitor, dial>> /\ relay' \in BOOLEAN
    BY <1>5 DEF RelayChanges, vars, LinkInv, OutboundTypeOK
  <2>2. OutboundTypeOK'
    BY <2>1 DEF LinkInv, OutboundTypeOK
  <2>3. Beside /\ Named' /\ Trying'
    BY <2>1 DEF LinkInv, Beside, Named, Trying, Runs
  <2>4. QED
    BY <2>2, <2>3, BesideKeeps
<1>6. QED
  BY <1>1, <1>2, <1>3, <1>4, <1>5 DEF OutboundNext

\* What is inductive holds of every behaviour.
LEMMA LinkInvAlways == OutboundSpec => []LinkInv
<1>1. QED
  BY OutboundInitHolds, OutboundStepKeeps, PTL DEF OutboundSpec

(***************************************************************************)
(* Instances, refreshes, monitors and dials keep the shapes the code gives *)
(* them, whatever the threshold and the attempts of a dial.                *)
(***************************************************************************)
THEOREM OutboundTypeCorrect == OutboundSpec => []OutboundTypeOK
<1>1. LinkInv => OutboundTypeOK
  BY DEF LinkInv
<1>2. QED
  BY <1>1, LinkInvAlways, PTL

(***************************************************************************)
(* However often the outbound is refreshed, and however its monitors and   *)
(* dials interleave with that, between refreshes exactly one monitor runs, *)
(* the one that the registered instance, which is open, can still stop.    *)
(***************************************************************************)
THEOREM OneMonitorAlways == OutboundSpec => []OneMonitorOfTheCurrent
<1>1. LinkInv => OneMonitorOfTheCurrent
  BY DEF LinkInv, Idle, Watched, OneMonitorOfTheCurrent
<1>2. QED
  BY <1>1, LinkInvAlways, PTL
=============================================================================
