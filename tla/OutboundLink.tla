----------------------------- MODULE OutboundLink -----------------------------
(***************************************************************************)
(* The AliangGate outbound (src/outbound/proxy/aliang) and its entry in the*)
(* registry (src/outbound/registry.go).  A refresh puts a new instance in  *)
(* the place of the old one, closes that and starts the health monitor of  *)
(* whatever is registered then; refreshes come from start-up and then from *)
(* core config commits, which hold the commit mutex.  Meanwhile traffic    *)
(* and the dashboard dial, and the relay comes and goes.                   *)
(*                                                                         *)
(* An instance, its refresh and the monitor that refresh starts bear one   *)
(* name.  A degraded link counts as connected; latencies and the connection*)
(* pool, which no dial uses, are left out.                                 *)
(***************************************************************************)
EXTENDS Naturals

CONSTANTS
    Inst,           \* instances of the outbound, one per refresh
    NoInst,         \* no instance, no monitor
    Dial,           \* dials of traffic and of the dashboard that may go on at once
    Threshold,      \* failures that make the link disconnected
    MaxAttempts     \* attempts of one dial

ASSUME OutboundAssumption ==
    /\ NoInst \notin Inst
    /\ Threshold \in Nat \ {0} /\ MaxAttempts \in Nat \ {0}

VARIABLES
    registry,   \* the instance registered as "aliang"
    lock,       \* the refresh that holds the commit mutex
    refresh,    \* per refresh: how far it is
    inst,       \* per instance: closed, monitorCancel, link state
    monitor,    \* per monitor: its goroutine
    dial,       \* per dial: its goroutine
    relay       \* whether the relay answers

vars == <<registry, lock, refresh, inst, monitor, dial, relay>>

OutboundInit ==
    /\ registry = NoInst
    /\ lock = NoInst
    /\ refresh = [i \in Inst |-> [pc |-> "new", old |-> NoInst, awaits |-> NoInst, starts |-> NoInst]]
    /\ inst = [i \in Inst |-> [closed |-> FALSE, handle |-> NoInst, link |-> "unknown", failures |-> 0]]
    /\ monitor = [i \in Inst |-> [pc |-> "none", of |-> NoInst, attempts |-> 0, cancelled |-> FALSE]]
    /\ dial = [d \in Dial |-> [pc |-> "idle", of |-> NoInst, attempts |-> 0]]
    /\ relay \in BOOLEAN

(***************************************************************************)
(* linkStatusTracker.  The count is only compared with the threshold.      *)
(***************************************************************************)
MarkConnecting(i) == [inst EXCEPT ![i].link = "connecting"]

MarkSuccess(i) == [inst EXCEPT ![i].link = "connected", ![i].failures = 0]

MarkFailure(i) ==
    LET n == IF inst[i].failures < Threshold THEN inst[i].failures + 1 ELSE Threshold
    IN  [inst EXCEPT ![i].failures = n, ![i].link = IF n < Threshold THEN @ ELSE "disconnected"]

(***************************************************************************)
(* A refresh: RefreshAliang, Close of the old instance, the new monitor.   *)
(***************************************************************************)
Swap_Unlocked(i) ==
    /\ refresh[i].pc = "new"
    /\ lock' = i
    /\ registry' = i
    /\ refresh' = [refresh EXCEPT ![i].pc = IF registry = NoInst THEN "closed" ELSE "closing",
                                  ![i].old = registry]
    /\ UNCHANGED <<inst, monitor, dial, relay>>

Swap(i) ==
    /\ refresh[i].pc = "new" /\ lock = NoInst
    /\ lock' = i
    /\ registry' = i
    /\ refresh' = [refresh EXCEPT ![i].pc = IF registry = NoInst THEN "closed" ELSE "closing",
                                  ![i].old = registry]
    /\ UNCHANGED <<inst, monitor, dial, relay>>

\* Close, under the instance's own mutex
Close(i) ==
    LET old == refresh[i].old
    IN  /\ refresh[i].pc = "closing"
        /\ inst' = [inst EXCEPT ![old].closed = TRUE]
        /\ refresh' = [refresh EXCEPT ![i].pc = IF inst[old].closed THEN "closed" ELSE "stopping"]
        /\ UNCHANGED <<registry, lock, monitor, dial, relay>>

StopMonitor_NoCancel(i) ==
    LET old == refresh[i].old
        m == inst[old].handle
    IN  /\ refresh[i].pc = "stopping"
        /\ inst' = [inst EXCEPT ![old].handle = NoInst]
        /\ refresh' = [refresh EXCEPT ![i].pc = IF m = NoInst THEN "closed" ELSE "waiting",
                                      ![i].awaits = m]
        /\ UNCHANGED <<registry, lock, monitor, dial, relay>>

\* stopHealthMonitor: the cancel follows the critical section at once
StopMonitor(i) ==
    LET old == refresh[i].old
        m == inst[old].handle
    IN  /\ refresh[i].pc = "stopping"
        /\ inst' = [inst EXCEPT ![old].handle = NoInst]
        /\ monitor' = IF m = NoInst THEN monitor ELSE [monitor EXCEPT ![m].cancelled = TRUE]
        /\ refresh' = [refresh EXCEPT ![i].pc = IF m = NoInst THEN "closed" ELSE "waiting",
                                      ![i].awaits = m]
        /\ UNCHANGED <<registry, lock, dial, relay>>

MonitorIsGone(i) ==
    /\ refresh[i].pc = "waiting"
    /\ monitor[refresh[i].awaits].pc = "gone"
    /\ refresh' = [refresh EXCEPT ![i].pc = "closed"]
    /\ UNCHANGED <<registry, lock, inst, monitor, dial, relay>>

\* StartAliangHealthMonitor reads the registry ...
ReadRegistered(i) ==
    /\ refresh[i].pc = "closed"
    /\ refresh' = [refresh EXCEPT ![i].pc = "starting", ![i].starts = registry]
    /\ UNCHANGED <<registry, lock, inst, monitor, dial, relay>>

\* ... and starts that instance's monitor unless it has one, closed or not
StartHealthMonitor(i) ==
    LET target == refresh[i].starts
    IN  /\ refresh[i].pc = "starting"
        /\ refresh' = [refresh EXCEPT ![i].pc = "done"]
        /\ lock' = NoInst
        /\ \/ /\ inst[target].handle # NoInst
              /\ UNCHANGED <<inst, monitor>>
           \/ /\ inst[target].handle = NoInst
              /\ inst' = [inst EXCEPT ![target].handle = i]
              /\ monitor' = [monitor EXCEPT ![i].pc = "deciding", ![i].of = target]
        /\ UNCHANGED <<registry, dial, relay>>

(***************************************************************************)
(* runHealthMonitor.                                                       *)
(***************************************************************************)
Recoverable_NotConnecting(link) == link \in {"unknown", "disconnected"}

\* isRecoverable
Recoverable(link) == link # "connected"

Decide(m) ==
    /\ monitor[m].pc = "deciding"
    /\ monitor' = [monitor EXCEPT ![m].pc =
                      IF Recoverable(inst[monitor[m].of].link) THEN "probing" ELSE "waiting"]
    /\ UNCHANGED <<registry, lock, refresh, inst, dial, relay>>

\* ProbeLink, which leaves the state of a closed instance alone
BeginProbe(m) ==
    LET i == monitor[m].of
    IN  /\ monitor[m].pc = "probing"
        /\ inst' = IF inst[i].closed THEN inst ELSE MarkConnecting(i)
        /\ monitor' = [monitor EXCEPT ![m].pc = IF inst[i].closed THEN "waiting" ELSE "dialing",
                                      ![m].attempts = 0]
        /\ UNCHANGED <<registry, lock, refresh, dial, relay>>

\* an attempt of dialWithRetry; a cancelled one fails and is the last
Probe(m) ==
    LET i == monitor[m].of
        up == relay /\ ~monitor[m].cancelled
        last == monitor[m].cancelled \/ monitor[m].attempts + 1 = MaxAttempts
    IN  /\ monitor[m].pc = "dialing"
        /\ monitor' = [monitor EXCEPT ![m].pc = IF up \/ last THEN "waiting" ELSE @,
                                      ![m].attempts = @ + 1]
        /\ inst' = IF up THEN MarkSuccess(i) ELSE IF last THEN MarkFailure(i) ELSE inst
        /\ UNCHANGED <<registry, lock, refresh, dial, relay>>

\* the timer, which a select may take although the monitor was cancelled ...
Wake(m) ==
    /\ monitor[m].pc = "waiting"
    /\ monitor' = [monitor EXCEPT ![m].pc = "deciding"]
    /\ UNCHANGED <<registry, lock, refresh, inst, dial, relay>>

\* ... and ctx.Done
Leave(m) ==
    /\ monitor[m].pc = "waiting" /\ monitor[m].cancelled
    /\ monitor' = [monitor EXCEPT ![m].pc = "gone"]
    /\ UNCHANGED <<registry, lock, refresh, inst, dial, relay>>

(***************************************************************************)
(* Dials: DialContext, and ProbeLink for the dashboard.                    *)
(***************************************************************************)
GetAliang(d) ==
    /\ dial[d].pc = "idle" /\ registry # NoInst
    /\ dial' = [dial EXCEPT ![d] = [pc |-> "got", of |-> registry, attempts |-> 0]]
    /\ UNCHANGED <<registry, lock, refresh, inst, monitor, relay>>

BeginDial(d) ==
    LET i == dial[d].of
    IN  /\ dial[d].pc = "got"
        /\ inst' = IF inst[i].closed THEN inst ELSE MarkConnecting(i)
        /\ dial' = [dial EXCEPT ![d].pc = IF inst[i].closed THEN "idle" ELSE "dialing"]
        /\ UNCHANGED <<registry, lock, refresh, monitor, relay>>

Attempt(d) ==
    LET last == dial[d].attempts + 1 = MaxAttempts
    IN  /\ dial[d].pc = "dialing"
        /\ dial' = [dial EXCEPT ![d].pc = IF relay \/ last THEN "idle" ELSE @,
                                ![d].attempts = @ + 1]
        /\ inst' = IF relay THEN MarkSuccess(dial[d].of)
                   ELSE IF last THEN MarkFailure(dial[d].of) ELSE inst
        /\ UNCHANGED <<registry, lock, refresh, monitor, relay>>

\* the context of the caller ends, which counts as a failure of the link
Abandon(d) ==
    /\ dial[d].pc = "dialing"
    /\ dial' = [dial EXCEPT ![d].pc = "idle"]
    /\ inst' = MarkFailure(dial[d].of)
    /\ UNCHANGED <<registry, lock, refresh, monitor, relay>>

RelayChanges ==
    /\ relay' = ~relay
    /\ UNCHANGED <<registry, lock, refresh, inst, monitor, dial>>

RefreshStep(i) ==
    Close(i) \/ StopMonitor(i) \/ MonitorIsGone(i) \/ ReadRegistered(i) \/ StartHealthMonitor(i)

MonitorStep(m) == Decide(m) \/ BeginProbe(m) \/ Probe(m) \/ Wake(m) \/ Leave(m)

DialStep(d) == BeginDial(d) \/ Attempt(d)

OutboundNext ==
    \/ \E i \in Inst : Swap(i) \/ RefreshStep(i) \/ MonitorStep(i)
    \/ \E d \in Dial : GetAliang(d) \/ DialStep(d) \/ Abandon(d)
    \/ RelayChanges

(***************************************************************************)
(* Goroutines go on and timers expire.  A select with both cases ready     *)
(* takes either with the same chance, so that a cancelled monitor leaves.  *)
(* No one is obliged to dial or to change the configuration.               *)
(***************************************************************************)
OutboundFairness ==
    /\ \A i \in Inst : WF_vars(RefreshStep(i)) /\ WF_vars(MonitorStep(i)) /\ SF_vars(Leave(i))
    /\ \A d \in Dial : WF_vars(DialStep(d))

OutboundSpec == OutboundInit /\ [][OutboundNext]_vars /\ OutboundFairness

(***************************************************************************)
(* Properties.                                                             *)
(***************************************************************************)
(* Instances, refreshes, monitors and dials keep the shapes the code gives  *)
(* them; the count of failures stops at the threshold.                      *)
OutboundTypeOK ==
    LET Name == Inst \cup {NoInst} IN
    /\ {registry, lock} \subseteq Name /\ relay \in BOOLEAN
    /\ refresh \in [Inst -> [pc : {"new", "closing", "stopping", "waiting", "closed", "starting", "done"},
                             old : Name, awaits : Name, starts : Name]]
    /\ inst \in [Inst -> [closed : BOOLEAN, handle : Name, failures : 0..Threshold,
                          link : {"unknown", "connecting", "connected", "disconnected"}]]
    /\ monitor \in [Inst -> [pc : {"none", "deciding", "probing", "dialing", "waiting", "gone"},
                             of : Name, attempts : 0..MaxAttempts, cancelled : BOOLEAN]]
    /\ dial \in [Dial -> [pc : {"idle", "got", "dialing"}, of : Name, attempts : 0..MaxAttempts]]

Runs(m) == monitor[m].pc \notin {"none", "gone"}

(* Between refreshes exactly one monitor runs, it is the one the registered *)
(* instance can still stop, and that instance is open: no refresh leaves    *)
(* the monitor of a replaced instance behind or starts one on it.           *)
OneMonitorOfTheCurrent ==
    lock = NoInst /\ registry # NoInst =>
        /\ ~inst[registry].closed
        /\ \A m \in Inst : Runs(m) <=> inst[registry].handle = m
        /\ \A m \in Inst : Runs(m) => monitor[m].of = registry /\ ~monitor[m].cancelled

(* A refresh returns: Close waits for a monitor that may be in the middle   *)
(* of a probe of the instance that is being closed.                         *)
RefreshReturns == \A i \in Inst : refresh[i].pc = "closing" ~> refresh[i].pc = "done"

(* When the relay answers for good, the registered link is found connected  *)
(* again and again without anyone clicking, though dials that were given up *)
(* or failed late count against it.                                         *)
LinkHeals ==
    <>[]relay => []<>(registry # NoInst => inst[registry].link = "connected")

(* When the relay is gone for good, the registered link does not stay       *)
(* connected, even without traffic and with no dashboard open.  The code    *)
(* does not ensure it: a connected link is not probed.                      *)
LossIsNoticed ==
    <>[]~relay => []<>(registry # NoInst => inst[registry].link # "connected")
=============================================================================
