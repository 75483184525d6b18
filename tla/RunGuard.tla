------------------------------ MODULE RunGuard ------------------------------
(***************************************************************************)
(* One AI session of the agent and the guard of its turns                  *)
(* (src/app/http/services/agent_ai_run_guard.go, the turn itself in        *)
(* agent_ai.go and agent_ai_agentcore.go).  A message is checked, begun    *)
(* and guarded in three critical sections of the manager's mutex; the run  *)
(* then works on its own, may ignore its cancellation, bind its native id  *)
(* late, come back after it was declared dead, or never come back.         *)
(*                                                                         *)
(* A caller may also tell the session which native id to resume, with      *)
(* ai.session.create or ai.run.start: one it has been told of before.      *)
(*                                                                         *)
(* Left out: approvals, steering, the TUI route, goal preemption, the      *)
(* other providers, reserved bindings, imported native sessions, the       *)
(* persisted copy of bindings, and the cancellation of a run whose guard   *)
(* or activity the session has lost, which needs two messages handled at   *)
(* once.                                                                   *)
(***************************************************************************)
EXTENDS Naturals, Sequences

CONSTANTS
    Turn,       \* messages that become a turn
    Clear,      \* messages that are the command /clear
    None,       \* no turn
    Supply,     \* bound: turns whose native ids callers supply to resume
    Overlap     \* bound: whether two sockets may have their messages handled at once

ASSUME RunGuardAssumption ==
    /\ None \notin Turn \cup Clear /\ Turn \cap Clear = {}
    /\ Supply \subseteq Turn /\ Overlap \in BOOLEAN

VARIABLES
    session,    \* the session in the manager, its binding with it
    turn,       \* per turn: its handler, its run, its guard, its emitter
    clear       \* per /clear: where its handler is

vars == <<session, turn, clear>>

(***************************************************************************)
(* owner stands for cancel, activity and activeWriter, which are set and   *)
(* reset together.  A native session id is named by the turn that began it.*)
(* Three fields are not in the code.  torn: the turn was declared dead     *)
(* between a test and the write it allowed.  named: its run has begun a    *)
(* native session, of which callers may hear (ai.session.bound, ai.done,   *)
(* the device's list of sessions).  fedBack: a caller supplied that id     *)
(* after the turn was declared dead.                                       *)
(***************************************************************************)
RunGuardInit ==
    /\ session = [owner |-> None, seq |-> 0, finalized |-> 0, guard |-> None,
                  resume |-> None, binding |-> None, history |-> <<>>]
    /\ turn = [t \in Turn |->
                  [pc |-> "new", seq |-> 0, guarded |-> FALSE, resumeAtStart |-> None,
                   bindingAtStart |-> None, cancelled |-> FALSE, done |-> FALSE,
                   verdict |-> "none", grace |-> "off", stalled |-> FALSE, terminal |-> "none",
                   torn |-> FALSE, named |-> FALSE, fedBack |-> FALSE]]
    /\ clear = [k \in Clear |-> "new"]

Handling == {t \in Turn : turn[t].pc \in {"asked", "checked", "begun"}} \cup {k \in Clear : clear[k] = "checked"}

\* frames of one socket are handled one after the other
MayHandle == Overlap \/ Handling = {}

\* the emitter lets one terminal frame through
Emit(r, frame) == IF r.terminal = "none" THEN [r EXCEPT !.terminal = frame] ELSE r

(***************************************************************************)
(* The native id to resume, as callers supply it.                          *)
(***************************************************************************)
Dead(t) == turn[t].grace \in {"finalized", "over"}

Supplied == {None} \cup {t \in Supply : turn[t].named}

FirstNonEmpty(x, y) == IF x # None THEN x ELSE y

\* the caller's id takes the place of the session's
FedBack(x) == IF x # None /\ Dead(x) THEN [turn EXCEPT ![x].fedBack = TRUE] ELSE turn

\* ai.session.create of a session that exists, which may be busy: a lost id
\* comes back from the binding (seedConfirmedBindingResumeLocked)
CreateAgain ==
    /\ MayHandle
    /\ \E x \in Supplied :
          /\ session' = [session EXCEPT !.resume = FirstNonEmpty(x, FirstNonEmpty(@, session.binding))]
          /\ turn' = FedBack(x)
    /\ UNCHANGED clear

\* ai.run.start, before it becomes an ai.message: the binding's id goes before
\* the caller's, and the session takes it though it may be busy
RunStart(t) ==
    /\ turn[t].pc = "new" /\ MayHandle
    /\ \E x \in IF session.binding = None THEN Supplied ELSE {session.binding} :
          /\ session' = [session EXCEPT !.resume = FirstNonEmpty(x, @)]
          /\ turn' = [(IF session.binding = None THEN FedBack(x) ELSE turn) EXCEPT ![t].pc = "asked"]
    /\ UNCHANGED clear

(***************************************************************************)
(* ai.message.                                                             *)
(***************************************************************************)
CheckBusy(t) ==
    /\ turn[t].pc = "asked" \/ (turn[t].pc = "new" /\ MayHandle)
    /\ turn' = [turn EXCEPT ![t] = IF session.owner = None
                                   THEN [@ EXCEPT !.pc = "checked"]
                                   ELSE [Emit(@, "busy") EXCEPT !.pc = "gone"]]
    /\ UNCHANGED <<session, clear>>

\* the critical section of runUserMessage
Begin(t) ==
    /\ turn[t].pc = "checked"
    /\ session' = [session EXCEPT !.owner = t, !.seq = @ + 1,
                                  !.history = Append(@, [role |-> "user", turn |-> t])]
    /\ turn' = [turn EXCEPT ![t].pc = "begun", ![t].seq = session.seq + 1,
                            ![t].resumeAtStart = session.resume]
    /\ UNCHANGED clear

\* attachRunGuard; the run starts guarded or not
Attach(t) ==
    /\ turn[t].pc = "begun"
    /\ IF session.seq = turn[t].seq
       THEN /\ session' = [session EXCEPT !.guard = t]
            /\ turn' = [turn EXCEPT ![t].pc = "started", ![t].guarded = TRUE,
                                    ![t].bindingAtStart = session.binding]
       ELSE /\ turn' = [turn EXCEPT ![t].pc = "started"]
            /\ UNCHANGED session
    /\ UNCHANGED clear

CheckClear(k) ==
    /\ clear[k] = "new" /\ MayHandle
    /\ clear' = [clear EXCEPT ![k] = IF session.owner = None THEN "checked" ELSE "refused"]
    /\ UNCHANGED <<session, turn>>

\* applyLocalSlashCommand: the binding is not touched
ClearSession(k) ==
    /\ clear[k] = "checked"
    /\ session' = [session EXCEPT !.resume = None, !.history = <<>>, !.seq = 0, !.finalized = 0]
    /\ clear' = [clear EXCEPT ![k] = "gone"]
    /\ UNCHANGED turn

\* ai.stop cancels the run and leaves its guard alone
Stop ==
    /\ MayHandle /\ session.owner # None
    /\ turn' = [turn EXCEPT ![session.owner].cancelled = TRUE]
    /\ UNCHANGED <<session, clear>>

(***************************************************************************)
(* The run.                                                                *)
(***************************************************************************)
SideEffectsAllowed_SeqOnly(t) ==
    session.seq = turn[t].seq /\ session.finalized # turn[t].seq

SideEffectsAllowed(t) ==
    /\ turn[t].guarded => session.guard = t
    /\ session.seq = turn[t].seq
    /\ session.finalized # turn[t].seq

Native(t) == IF turn[t].resumeAtStart = None THEN t ELSE turn[t].resumeAtStart

Move(t, from, to) ==
    /\ turn[t].pc = from
    /\ turn' = [turn EXCEPT ![t].pc = to]
    /\ UNCHANGED <<session, clear>>

\* the kernel's first frame names the native session
NamesSession(t, to) ==
    /\ turn[t].pc = "started"
    /\ turn' = [turn EXCEPT ![t].pc = to, ![t].named = (turn[t].resumeAtStart = None)]
    /\ UNCHANGED <<session, clear>>

Discard(t) == ~SideEffectsAllowed(t) /\ NamesSession(t, "working")

Report_Unfenced(t) == NamesSession(t, "binding")

\* bindAgentCoreNativeSession at that frame: tested here ...
Report(t) == SideEffectsAllowed(t) /\ NamesSession(t, "binding")

\* ... and written by confirmBinding, under the mutex again; an id that is not
\* the binding's is an error that cancels the run, which goes on until it sees it
Bind(t) ==
    /\ turn[t].pc = "binding"
    /\ IF session.binding \in {None, Native(t)}
       THEN /\ session' = [session EXCEPT !.binding = Native(t), !.resume = Native(t)]
            /\ turn' = [turn EXCEPT ![t].pc = "working"]
       ELSE /\ turn' = [turn EXCEPT ![t] = [Emit(@, "mismatch") EXCEPT !.pc = "working", !.cancelled = TRUE]]
            /\ UNCHANGED session
    /\ UNCHANGED clear

\* it may also fail, before its first frame too, or hang with the emitter's mutex held
Succeed(t) == ~turn[t].cancelled /\ Move(t, "working", "answering")

Hang(t) == Move(t, "started", "hung") \/ Move(t, "working", "hung")

Fail(t) ==
    /\ turn[t].pc \in {"started", "working"}
    /\ turn' = [turn EXCEPT ![t] = [Emit(@, IF turn[t].cancelled THEN "stopped" ELSE "error")
                                        EXCEPT !.pc = "returned", !.cancelled = TRUE]]
    /\ UNCHANGED <<session, clear>>

\* the answer is kept only when the turn is still the session's: tested here ...
Answer(t) ==
    /\ turn[t].pc = "answering"
    /\ turn' = [turn EXCEPT ![t] = IF SideEffectsAllowed(t)
                                   THEN [@ EXCEPT !.pc = "writing"]
                                   ELSE [Emit(@, "done") EXCEPT !.pc = "returned", !.cancelled = TRUE]]
    /\ UNCHANGED <<session, clear>>

\* ... and written by appendAssistantHistory, by the turn's number
AppendAnswer(t) ==
    /\ turn[t].pc = "writing"
    /\ session' = IF session.seq = turn[t].seq
                  THEN [session EXCEPT !.history = Append(@, [role |-> "assistant", turn |-> t])]
                  ELSE session
    /\ turn' = [turn EXCEPT ![t].pc = "pinning"]
    /\ UNCHANGED clear

\* setAgentAIResumeSessionIDIfEmpty, by the turn's number; then done
Pin(t) ==
    /\ turn[t].pc = "pinning"
    /\ session' = IF session.seq = turn[t].seq /\ session.resume = None
                  THEN [session EXCEPT !.resume = Native(t)]
                  ELSE session
    /\ turn' = [turn EXCEPT ![t] = [Emit(@, "done") EXCEPT !.pc = "returned", !.cancelled = TRUE]]
    /\ UNCHANGED clear

Owns_SeqOnly(t) == session.seq = turn[t].seq

\* expectGuard of clearRunning and markRunGuardDone, which a turn without guard leaves out
Owns(t) == (turn[t].guarded => session.guard = t) /\ session.seq = turn[t].seq

\* markDone of the guard the session has
Marked(d) == IF session.guard = None THEN d ELSE [d EXCEPT ![session.guard].done = TRUE]

Cleared_KeepsGuard == [session EXCEPT !.owner = None]

\* what clearRunning resets
Cleared == [session EXCEPT !.owner = None, !.guard = None]

MarkReturned(t) ==
    /\ turn[t].pc = "returned"
    /\ turn' = [(IF Owns(t) THEN Marked(turn) ELSE turn) EXCEPT ![t].pc = "leaving"]
    /\ UNCHANGED <<session, clear>>

ClearReturned(t) ==
    /\ turn[t].pc = "leaving"
    /\ session' = IF Owns(t) THEN Cleared ELSE session
    /\ turn' = [(IF Owns(t) THEN Marked(turn) ELSE turn) EXCEPT ![t].pc = "gone"]
    /\ UNCHANGED clear

(***************************************************************************)
(* The guard.                                                              *)
(***************************************************************************)
Killed_NoGrace(r) == [r EXCEPT !.verdict = "killed", !.cancelled = TRUE]

Killed(r) == [r EXCEPT !.verdict = "killed", !.cancelled = TRUE, !.grace = "armed"]

\* scanStaleRuns, the steer that stalled and the watchdog find the guard in the
\* session, under the mutex ...
Condemn ==
    /\ session.guard # None /\ session.owner # None
    /\ turn[session.guard].verdict = "none"
    /\ turn' = [turn EXCEPT ![session.guard].verdict = "condemned"]
    /\ UNCHANGED <<session, clear>>

\* ... and kill it after, once, whatever has become of its turn
Kill(t) ==
    /\ turn[t].verdict = "condemned"
    /\ turn' = [turn EXCEPT ![t] = Killed(@)]
    /\ UNCHANGED <<session, clear>>

GraceExpires(t) ==
    /\ turn[t].grace = "armed"
    /\ turn' = [turn EXCEPT ![t].grace = IF turn[t].done THEN "off" ELSE "firing",
                            ![t].stalled = ~turn[t].done]
    /\ UNCHANGED <<session, clear>>

\* revokeRunResumePointLocked: what a turn that began afresh pinned while it ran
Revoked(t) ==
    IF turn[t].resumeAtStart # None THEN session
    ELSE [session EXCEPT !.resume = None,
                         !.binding = IF @ = turn[t].bindingAtStart THEN @ ELSE None]

\* places between a test and its write
Tearing == {"binding", "writing", "pinning"}

\* finalizeStalledGuard
Finalize(t) ==
    /\ turn[t].grace = "firing"
    /\ IF session.guard = t /\ session.seq = turn[t].seq
       THEN /\ session' = [Revoked(t) EXCEPT !.finalized = turn[t].seq]
            /\ turn' = [turn EXCEPT ![t].grace = "finalized", ![t].torn = turn[t].pc \in Tearing]
       ELSE /\ turn' = [turn EXCEPT ![t].grace = "skipped"]
            /\ UNCHANGED session
    /\ UNCHANGED clear

Release(t) ==
    /\ turn[t].grace = "finalized"
    /\ session' = IF Owns(t) THEN Cleared ELSE session
    /\ turn' = [(IF Owns(t) THEN Marked(turn) ELSE turn) EXCEPT ![t].grace = "over"]
    /\ UNCHANGED clear

\* the stalled frame is sent beside the reset, and waits for the emitter's mutex
SendStalled(t) ==
    /\ turn[t].stalled /\ turn[t].pc # "hung"
    /\ turn' = [turn EXCEPT ![t] = [Emit(@, "stalled") EXCEPT !.stalled = FALSE]]
    /\ UNCHANGED <<session, clear>>

HandlerStep(t) == Begin(t) \/ Attach(t)

RunStep(t) == Discard(t) \/ Report(t) \/ Bind(t) \/ Succeed(t) \/ Fail(t) \/ Hang(t)

EndStep(t) == Answer(t) \/ AppendAnswer(t) \/ Pin(t) \/ MarkReturned(t) \/ ClearReturned(t)

TimerStep(t) == Kill(t) \/ GraceExpires(t) \/ Finalize(t) \/ Release(t) \/ SendStalled(t)

RunGuardNext ==
    \/ \E t \in Turn :
          RunStart(t) \/ CheckBusy(t) \/ HandlerStep(t) \/ RunStep(t) \/ EndStep(t) \/ TimerStep(t)
    \/ \E k \in Clear : CheckClear(k) \/ ClearSession(k)
    \/ CreateAgain \/ Stop \/ Condemn

(***************************************************************************)
(* Handlers and timers go on, a run that has its result returns, and the   *)
(* scanner finds what has been silent for agentAIStaleRunThreshold.  A run *)
(* that works owes nothing: it may ignore its cancellation for ever.       *)
(***************************************************************************)
RunGuardFairness ==
    /\ \A t \in Turn : WF_vars(HandlerStep(t)) /\ WF_vars(EndStep(t)) /\ WF_vars(TimerStep(t))
    /\ \A k \in Clear : WF_vars(ClearSession(k))
    /\ WF_vars(Condemn)

RunGuardSpec == RunGuardInit /\ [][RunGuardNext]_vars /\ RunGuardFairness

(***************************************************************************)
(* Properties.                                                             *)
(***************************************************************************)
Live(t) == turn[t].pc \notin {"new", "asked", "checked", "gone"}

\* after the message at j the history holds, up to n, answers of torn turns only
OnlyTornAfter(j, n) ==
    \A k \in (j + 1) .. n :
        session.history[k].role = "assistant" /\ turn[session.history[k].turn].torn

(* The session is busy with a turn that has begun and has not gone, declared *)
(* dead or not, its guard is that turn's, and its history belongs to turns. *)
RunGuardTypeOK ==
    /\ session.owner \in Turn => Live(session.owner)
    /\ session.guard \in {None, session.owner}
    /\ session.owner = None => session.guard = None
    /\ session.finalized <= session.seq \/ session.finalized = 0
    /\ \A i \in DOMAIN session.history : session.history[i].turn \in Turn

(* A turn leaves the session by its own return or by being declared dead:   *)
(* never by an older turn that comes back late, by its grace timer, or by   *)
(* /clear, though /clear makes the numbers of turns come again.             *)
ReleasedByItsOwn ==
    [][\A t \in Turn : session.owner = t /\ session'.owner # t =>
          \/ turn[t].pc = "leaving" /\ turn'[t].pc = "gone"
          \/ turn[t].grace = "finalized" /\ turn'[t].grace = "over"]_vars

(* An answer in the history stands right after its own question: a turn     *)
(* that was declared dead and answers later leaves the next one alone       *)
(* (unless it was declared dead between the test and the write).            *)
AnswerFollowsQuestion ==
    \A i \in DOMAIN session.history :
        LET m == session.history[i]
        IN m.role = "assistant" /\ ~turn[m.turn].torn =>
               \E j \in 1 .. (i - 1) :
                   /\ session.history[j] = [role |-> "user", turn |-> m.turn]
                   /\ OnlyTornAfter(j, i - 1)

(* Of itself the agent forgets a turn that was declared dead: none resumes  *)
(* its native session and the session stays without it, however late that   *)
(* run reports its id (unless it was declared dead between a test and its   *)
(* write).  Only a caller brings the id back, by supplying it afterwards.   *)
DeadIsForgotten ==
    \A t \in Turn : Dead(t) /\ ~turn[t].torn /\ ~turn[t].fedBack =>
        /\ session.resume # t /\ session.binding # t
        /\ \A u \in Turn : turn[u].resumeAtStart # t

(* Every turn that begins leaves the session, even when its run never       *)
(* returns, and is answered with a terminal frame unless it hangs in the    *)
(* emitter itself.                                                          *)
TurnComesToAnEnd ==
    \A t \in Turn : turn[t].pc = "begun" ~>
        (session.owner # t /\ (turn[t].terminal # "none" \/ turn[t].pc = "hung"))

(* "resumeAtStart is empty => whatever resumeSessionID holds now, this turn  *)
(* wrote it" (agentAIRunGuard; revokeRunResumePointLocked takes it away on  *)
(* that ground), a write torn from its test apart.                          *)
ResumeIsItsOwn ==
    \A t, u \in Turn :
        session.guard = t /\ turn[t].resumeAtStart = None /\ session.resume = u =>
            u = t \/ turn[u].torn

(* After /clear, which starts the numbers again, the next turn is a fresh   *)
(* native session and is not refused for being one (where no caller         *)
(* supplies an id: Supply = {}).                                         *)
ClearStartsAfresh ==
    \A t \in Turn : turn[t].seq = 1 => turn[t].resumeAtStart = None /\ turn[t].terminal # "mismatch"
=============================================================================
