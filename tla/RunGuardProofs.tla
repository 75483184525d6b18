--------------------------- MODULE RunGuardProofs ---------------------------
(***************************************************************************)
(* What is proved of the guard of an AI session's turns, for any number of *)
(* turns and of /clear commands, when one socket sends the messages        *)
(* (~Overlap): with two sockets the busy check and the start of a turn are *)
(* separate critical sections and nothing below holds.                     *)
(*                                                                         *)
(* The argument: a session has one handler at a time, so a turn that owns  *)
(* the session keeps it, with its number, until it is cleared; its guard   *)
(* is attached before it does anything.  What the session or a later turn  *)
(* knows a turn's native id for, that turn bound it, and was not declared  *)
(* dead since.  While a turn works its question is the last sound message. *)
(***************************************************************************)
EXTENDS RunGuard, TLAPS

Message == [role : {"user", "assistant"}, turn : Turn]

Session ==
    [owner : Turn \cup {None}, seq : Nat, finalized : Nat, guard : Turn \cup {None},
     resume : Turn \cup {None}, binding : Turn \cup {None},
     history : Seq(Message)]

Fresh == {"new", "asked", "checked", "begun"}

\* places in which the question is the last thing the turn has said
Asking == {"begun", "started", "binding", "working", "answering", "writing"}

Running == {"started", "binding", "working", "hung", "answering", "writing", "pinning",
            "returned", "leaving"}

TurnState ==
    [pc : Fresh \cup Running \cup {"gone"}, seq : Nat, guarded : BOOLEAN,
     resumeAtStart : Turn \cup {None}, bindingAtStart : Turn \cup {None},
     cancelled : BOOLEAN, done : BOOLEAN, verdict : {"none", "condemned", "killed"},
     grace : {"off", "armed", "firing", "finalized", "skipped", "over"}, stalled : BOOLEAN,
     terminal : {"none", "busy", "mismatch", "stopped", "error", "done", "stalled"}, torn : BOOLEAN,
     named : BOOLEAN, fedBack : BOOLEAN]

Typed ==
    /\ session \in Session
    /\ turn \in [Turn -> TurnState]
    /\ clear \in [Clear -> {"new", "checked", "refused", "gone"}]

\* one message is handled at a time, and only in a session that is free
OneHandler ==
    /\ \A x, y \in Handling : x = y
    /\ \A t \in Turn : turn[t].pc = "checked" => session.owner = None
    /\ \A t \in Turn : turn[t].pc = "begun" => session.owner = t
    /\ \A k \in Clear : clear[k] = "checked" => session.owner = None

\* the turn that has the session has its number, and its guard once it has started
Guarded ==
    /\ \A t \in Turn : turn[t].pc \in Fresh => turn[t].grace = "off" /\ turn[t].verdict = "none"
    /\ \A t \in Turn : turn[t].pc \in Running => turn[t].guarded
    /\ \A t \in Turn : turn[t].verdict # "none" => turn[t].guarded
    /\ \A t \in Turn : turn[t].grace # "off" => turn[t].guarded /\ turn[t].verdict = "killed"
    /\ session.guard # None => session.guard = session.owner
    /\ \A t \in Turn : session.owner = t =>
          /\ Live(t) /\ session.seq = turn[t].seq
          /\ turn[t].pc # "begun" => session.guard = t
    /\ \A t \in Turn : turn[t].pc = "begun" => session.guard # t
    /\ session.finalized <= session.seq

\* a turn declared dead has no write before it, unless it was torn there
Fenced ==
    \A t \in Turn :
        /\ Dead(t) /\ session.guard = t => session.finalized = turn[t].seq
        /\ Dead(t) /\ turn[t].pc \in Tearing => turn[t].torn
        /\ turn[t].pc \in Tearing /\ session.guard # t => turn[t].torn
        /\ turn[t].torn => Dead(t)

\* a turn whose native id others may hold: it began afresh, and is not dead, or
\* a caller has brought its id back
Known(t) ==
    /\ turn[t].pc \notin Fresh
    /\ turn[t].resumeAtStart = None
    /\ Dead(t) => turn[t].torn \/ turn[t].fedBack

Names ==
    \A t \in Turn :
        /\ session.resume = t \/ session.binding = t => Known(t)
        /\ \A u \in Turn : turn[u].resumeAtStart = t => Known(t) /\ session.owner # t
        /\ turn[t].bindingAtStart # t
        /\ turn[t].named => turn[t].pc \notin Fresh /\ turn[t].resumeAtStart = None

Asked(t) ==
    \E j \in DOMAIN session.history :
        /\ session.history[j] = [role |-> "user", turn |-> t]
        /\ OnlyTornAfter(j, Len(session.history))

QuestionLast == \A t \in Turn : session.owner = t /\ turn[t].pc \in Asking => Asked(t)

RunGuardInv ==
    /\ Typed /\ OneHandler /\ Guarded /\ Fenced /\ Names /\ QuestionLast
    /\ AnswerFollowsQuestion

-----------------------------------------------------------------------------
\* The emitter changes the terminal frame of the record and nothing else.
LEMMA Emitted ==
    ASSUME NEW r \in TurnState,
           NEW frame \in {"none", "busy", "mismatch", "stopped", "error", "done", "stalled"}
    PROVE  /\ Emit(r, frame) \in TurnState
           /\ Emit(r, frame).pc = r.pc /\ Emit(r, frame).seq = r.seq
           /\ Emit(r, frame).guarded = r.guarded /\ Emit(r, frame).torn = r.torn
           /\ Emit(r, frame).verdict = r.verdict /\ Emit(r, frame).named = r.named
           /\ Emit(r, frame).fedBack = r.fedBack
           /\ Emit(r, frame).resumeAtStart = r.resumeAtStart
           /\ Emit(r, frame).bindingAtStart = r.bindingAtStart
           /\ Emit(r, frame).grace = r.grace
  BY DEF Emit, TurnState

\* A step of one turn leaves the records of the others alone.
LEMMA OneTurn ==
    ASSUME turn \in [Turn -> TurnState], NEW t \in Turn, NEW r \in TurnState,
           turn' = [turn EXCEPT ![t] = r]
    PROVE  /\ turn' \in [Turn -> TurnState]
           /\ turn'[t] = r
           /\ \A u \in Turn : u # t => turn'[u] = turn[u]
  OBVIOUS

\* The history is a sequence of messages, each of a turn.
LEMMA HistoryTyped ==
    ASSUME Typed
    PROVE  /\ session.history \in Seq(Message)
           /\ Len(session.history) \in Nat
           /\ DOMAIN session.history = 1 .. Len(session.history)
           /\ \A i \in DOMAIN session.history :
                  session.history[i] \in Message /\ session.history[i].turn \in Turn
<1>1. session.history \in Seq(Message)
  BY DEF Typed, Session
<1>2. \A i \in DOMAIN session.history : session.history[i] \in Message
  BY <1>1
<1>3. \A m \in Message : m.turn \in Turn
  BY DEF Message
<1> QED BY <1>1, <1>2, <1>3

\* What the history says stays said when nothing is added to it, whatever
\* more turns are torn.
LEMMA HistoryKept ==
    ASSUME Typed, session'.history = session.history,
           \A u \in Turn : turn[u].torn => turn'[u].torn
    PROVE  /\ AnswerFollowsQuestion => AnswerFollowsQuestion'
           /\ \A t \in Turn : Asked(t) => Asked(t)'
<1>1. \A i \in DOMAIN session.history : session.history[i].turn \in Turn
  BY HistoryTyped
<1>2. \A j, n \in Nat : n <= Len(session.history) /\ OnlyTornAfter(j, n) => OnlyTornAfter(j, n)'
  <2> SUFFICES ASSUME NEW j \in Nat, NEW n \in Nat, n <= Len(session.history), OnlyTornAfter(j, n),
                      NEW k \in (j + 1) .. n
               PROVE  /\ session'.history[k].role = "assistant"
                      /\ turn'[session'.history[k].turn].torn
    BY DEF OnlyTornAfter
  <2>1. k \in DOMAIN session.history
    BY HistoryTyped
  <2> QED BY <1>1, <2>1 DEF OnlyTornAfter
<1>3. Len(session.history) \in Nat /\ DOMAIN session.history = 1 .. Len(session.history)
  BY HistoryTyped
<1>4. ASSUME AnswerFollowsQuestion PROVE AnswerFollowsQuestion'
  <2> SUFFICES ASSUME NEW i \in DOMAIN session.history, session.history[i].role = "assistant",
                      ~turn'[session.history[i].turn].torn
               PROVE  \E j \in 1 .. (i - 1) :
                          /\ session.history[j] = [role |-> "user", turn |-> session.history[i].turn]
                          /\ OnlyTornAfter(j, i - 1)'
    BY DEF AnswerFollowsQuestion
  <2>1. ~turn[session.history[i].turn].torn
    BY <1>1
  <2>2. PICK j \in 1 .. (i - 1) :
            /\ session.history[j] = [role |-> "user", turn |-> session.history[i].turn]
            /\ OnlyTornAfter(j, i - 1)
    BY <1>4, <2>1 DEF AnswerFollowsQuestion
  <2>3. j \in Nat /\ i - 1 \in Nat /\ i - 1 <= Len(session.history)
    BY <1>3
  <2>4. OnlyTornAfter(j, i - 1)'
    BY <1>2, <2>2, <2>3
  <2> QED BY <2>2, <2>4
<1>5. \A t \in Turn : Asked(t) => Asked(t)'
  BY <1>2, <1>3 DEF Asked
<1> QED BY <1>4, <1>5

-----------------------------------------------------------------------------
(***************************************************************************)
(* Steps that touch neither the session nor what the invariant says of a   *)
(* turn, except that a running one goes on: into a place before a write    *)
(* only when it may have side effects.                                     *)
(***************************************************************************)
GoesOn(t) ==
    \/ turn'[t].pc = turn[t].pc
    \/ /\ turn[t].pc \in Running /\ turn'[t].pc \in Running
       /\ turn'[t].pc \in Tearing => turn[t].pc \in Tearing \/ SideEffectsAllowed(t)
       /\ turn'[t].pc \in Asking => turn[t].pc \in Asking

Quiet ==
    /\ session' = session /\ clear' = clear
    /\ turn' \in [Turn -> TurnState]
    /\ \A t \in Turn :
          /\ turn'[t].seq = turn[t].seq /\ turn'[t].guarded = turn[t].guarded
          /\ turn'[t].resumeAtStart = turn[t].resumeAtStart
          /\ turn'[t].bindingAtStart = turn[t].bindingAtStart
          /\ turn'[t].torn = turn[t].torn
          /\ Dead(t)' <=> Dead(t)
          /\ turn'[t].verdict # "none" =>
                 turn[t].verdict # "none" \/ (turn[t].pc \notin Fresh /\ turn[t].guarded)
          /\ turn'[t].grace # "off" => turn'[t].verdict = "killed"
          /\ turn'[t].fedBack = turn[t].fedBack
          /\ turn'[t].named =>
                 turn[t].named \/ (turn[t].pc \notin Fresh /\ turn[t].resumeAtStart = None)
          /\ GoesOn(t)

\* A quiet step keeps the invariant.
LEMMA QuietKeeps ==
    ASSUME RunGuardInv, Quiet
    PROVE  RunGuardInv'
<1> USE DEF Fresh, Running, Tearing
<1>1. Typed'
  BY DEF RunGuardInv, Typed, Quiet
<1>2. \A t \in Turn : /\ turn[t] \in TurnState /\ turn'[t] \in TurnState
                      /\ turn'[t].pc \in Fresh <=> turn[t].pc \in Fresh
                      /\ turn[t].pc \in Fresh \cup {"gone"} \/ turn'[t].pc \in Fresh \cup {"gone"} =>
                             turn'[t].pc = turn[t].pc
  BY DEF RunGuardInv, Typed, Quiet, GoesOn
<1>3. Handling' = Handling
  BY <1>2 DEF Handling, Quiet
<1>4. OneHandler'
  BY <1>2, <1>3 DEF RunGuardInv, OneHandler, Quiet
<1>5. Guarded'
  <2>1. \A t \in Turn : Live(t)' <=> Live(t)
    BY <1>2 DEF Live
  <2>2. \A t \in Turn : turn'[t].pc \in Running <=> turn[t].pc \in Running
    BY <1>2 DEF Quiet, GoesOn
  <2>3. ASSUME NEW t \in Turn
        PROVE  /\ turn'[t].verdict # "none" => turn'[t].guarded /\ turn'[t].pc \notin Fresh
               /\ turn'[t].grace # "off" => turn'[t].verdict = "killed"
    BY <1>2 DEF RunGuardInv, Guarded, Quiet
  <2>4. \A t \in Turn :
           /\ turn'[t].pc \in Fresh => turn'[t].grace = "off" /\ turn'[t].verdict = "none"
           /\ turn'[t].verdict # "none" => turn'[t].guarded
           /\ turn'[t].grace # "off" => turn'[t].guarded /\ turn'[t].verdict = "killed"
    BY <2>3
  <2> QED BY <1>2, <2>1, <2>2, <2>4 DEF RunGuardInv, Guarded, Quiet
<1>6. Fenced'
  <2> SUFFICES ASSUME NEW t \in Turn
               PROVE  /\ Dead(t)' /\ session.guard = t => session.finalized = turn[t].seq
                      /\ Dead(t)' /\ turn'[t].pc \in Tearing => turn[t].torn
                      /\ turn'[t].pc \in Tearing /\ session.guard # t => turn[t].torn
                      /\ turn[t].torn => Dead(t)'
    BY DEF Fenced, Quiet
  <2>1. ASSUME turn[t].pc \in Running, SideEffectsAllowed(t)
        PROVE  session.guard = t /\ ~Dead(t)
    BY <2>1 DEF RunGuardInv, Guarded, Fenced, SideEffectsAllowed
  <2> QED BY <2>1 DEF RunGuardInv, Fenced, Quiet, GoesOn
<1>7. Names'
  <2>1. \A t \in Turn : Known(t) => Known(t)'
    BY <1>2 DEF Known, Quiet
  <2> QED BY <1>2, <2>1 DEF RunGuardInv, Names, Quiet
<1>8. QuestionLast' /\ AnswerFollowsQuestion'
  <2>1. /\ AnswerFollowsQuestion => AnswerFollowsQuestion'
        /\ \A t \in Turn : Asked(t) => Asked(t)'
    BY HistoryKept DEF RunGuardInv, Quiet
  <2>2. \A t \in Turn : turn'[t].pc \in Asking => turn[t].pc \in Asking
    BY DEF Quiet, GoesOn
  <2> QED BY <2>1, <2>2 DEF RunGuardInv, QuestionLast, Quiet
<1> QED BY <1>1, <1>4, <1>5, <1>6, <1>7, <1>8 DEF RunGuardInv

\* One turn's record changes, and quietly.
LEMMA QuietTurn ==
    ASSUME RunGuardInv, UNCHANGED <<session, clear>>, NEW t \in Turn, NEW r \in TurnState,
           turn' = [turn EXCEPT ![t] = r],
           r.seq = turn[t].seq, r.guarded = turn[t].guarded,
           r.resumeAtStart = turn[t].resumeAtStart, r.bindingAtStart = turn[t].bindingAtStart,
           r.torn = turn[t].torn,
           r.grace \in {"finalized", "over"} <=> turn[t].grace \in {"finalized", "over"},
           \/ r.verdict = turn[t].verdict
           \/ turn[t].pc \notin Fresh /\ turn[t].guarded,
           r.grace # "off" =>
               r.verdict = "killed" \/ (r.verdict = turn[t].verdict /\ turn[t].grace # "off"),
           r.fedBack = turn[t].fedBack,
           r.named => turn[t].named \/ (turn[t].pc \notin Fresh /\ turn[t].resumeAtStart = None),
           \/ r.pc = turn[t].pc
           \/ /\ turn[t].pc \in Running /\ r.pc \in Running
              /\ r.pc \in Tearing => turn[t].pc \in Tearing \/ SideEffectsAllowed(t)
              /\ r.pc \in Asking => turn[t].pc \in Asking
    PROVE  Quiet
<1>1. /\ turn' \in [Turn -> TurnState]
      /\ turn'[t] = r
      /\ \A u \in Turn : u # t => turn'[u] = turn[u]
  BY DEF RunGuardInv, Typed
<1>2. ASSUME NEW u \in Turn
      PROVE  /\ turn'[u].seq = turn[u].seq /\ turn'[u].guarded = turn[u].guarded
             /\ turn'[u].resumeAtStart = turn[u].resumeAtStart
             /\ turn'[u].bindingAtStart = turn[u].bindingAtStart
             /\ turn'[u].torn = turn[u].torn
             /\ Dead(u)' <=> Dead(u)
             /\ turn'[u].verdict # "none" =>
                    turn[u].verdict # "none" \/ (turn[u].pc \notin Fresh /\ turn[u].guarded)
             /\ turn'[u].grace # "off" => turn'[u].verdict = "killed"
             /\ turn'[u].fedBack = turn[u].fedBack
             /\ turn'[u].named =>
                    turn[u].named \/ (turn[u].pc \notin Fresh /\ turn[u].resumeAtStart = None)
             /\ GoesOn(u)
  <2> turn[u].grace # "off" => turn[u].verdict = "killed"
    BY DEF RunGuardInv, Guarded
  <2>1. CASE u = t
    BY <1>1, <2>1 DEF Dead, GoesOn
  <2>2. CASE u # t
    <3>1. turn'[u] = turn[u]
      BY <1>1, <2>2
    <3> QED BY <3>1 DEF Dead, GoesOn
  <2> QED BY <2>1, <2>2
<1> QED BY <1>1, <1>2 DEF Quiet

\* A turn that only moves on to another place of its run does so quietly.
LEMMA MoveIsQuiet ==
    ASSUME RunGuardInv, NEW t \in Turn, NEW from \in Running, NEW to \in Running,
           Move(t, from, to),
           to \in Tearing => from \in Tearing \/ SideEffectsAllowed(t),
           to \in Asking => from \in Asking
    PROVE  Quiet
<1> DEFINE r == [turn[t] EXCEPT !.pc = to]
<1>1. turn \in [Turn -> TurnState] /\ turn[t] \in TurnState
  BY DEF RunGuardInv, Typed
<1>2. turn' = [turn EXCEPT ![t] = r] /\ turn[t].pc = from /\ UNCHANGED <<session, clear>>
  BY <1>1 DEF Move
<1>3. /\ r \in TurnState /\ r.pc = to
      /\ r.seq = turn[t].seq /\ r.guarded = turn[t].guarded /\ r.torn = turn[t].torn
      /\ r.verdict = turn[t].verdict /\ r.named = turn[t].named /\ r.fedBack = turn[t].fedBack
      /\ r.resumeAtStart = turn[t].resumeAtStart /\ r.bindingAtStart = turn[t].bindingAtStart
      /\ r.grace = turn[t].grace
  BY <1>1 DEF TurnState
<1> HIDE DEF r
<1> QED BY <1>2, <1>3, QuietTurn

\* A run names its native session, and goes on to bind it only when it may.
LEMMA NamingIsQuiet ==
    ASSUME RunGuardInv, NEW t \in Turn, NEW to \in {"binding", "working"},
           NamesSession(t, to), to = "binding" => SideEffectsAllowed(t)
    PROVE  Quiet
<1> DEFINE fresh == turn[t].resumeAtStart = None
           r == [turn[t] EXCEPT !.pc = to, !.named = fresh]
<1>1. turn \in [Turn -> TurnState] /\ turn[t] \in TurnState /\ fresh \in BOOLEAN
  BY DEF RunGuardInv, Typed
<1>2. turn' = [turn EXCEPT ![t] = r] /\ turn[t].pc = "started" /\ UNCHANGED <<session, clear>>
  BY <1>1 DEF NamesSession
<1>3. r.named = fresh
  BY <1>1 DEF TurnState
<1> HIDE DEF fresh
<1>4. /\ r \in TurnState /\ r.pc = to
      /\ r.seq = turn[t].seq /\ r.guarded = turn[t].guarded /\ r.torn = turn[t].torn
      /\ r.verdict = turn[t].verdict /\ r.fedBack = turn[t].fedBack
      /\ r.resumeAtStart = turn[t].resumeAtStart /\ r.bindingAtStart = turn[t].bindingAtStart
      /\ r.grace = turn[t].grace
  BY <1>1 DEF TurnState, Running
<1> HIDE DEF r
<1>5. r.named => turn[t].pc \notin Fresh /\ turn[t].resumeAtStart = None
  BY <1>2, <1>3 DEF Fresh, fresh
<1> QED BY <1>2, <1>4, <1>5, QuietTurn DEF Running, Tearing, Asking

\* The steps of a run that write nothing, and those of its return that only
\* mark its guard done, are quiet.
LEMMA RunIsQuiet ==
    ASSUME RunGuardInv, NEW t \in Turn,
           \/ Discard(t) \/ Report(t) \/ Succeed(t) \/ Hang(t) \/ Fail(t)
           \/ Answer(t) \/ MarkReturned(t)
    PROVE  Quiet
<1>1. turn \in [Turn -> TurnState] /\ turn[t] \in TurnState
  BY DEF RunGuardInv, Typed
<1>2. CASE Discard(t)
  BY <1>2, NamingIsQuiet DEF Discard
<1>3. CASE Report(t)
  BY <1>3, NamingIsQuiet DEF Report
<1>4. CASE Succeed(t)
  BY <1>4, MoveIsQuiet DEF Succeed, Running, Tearing, Asking
<1>5. CASE Hang(t)
  BY <1>5, MoveIsQuiet DEF Hang, Running, Tearing, Asking
<1>6. CASE Fail(t)
  <2> DEFINE e == Emit(turn[t], IF turn[t].cancelled THEN "stopped" ELSE "error")
             r == [e EXCEPT !.pc = "returned", !.cancelled = TRUE]
  <2>1. /\ e \in TurnState
        /\ e.seq = turn[t].seq /\ e.guarded = turn[t].guarded /\ e.torn = turn[t].torn
        /\ e.verdict = turn[t].verdict /\ e.named = turn[t].named /\ e.fedBack = turn[t].fedBack
        /\ e.resumeAtStart = turn[t].resumeAtStart /\ e.bindingAtStart = turn[t].bindingAtStart
        /\ e.grace = turn[t].grace
    BY <1>1, Emitted
  <2>2. /\ turn' = [turn EXCEPT ![t] = r] /\ turn[t].pc \in {"started", "working"}
        /\ UNCHANGED <<session, clear>>
    BY <1>1, <1>6 DEF Fail
  <2> HIDE DEF e
  <2>3. /\ r \in TurnState /\ r.pc = "returned" /\ r.grace = e.grace
        /\ r.seq = e.seq /\ r.guarded = e.guarded /\ r.torn = e.torn
        /\ r.verdict = e.verdict /\ r.named = e.named /\ r.fedBack = e.fedBack
        /\ r.resumeAtStart = e.resumeAtStart /\ r.bindingAtStart = e.bindingAtStart
    BY <2>1 DEF TurnState, Running
  <2> HIDE DEF r
  <2> QED BY <2>1, <2>2, <2>3, QuietTurn DEF Running, Tearing, Asking
<1>7. CASE Answer(t)
  <2> DEFINE e == Emit(turn[t], "done")
  <2>1. /\ e \in TurnState
        /\ e.seq = turn[t].seq /\ e.guarded = turn[t].guarded /\ e.torn = turn[t].torn
        /\ e.verdict = turn[t].verdict /\ e.named = turn[t].named /\ e.fedBack = turn[t].fedBack
        /\ e.resumeAtStart = turn[t].resumeAtStart /\ e.bindingAtStart = turn[t].bindingAtStart
        /\ e.grace = turn[t].grace
    BY <1>1, Emitted
  <2>2. CASE SideEffectsAllowed(t)
    <3>1. Move(t, "answering", "writing")
      BY <1>1, <1>7, <2>2 DEF Answer, Move
    <3> QED BY <2>2, <3>1, MoveIsQuiet DEF Running, Asking
  <2>3. CASE ~SideEffectsAllowed(t)
    <3> DEFINE r == [e EXCEPT !.pc = "returned", !.cancelled = TRUE]
    <3>1. turn' = [turn EXCEPT ![t] = r] /\ turn[t].pc = "answering" /\ UNCHANGED <<session, clear>>
      BY <1>1, <1>7, <2>3 DEF Answer
    <3> HIDE DEF e
    <3>2. /\ r \in TurnState /\ r.pc = "returned" /\ r.grace = e.grace
          /\ r.seq = e.seq /\ r.guarded = e.guarded /\ r.torn = e.torn
          /\ r.verdict = e.verdict /\ r.named = e.named /\ r.fedBack = e.fedBack
          /\ r.resumeAtStart = e.resumeAtStart /\ r.bindingAtStart = e.bindingAtStart
      BY <2>1 DEF TurnState, Running
    <3> HIDE DEF r
    <3> QED BY <2>1, <3>1, <3>2, QuietTurn DEF Running, Tearing, Asking
  <2> QED BY <2>2, <2>3
<1>8. CASE MarkReturned(t)
  <2>1. turn[t].pc = "returned" /\ turn[t].guarded /\ UNCHANGED <<session, clear>>
    BY <1>8 DEF MarkReturned, RunGuardInv, Guarded, Running
  <2>2. CASE Owns(t)
    <3> DEFINE r == [turn[t] EXCEPT !.pc = "leaving", !.done = TRUE]
    <3>1. session.guard = t /\ session.guard # None
      BY <2>1, <2>2, RunGuardAssumption DEF Owns
    <3>2. turn' = [turn EXCEPT ![t] = r]
      BY <1>1, <1>8, <2>2, <3>1 DEF MarkReturned, Marked
    <3>3. /\ r \in TurnState /\ r.pc = "leaving" /\ r.grace = turn[t].grace
          /\ r.seq = turn[t].seq /\ r.guarded = turn[t].guarded /\ r.torn = turn[t].torn
          /\ r.verdict = turn[t].verdict /\ r.named = turn[t].named /\ r.fedBack = turn[t].fedBack
          /\ r.resumeAtStart = turn[t].resumeAtStart /\ r.bindingAtStart = turn[t].bindingAtStart
      BY <1>1 DEF TurnState, Running
    <3> HIDE DEF r
    <3> QED BY <2>1, <3>2, <3>3, QuietTurn DEF Running, Tearing, Asking
  <2>3. CASE ~Owns(t)
    <3>1. Move(t, "returned", "leaving")
      BY <1>8, <2>3 DEF MarkReturned, Move
    <3> QED BY <3>1, MoveIsQuiet DEF Running, Tearing, Asking
  <2> QED BY <2>2, <2>3
<1> QED BY <1>2, <1>3, <1>4, <1>5, <1>6, <1>7, <1>8

\* ai.stop, the scanner, its kill, the end of a grace timer and the frame
\* that tells of it are quiet: they change what a turn owes, not what it may do.
LEMMA GuardIsQuiet ==
    ASSUME RunGuardInv,
           \/ Stop \/ Condemn
           \/ \E t \in Turn : Kill(t) \/ GraceExpires(t) \/ SendStalled(t)
    PROVE  Quiet
<1>1. turn \in [Turn -> TurnState] /\ session \in Session
  BY DEF RunGuardInv, Typed
<1>2. CASE Stop
  <2>1. PICK t \in Turn : t = session.owner
    BY <1>1, <1>2 DEF Stop, Session
  <2> DEFINE r == [turn[t] EXCEPT !.cancelled = TRUE]
  <2>2. turn' = [turn EXCEPT ![t] = r] /\ UNCHANGED <<session, clear>>
    BY <1>1, <1>2, <2>1 DEF Stop
  <2>3. /\ r \in TurnState /\ r.pc = turn[t].pc /\ r.grace = turn[t].grace
        /\ r.seq = turn[t].seq /\ r.guarded = turn[t].guarded /\ r.torn = turn[t].torn
        /\ r.verdict = turn[t].verdict /\ r.named = turn[t].named /\ r.fedBack = turn[t].fedBack
        /\ r.resumeAtStart = turn[t].resumeAtStart /\ r.bindingAtStart = turn[t].bindingAtStart
    <3> DEFINE q == turn[t]
    <3>1. q \in TurnState /\ r = [q EXCEPT !.cancelled = TRUE]
      BY <1>1
    <3> HIDE DEF q, r
    <3>2. /\ r \in TurnState /\ r.pc = q.pc /\ r.grace = q.grace
          /\ r.seq = q.seq /\ r.guarded = q.guarded /\ r.torn = q.torn
          /\ r.verdict = q.verdict /\ r.named = q.named /\ r.fedBack = q.fedBack
          /\ r.resumeAtStart = q.resumeAtStart /\ r.bindingAtStart = q.bindingAtStart
      BY <3>1 DEF TurnState
    <3> QED BY <3>2 DEF q
  <2> HIDE DEF r
  <2>4. /\ r.grace \in {"finalized", "over"} <=> turn[t].grace \in {"finalized", "over"}
        /\ r.grace # "off" =>
              r.verdict = "killed" \/ (r.verdict = turn[t].verdict /\ turn[t].grace # "off")
        /\ r.named => turn[t].named \/ (turn[t].pc \notin Fresh /\ turn[t].resumeAtStart = None)
    BY <2>3
  <2>5. t \in Turn /\ r \in TurnState /\ turn' = [turn EXCEPT ![t] = r] /\ UNCHANGED <<session, clear>>
    BY <2>2, <2>3
  <2> QED BY <2>3, <2>4, <2>5, QuietTurn
<1>3. CASE Condemn
  <2>1. PICK t \in Turn : t = session.guard
    BY <1>1, <1>3 DEF Condemn, Session
  <2> DEFINE r == [turn[t] EXCEPT !.verdict = "condemned"]
  <2>2. turn' = [turn EXCEPT ![t] = r] /\ turn[t].verdict = "none" /\ UNCHANGED <<session, clear>>
    BY <1>1, <1>3, <2>1 DEF Condemn
  <2>3. turn[t].pc \notin Fresh /\ turn[t].guarded
    <3>1. t = session.owner /\ Live(t) /\ turn[t].pc # "begun"
      BY <2>1, RunGuardAssumption DEF RunGuardInv, Guarded
    <3>2. turn[t].pc \in Running
      BY <1>1, <3>1 DEF Live, TurnState, Fresh
    <3> QED BY <3>2 DEF Fresh, Running, RunGuardInv, Guarded
  <2>4. turn[t].grace = "off"
    BY <2>2 DEF RunGuardInv, Guarded
  <2>5. /\ r \in TurnState /\ r.pc = turn[t].pc
        /\ r.seq = turn[t].seq /\ r.guarded = turn[t].guarded /\ r.torn = turn[t].torn
        /\ r.named = turn[t].named /\ r.fedBack = turn[t].fedBack
        /\ r.resumeAtStart = turn[t].resumeAtStart /\ r.bindingAtStart = turn[t].bindingAtStart
        /\ r.grace = "off"
    BY <1>1, <2>4 DEF TurnState
  <2> HIDE DEF r
  <2> QED BY <2>2, <2>3, <2>4, <2>5, QuietTurn
<1>6. ASSUME NEW t \in Turn, Kill(t) PROVE Quiet
  <2> DEFINE r == Killed(turn[t])
  <2>1. turn' = [turn EXCEPT ![t] = r] /\ UNCHANGED <<session, clear>>
    BY <1>1, <1>6 DEF Kill
  <2>2. turn[t].pc \notin Fresh /\ turn[t].guarded /\ turn[t].grace = "off"
    BY <1>6 DEF Kill, RunGuardInv, Guarded
  <2>3. /\ r \in TurnState /\ r.pc = turn[t].pc
        /\ r.seq = turn[t].seq /\ r.guarded = turn[t].guarded /\ r.torn = turn[t].torn
        /\ r.named = turn[t].named /\ r.fedBack = turn[t].fedBack
        /\ r.resumeAtStart = turn[t].resumeAtStart /\ r.bindingAtStart = turn[t].bindingAtStart
        /\ r.grace = "armed" /\ r.verdict = "killed"
    <3> DEFINE q == turn[t]
    <3>1. q \in TurnState
      BY <1>1
    <3>2. r = [q EXCEPT !.verdict = "killed", !.cancelled = TRUE, !.grace = "armed"]
      BY DEF Killed
    <3> HIDE DEF q, r
    <3>3. r \in TurnState
      BY <3>1, <3>2 DEF TurnState
    <3>4. /\ r.pc = q.pc
          /\ r.seq = q.seq /\ r.guarded = q.guarded /\ r.torn = q.torn
          /\ r.named = q.named /\ r.fedBack = q.fedBack
          /\ r.resumeAtStart = q.resumeAtStart /\ r.bindingAtStart = q.bindingAtStart
          /\ r.grace = "armed" /\ r.verdict = "killed"
      BY <3>1, <3>2 DEF TurnState
    <3> QED BY <3>3, <3>4 DEF q
  <2> HIDE DEF r
  <2> QED BY <2>1, <2>2, <2>3, QuietTurn
<1>4. ASSUME NEW t \in Turn, GraceExpires(t) PROVE Quiet
  <2> DEFINE r == [turn[t] EXCEPT !.grace = IF turn[t].done THEN "off" ELSE "firing",
                                  !.stalled = ~turn[t].done]
  <2>1. /\ turn' = [turn EXCEPT ![t] = r] /\ UNCHANGED <<session, clear>>
        /\ turn[t].grace = "armed"
    BY <1>1, <1>4 DEF GraceExpires
  <2>2. /\ r \in TurnState /\ r.pc = turn[t].pc /\ r.grace \in {"off", "firing"}
        /\ r.seq = turn[t].seq /\ r.guarded = turn[t].guarded /\ r.torn = turn[t].torn
        /\ r.verdict = turn[t].verdict /\ r.named = turn[t].named /\ r.fedBack = turn[t].fedBack
        /\ r.resumeAtStart = turn[t].resumeAtStart /\ r.bindingAtStart = turn[t].bindingAtStart
    <3> DEFINE q == turn[t]
               g == IF q.done THEN "off" ELSE "firing"
               owed == ~q.done
    <3>1. q \in TurnState /\ g \in {"off", "firing"} /\ owed \in BOOLEAN
      BY <1>1
    <3>2. r = [q EXCEPT !.grace = g, !.stalled = owed]
      OBVIOUS
    <3> HIDE DEF q, r, g, owed
    <3>3. r \in TurnState
      BY <3>1, <3>2 DEF TurnState
    <3>4. /\ r.pc = q.pc /\ r.grace = g
          /\ r.seq = q.seq /\ r.guarded = q.guarded /\ r.torn = q.torn
          /\ r.verdict = q.verdict /\ r.named = q.named /\ r.fedBack = q.fedBack
          /\ r.resumeAtStart = q.resumeAtStart /\ r.bindingAtStart = q.bindingAtStart
      BY <3>1, <3>2 DEF TurnState
    <3> QED BY <3>1, <3>3, <3>4 DEF q
  <2> HIDE DEF r
  <2> QED BY <2>1, <2>2, QuietTurn
<1>5. ASSUME NEW t \in Turn, SendStalled(t) PROVE Quiet
  <2> DEFINE e == Emit(turn[t], "stalled")
             r == [e EXCEPT !.stalled = FALSE]
  <2>1. /\ e \in TurnState /\ e.pc = turn[t].pc
        /\ e.seq = turn[t].seq /\ e.guarded = turn[t].guarded /\ e.torn = turn[t].torn
        /\ e.verdict = turn[t].verdict /\ e.named = turn[t].named /\ e.fedBack = turn[t].fedBack
        /\ e.resumeAtStart = turn[t].resumeAtStart /\ e.bindingAtStart = turn[t].bindingAtStart
        /\ e.grace = turn[t].grace
    BY <1>1, Emitted
  <2>2. turn' = [turn EXCEPT ![t] = r] /\ UNCHANGED <<session, clear>>
    BY <1>1, <1>5 DEF SendStalled
  <2> HIDE DEF e
  <2>3. /\ r \in TurnState /\ r.pc = e.pc /\ r.grace = e.grace
        /\ r.seq = e.seq /\ r.guarded = e.guarded /\ r.torn = e.torn
        /\ r.verdict = e.verdict /\ r.named = e.named /\ r.fedBack = e.fedBack
        /\ r.resumeAtStart = e.resumeAtStart /\ r.bindingAtStart = e.bindingAtStart
    BY <2>1 DEF TurnState
  <2> HIDE DEF r
  <2> QED BY <2>1, <2>2, <2>3, QuietTurn
<1> QED BY <1>2, <1>3, <1>4, <1>5, <1>6

-----------------------------------------------------------------------------
(***************************************************************************)
(* Adding a message to the history.                                        *)
(***************************************************************************)
\* What was said up to a place stays said there when a message is added.
LEMMA AppendKeepsPast ==
    ASSUME Typed, NEW m \in Message, session'.history = Append(session.history, m),
           \A u \in Turn : turn'[u].torn = turn[u].torn
    PROVE  /\ session'.history \in Seq(Message)
           /\ Len(session'.history) = Len(session.history) + 1
           /\ \A i \in 1 .. Len(session.history) : session'.history[i] = session.history[i]
           /\ session'.history[Len(session.history) + 1] = m
           /\ \A j, n \in Nat :
                  n <= Len(session.history) => (OnlyTornAfter(j, n)' <=> OnlyTornAfter(j, n))
<1>1. /\ session.history \in Seq(Message) /\ Len(session.history) \in Nat
      /\ \A i \in 1 .. Len(session.history) : session.history[i].turn \in Turn
  BY HistoryTyped
<1>2. /\ session'.history \in Seq(Message)
      /\ Len(session'.history) = Len(session.history) + 1
      /\ \A i \in 1 .. Len(session.history) : session'.history[i] = session.history[i]
      /\ session'.history[Len(session.history) + 1] = m
  BY <1>1
<1>3. ASSUME NEW j \in Nat, NEW n \in Nat, n <= Len(session.history)
      PROVE  OnlyTornAfter(j, n)' <=> OnlyTornAfter(j, n)
  <2>1. ASSUME NEW k \in (j + 1) .. n
        PROVE  session'.history[k] = session.history[k] /\ session.history[k].turn \in Turn
    <3>1. k \in 1 .. Len(session.history)
      BY <1>1, <1>3
    <3> QED BY <1>1, <1>2, <3>1
  <2>2. \A k \in (j + 1) .. n :
           turn'[session'.history[k].turn].torn = turn[session.history[k].turn].torn
    BY <2>1
  <2> QED BY <2>1, <2>2 DEF OnlyTornAfter
<1> QED BY <1>2, <1>3

\* A question is the last thing its turn has said; an answer may be added when
\* its question is the last sound message, or when its turn is torn.
LEMMA AppendKeepsOrder ==
    ASSUME Typed, NEW m \in Message, session'.history = Append(session.history, m),
           \A u \in Turn : turn'[u].torn = turn[u].torn
    PROVE  /\ AnswerFollowsQuestion /\ (m.role = "assistant" /\ ~turn[m.turn].torn => Asked(m.turn)) =>
                  AnswerFollowsQuestion'
           /\ m.role = "user" => Asked(m.turn)'
           /\ m.role = "assistant" /\ turn[m.turn].torn => \A t \in Turn : Asked(t) => Asked(t)'
<1>0. PICK n \in Nat : n = Len(session.history)
  BY HistoryTyped
<1>1. /\ session'.history \in Seq(Message)
      /\ Len(session'.history) = n + 1
      /\ \A i \in 1 .. n : session'.history[i] = session.history[i]
      /\ session'.history[n + 1] = m
      /\ \A j, l \in Nat : l <= n => (OnlyTornAfter(j, l)' <=> OnlyTornAfter(j, l))
  BY <1>0, AppendKeepsPast
<1>2. /\ n \in Nat /\ DOMAIN session.history = 1 .. n /\ m.turn \in Turn
      /\ \A i \in 1 .. n : session.history[i].turn \in Turn
  BY <1>0, HistoryTyped DEF Message
<1>3. DOMAIN session'.history = 1 .. (n + 1)
  BY <1>1, <1>2
<1>4. ASSUME AnswerFollowsQuestion, m.role = "assistant" /\ ~turn[m.turn].torn => Asked(m.turn)
      PROVE  AnswerFollowsQuestion'
  <2> SUFFICES ASSUME NEW i \in 1 .. (n + 1), session'.history[i].role = "assistant",
                      ~turn'[session'.history[i].turn].torn
               PROVE  \E j \in 1 .. (i - 1) :
                          /\ session'.history[j] = [role |-> "user", turn |-> session'.history[i].turn]
                          /\ OnlyTornAfter(j, i - 1)'
    BY <1>3 DEF AnswerFollowsQuestion
  <2>1. CASE i \in 1 .. n
    <3>1. session'.history[i] = session.history[i] /\ ~turn[session.history[i].turn].torn
      BY <1>1, <1>2, <2>1
    <3>2. PICK j \in 1 .. (i - 1) :
              /\ session.history[j] = [role |-> "user", turn |-> session.history[i].turn]
              /\ OnlyTornAfter(j, i - 1)
      BY <1>2, <1>4, <2>1, <3>1 DEF AnswerFollowsQuestion
    <3>3. j \in Nat /\ i - 1 \in Nat /\ i - 1 <= n /\ j \in 1 .. n
      BY <1>2, <2>1
    <3> QED BY <1>1, <3>1, <3>2, <3>3
  <2>2. CASE i = n + 1
    <3>1. Asked(m.turn)
      BY <1>1, <1>2, <1>4, <2>2
    <3>2. PICK j \in 1 .. n :
              session.history[j] = [role |-> "user", turn |-> m.turn] /\ OnlyTornAfter(j, n)
      BY <1>0, <1>2, <3>1 DEF Asked
    <3>3. j \in Nat /\ i - 1 = n /\ j \in 1 .. (i - 1)
      BY <1>2, <2>2
    <3> QED BY <1>1, <1>2, <2>2, <3>2, <3>3
  <2> QED BY <1>2, <2>1, <2>2
<1>5. ASSUME m.role = "user" PROVE Asked(m.turn)'
  <2>1. m = [role |-> "user", turn |-> m.turn]
    BY <1>5 DEF Message
  <2>2. OnlyTornAfter(n + 1, Len(session.history))'
    BY <1>0, <1>1, <1>2 DEF OnlyTornAfter
  <2>3. n + 1 \in DOMAIN session'.history
    BY <1>2, <1>3
  <2> QED BY <1>1, <2>1, <2>2, <2>3 DEF Asked
<1>6. ASSUME m.role = "assistant", turn[m.turn].torn, NEW t \in Turn, Asked(t)
      PROVE  Asked(t)'
  <2>1. PICK j \in 1 .. n :
            session.history[j] = [role |-> "user", turn |-> t] /\ OnlyTornAfter(j, n)
    BY <1>0, <1>2, <1>6 DEF Asked
  <2>2. OnlyTornAfter(j, n)' /\ session'.history[j] = session.history[j]
    BY <1>1, <1>2, <2>1
  <2>3. OnlyTornAfter(j, Len(session.history))'
    <3> SUFFICES ASSUME NEW k \in (j + 1) .. (n + 1)
                 PROVE  /\ session'.history[k].role = "assistant"
                        /\ turn'[session'.history[k].turn].torn
      BY <1>1 DEF OnlyTornAfter
    <3>1. CASE k \in (j + 1) .. n
      BY <2>2, <3>1 DEF OnlyTornAfter
    <3>2. CASE k = n + 1
      BY <1>1, <1>2, <1>6, <3>2
    <3> QED BY <1>2, <2>1, <3>1, <3>2
  <2>4. j \in DOMAIN session'.history
    BY <1>2, <1>3
  <2> QED BY <2>1, <2>2, <2>3, <2>4 DEF Asked
<1> QED BY <1>4, <1>5, <1>6

-----------------------------------------------------------------------------
(***************************************************************************)
(* The steps that change the session, and the ends of the handlers.        *)
(***************************************************************************)
\* A message is checked when no other is handled; it goes on in a free session.
LEMMA CheckBusyKeeps ==
    ASSUME ~Overlap, RunGuardInv, NEW t \in Turn, CheckBusy(t)
    PROVE  RunGuardInv'
<1> USE DEF Fresh, Running, Tearing
<1>1. /\ turn \in [Turn -> TurnState] /\ turn[t] \in TurnState /\ turn[t].pc \in {"new", "asked"}
      /\ UNCHANGED <<session, clear>> /\ Handling \subseteq {t} /\ session.owner # t
      /\ turn[t].grace = "off"
  <2>1. CASE turn[t].pc = "new"
    BY <2>1 DEF RunGuardInv, Typed, CheckBusy, MayHandle, Guarded, Live
  <2>2. CASE turn[t].pc = "asked"
    <3>1. t \in Handling
      BY <2>2 DEF Handling
    <3>2. Handling \subseteq {t}
      BY <3>1 DEF RunGuardInv, OneHandler
    <3> QED BY <2>2, <3>2 DEF RunGuardInv, Typed, CheckBusy, Guarded, Live
  <2> QED BY <2>1, <2>2 DEF CheckBusy
<1>2. /\ turn' \in [Turn -> TurnState]
      /\ \A u \in Turn : u # t => turn'[u] = turn[u]
      /\ turn'[t].pc = IF session.owner = None THEN "checked" ELSE "gone"
      /\ turn'[t].seq = turn[t].seq /\ turn'[t].guarded = turn[t].guarded
      /\ turn'[t].resumeAtStart = turn[t].resumeAtStart
      /\ turn'[t].bindingAtStart = turn[t].bindingAtStart
      /\ turn'[t].torn = turn[t].torn /\ turn'[t].grace = turn[t].grace
      /\ turn'[t].verdict = turn[t].verdict /\ turn'[t].named = turn[t].named /\ turn'[t].fedBack = turn[t].fedBack
  <2> DEFINE e == Emit(turn[t], "busy")
  <2>1. /\ e \in TurnState
        /\ e.seq = turn[t].seq /\ e.guarded = turn[t].guarded /\ e.torn = turn[t].torn
        /\ e.resumeAtStart = turn[t].resumeAtStart /\ e.bindingAtStart = turn[t].bindingAtStart
        /\ e.grace = turn[t].grace
        /\ e.verdict = turn[t].verdict /\ e.named = turn[t].named /\ e.fedBack = turn[t].fedBack
    BY <1>1, Emitted
  <2>2. turn' = [turn EXCEPT ![t] = IF session.owner = None
                                    THEN [turn[t] EXCEPT !.pc = "checked"]
                                    ELSE [e EXCEPT !.pc = "gone"]]
    BY <1>1 DEF CheckBusy
  <2> HIDE DEF e
  <2>3. CASE session.owner = None
    <3>1. [turn[t] EXCEPT !.pc = "checked"] \in TurnState
      BY <1>1 DEF TurnState
    <3> QED BY <1>1, <2>2, <2>3, <3>1 DEF TurnState
  <2>4. CASE session.owner # None
    <3>1. [e EXCEPT !.pc = "gone"] \in TurnState
      BY <2>1 DEF TurnState
    <3> QED BY <1>1, <2>1, <2>2, <2>4, <3>1 DEF TurnState
  <2> QED BY <2>3, <2>4
<1>3. Typed'
  BY <1>1, <1>2 DEF RunGuardInv, Typed
<1>4. OneHandler'
  <2>1. Handling' \subseteq {t}
    BY <1>1, <1>2 DEF Handling
  <2> QED BY <1>1, <1>2, <2>1 DEF RunGuardInv, OneHandler
<1>5. Guarded'
  BY <1>1, <1>2 DEF RunGuardInv, Guarded, Live
<1>6. Fenced'
  BY <1>1, <1>2 DEF RunGuardInv, Fenced, Dead
<1>7. Names'
  <2>1. \A u \in Turn : Known(u) => Known(u)'
    BY <1>1, <1>2 DEF Known, Dead
  <2> QED BY <1>1, <1>2, <2>1 DEF RunGuardInv, Names
<1>8. QuestionLast' /\ AnswerFollowsQuestion'
  <2>1. /\ AnswerFollowsQuestion => AnswerFollowsQuestion'
        /\ \A u \in Turn : Asked(u) => Asked(u)'
    BY <1>1, <1>2, HistoryKept DEF RunGuardInv
  <2> QED BY <1>1, <1>2, <2>1 DEF RunGuardInv, QuestionLast
<1> QED BY <1>3, <1>4, <1>5, <1>6, <1>7, <1>8 DEF RunGuardInv

\* The turn that begins is alone in its session: its number and its question
\* are the last, and what it resumes is the id of one that has left.
LEMMA BeginKeeps ==
    ASSUME RunGuardInv, NEW t \in Turn, Begin(t)
    PROVE  RunGuardInv'
<1> USE DEF Fresh, Running, Tearing
<1> DEFINE m == [role |-> "user", turn |-> t]
<1>1. /\ turn \in [Turn -> TurnState] /\ turn[t] \in TurnState /\ turn[t].pc = "checked"
      /\ session \in Session /\ UNCHANGED clear
      /\ turn[t].grace = "off" /\ session.owner = None /\ session.guard = None
      /\ \A u \in Turn : u # t => turn[u].pc \notin {"checked", "begun"}
      /\ \A k \in Clear : clear[k] # "checked"
  <2>1. turn[t].pc = "checked" /\ t \in Handling
    BY DEF Begin, Handling
  <2>2. \A u \in Turn : u # t => turn[u].pc \notin {"checked", "begun"}
    BY <2>1 DEF RunGuardInv, OneHandler, Handling
  <2>3. \A k \in Clear : clear[k] # "checked"
    BY <2>1, RunGuardAssumption DEF RunGuardInv, OneHandler, Handling
  <2> QED BY <2>1, <2>2, <2>3, RunGuardAssumption
          DEF RunGuardInv, Typed, OneHandler, Guarded, Begin
<1>2. /\ turn' \in [Turn -> TurnState]
      /\ \A u \in Turn : u # t => turn'[u] = turn[u]
      /\ turn'[t].pc = "begun" /\ turn'[t].seq = session.seq + 1
      /\ turn'[t].guarded = turn[t].guarded
      /\ turn'[t].resumeAtStart = session.resume
      /\ turn'[t].bindingAtStart = turn[t].bindingAtStart
      /\ turn'[t].torn = turn[t].torn /\ turn'[t].grace = turn[t].grace
      /\ turn'[t].verdict = turn[t].verdict /\ turn'[t].named = turn[t].named /\ turn'[t].fedBack = turn[t].fedBack
  <2> DEFINE r == [turn[t] EXCEPT !.pc = "begun", !.seq = session.seq + 1,
                                  !.resumeAtStart = session.resume]
  <2>1. turn' = [turn EXCEPT ![t] = r]
    BY <1>1 DEF Begin
  <2>2. session.seq + 1 \in Nat /\ session.resume \in Turn \cup {None}
    BY <1>1 DEF Session
  <2>3. /\ r \in TurnState /\ r.pc = "begun" /\ r.seq = session.seq + 1
        /\ r.guarded = turn[t].guarded /\ r.resumeAtStart = session.resume
        /\ r.bindingAtStart = turn[t].bindingAtStart
        /\ r.torn = turn[t].torn /\ r.grace = turn[t].grace
        /\ r.verdict = turn[t].verdict /\ r.named = turn[t].named /\ r.fedBack = turn[t].fedBack
    BY <1>1, <2>2 DEF TurnState
  <2> HIDE DEF r
  <2> QED BY <1>1, <2>1, <2>3
<1>3. /\ session'.owner = t /\ session'.seq = session.seq + 1
      /\ session'.finalized = session.finalized /\ session'.guard = session.guard
      /\ session'.resume = session.resume /\ session'.binding = session.binding
      /\ session'.history = Append(session.history, m)
      /\ session' \in Session
  <2> DEFINE h == Append(session.history, m)
  <2>1. session' = [session EXCEPT !.owner = t, !.seq = @ + 1, !.history = h]
    BY DEF Begin
  <2>2. m \in Message
    BY DEF Message
  <2> HIDE DEF m
  <2>3. h \in Seq(Message)
    BY <2>2, HistoryTyped DEF RunGuardInv
  <2> HIDE DEF h
  <2>4. session' \in Session
    <3>1. session' = [owner |-> t, seq |-> session.seq + 1, finalized |-> session.finalized,
                      guard |-> session.guard, resume |-> session.resume,
                      binding |-> session.binding, history |-> h]
      BY <1>1, <2>1 DEF Session
    <3>2. session.seq + 1 \in Nat /\ session.finalized \in Nat
      BY <1>1 DEF Session
    <3> QED BY <1>1, <2>3, <3>1, <3>2 DEF Session
  <2>5. /\ session'.owner = t /\ session'.seq = session.seq + 1
        /\ session'.finalized = session.finalized /\ session'.guard = session.guard
        /\ session'.resume = session.resume /\ session'.binding = session.binding
        /\ session'.history = h
    BY <1>1, <2>1 DEF Session
  <2> QED BY <2>4, <2>5 DEF h
<1>4. m \in Message /\ m.role = "user" /\ m.turn = t
  BY DEF Message
<1> HIDE DEF m
<1>5. session.seq \in Nat /\ session.finalized \in Nat
  BY <1>1 DEF Session
<1>6. Typed'
  BY <1>1, <1>2, <1>3 DEF RunGuardInv, Typed
<1>7. OneHandler'
  <2>1. Handling' = Handling
    BY <1>1, <1>2 DEF Handling
  <2> QED BY <1>1, <1>2, <1>3, <2>1 DEF RunGuardInv, OneHandler
<1>8. Guarded'
  <2>1. session'.finalized <= session'.seq
    BY <1>3, <1>5 DEF RunGuardInv, Guarded
  <2> QED BY <1>1, <1>2, <1>3, <2>1, RunGuardAssumption DEF RunGuardInv, Guarded, Live
<1>9. Fenced'
  BY <1>1, <1>2, <1>3, RunGuardAssumption DEF RunGuardInv, Fenced, Dead
<1>10. Names'
  <2>1. \A u \in Turn : Known(u) => u # t /\ Known(u)'
    BY <1>1, <1>2 DEF Known, Dead
  <2> QED BY <1>1, <1>2, <1>3, <2>1 DEF RunGuardInv, Names
<1>11. QuestionLast' /\ AnswerFollowsQuestion'
  <2>1. \A u \in Turn : turn'[u].torn = turn[u].torn
    BY <1>2
  <2>2. AnswerFollowsQuestion' /\ Asked(t)'
    BY <1>3, <1>4, <2>1, AppendKeepsOrder DEF RunGuardInv
  <2> QED BY <1>3, <2>2 DEF QuestionLast
<1> QED BY <1>6, <1>7, <1>8, <1>9, <1>10, <1>11 DEF RunGuardInv

\* The guard is attached to the turn that has the session.
LEMMA AttachKeeps ==
    ASSUME RunGuardInv, NEW t \in Turn, Attach(t)
    PROVE  RunGuardInv'
<1> USE DEF Fresh, Running, Tearing
<1>1. /\ turn \in [Turn -> TurnState] /\ turn[t] \in TurnState /\ turn[t].pc = "begun"
      /\ session \in Session /\ UNCHANGED clear
      /\ turn[t].grace = "off" /\ session.owner = t /\ session.seq = turn[t].seq
      /\ session.binding # t
  BY DEF RunGuardInv, Typed, OneHandler, Guarded, Names, Known, Attach
<1>2. /\ turn' \in [Turn -> TurnState]
      /\ \A u \in Turn : u # t => turn'[u] = turn[u]
      /\ turn'[t].pc = "started" /\ turn'[t].seq = turn[t].seq
      /\ turn'[t].guarded = TRUE
      /\ turn'[t].resumeAtStart = turn[t].resumeAtStart
      /\ turn'[t].bindingAtStart = session.binding
      /\ turn'[t].torn = turn[t].torn /\ turn'[t].grace = turn[t].grace
      /\ turn'[t].verdict = turn[t].verdict /\ turn'[t].named = turn[t].named /\ turn'[t].fedBack = turn[t].fedBack
  <2> DEFINE r == [turn[t] EXCEPT !.pc = "started", !.guarded = TRUE,
                                  !.bindingAtStart = session.binding]
  <2>1. turn' = [turn EXCEPT ![t] = r]
    BY <1>1 DEF Attach
  <2>2. session.binding \in Turn \cup {None}
    BY <1>1 DEF Session
  <2>3. /\ r \in TurnState /\ r.pc = "started" /\ r.seq = turn[t].seq
        /\ r.guarded = TRUE /\ r.resumeAtStart = turn[t].resumeAtStart
        /\ r.bindingAtStart = session.binding
        /\ r.torn = turn[t].torn /\ r.grace = turn[t].grace
        /\ r.verdict = turn[t].verdict /\ r.named = turn[t].named /\ r.fedBack = turn[t].fedBack
    <3> DEFINE q == turn[t]
    <3>1. /\ q \in TurnState
          /\ r = [q EXCEPT !.pc = "started", !.guarded = TRUE, !.bindingAtStart = session.binding]
      BY <1>1
    <3> HIDE DEF q, r
    <3>2. /\ r \in TurnState /\ r.pc = "started" /\ r.seq = q.seq
          /\ r.guarded = TRUE /\ r.resumeAtStart = q.resumeAtStart
          /\ r.bindingAtStart = session.binding
          /\ r.torn = q.torn /\ r.grace = q.grace
          /\ r.verdict = q.verdict /\ r.named = q.named /\ r.fedBack = q.fedBack
      BY <2>2, <3>1 DEF TurnState
    <3> QED BY <3>2 DEF q
  <2> HIDE DEF r
  <2> QED BY <1>1, <2>1, <2>3
<1>3. /\ session' \in Session /\ session'.guard = t
      /\ session'.owner = session.owner /\ session'.seq = session.seq
      /\ session'.finalized = session.finalized
      /\ session'.resume = session.resume /\ session'.binding = session.binding
      /\ session'.history = session.history
  BY <1>1 DEF Attach, Session
<1>4. Typed'
  BY <1>1, <1>2, <1>3 DEF RunGuardInv, Typed
<1>5. OneHandler'
  <2>1. Handling' \subseteq Handling
    BY <1>1, <1>2 DEF Handling
  <2> QED BY <1>1, <1>2, <1>3, <2>1 DEF RunGuardInv, OneHandler
<1>6. Guarded'
  BY <1>1, <1>2, <1>3 DEF RunGuardInv, Guarded, Live
<1>7. Fenced'
  <2>1. session.guard = None
    BY <1>1 DEF RunGuardInv, Guarded
  <2> QED BY <1>1, <1>2, <1>3, <2>1, RunGuardAssumption DEF RunGuardInv, Fenced, Dead
<1>8. Names'
  <2>1. \A u \in Turn : Known(u) => Known(u)'
    BY <1>1, <1>2 DEF Known, Dead
  <2> QED BY <1>1, <1>2, <1>3, <2>1 DEF RunGuardInv, Names
<1>9. QuestionLast' /\ AnswerFollowsQuestion'
  <2>1. /\ AnswerFollowsQuestion => AnswerFollowsQuestion'
        /\ \A u \in Turn : Asked(u) => Asked(u)'
    BY <1>2, <1>3, HistoryKept DEF RunGuardInv
  <2> QED BY <1>1, <1>2, <1>3, <2>1 DEF RunGuardInv, QuestionLast, Asking
<1> QED BY <1>4, <1>5, <1>6, <1>7, <1>8, <1>9 DEF RunGuardInv

\* /clear is checked like a message.
LEMMA CheckClearKeeps ==
    ASSUME ~Overlap, RunGuardInv, NEW k \in Clear, CheckClear(k)
    PROVE  RunGuardInv'
<1>1. /\ UNCHANGED <<session, turn>> /\ Handling = {}
      /\ clear' = [clear EXCEPT ![k] = IF session.owner = None THEN "checked" ELSE "refused"]
      /\ clear \in [Clear -> {"new", "checked", "refused", "gone"}]
  BY DEF RunGuardInv, Typed, CheckClear, MayHandle
<1>2. Typed'
  BY <1>1 DEF RunGuardInv, Typed
<1>3. OneHandler'
  <2>1. Handling' \subseteq {k}
    BY <1>1 DEF Handling
  <2> QED BY <1>1, <2>1 DEF RunGuardInv, OneHandler
<1>4. Guarded' /\ Fenced' /\ Names'
  BY <1>1 DEF RunGuardInv, Guarded, Fenced, Names, Known, Live, Dead
<1>5. QuestionLast' /\ AnswerFollowsQuestion'
  BY <1>1, HistoryKept DEF RunGuardInv, QuestionLast
<1> QED BY <1>2, <1>3, <1>4, <1>5 DEF RunGuardInv

\* /clear empties a session that no turn has.
LEMMA ClearSessionKeeps ==
    ASSUME RunGuardInv, NEW k \in Clear, ClearSession(k)
    PROVE  RunGuardInv'
<1>1. /\ session \in Session /\ session.owner = None /\ session.guard = None
      /\ clear[k] = "checked" /\ UNCHANGED turn
      /\ clear' = [clear EXCEPT ![k] = "gone"]
      /\ clear \in [Clear -> {"new", "checked", "refused", "gone"}]
  BY DEF RunGuardInv, Typed, OneHandler, Guarded, ClearSession
<1>2. /\ session'.owner = None /\ session'.guard = None /\ session'.resume = None
      /\ session'.binding = session.binding
      /\ session'.seq = 0 /\ session'.finalized = 0 /\ session'.history = <<>>
      /\ session' \in Session
  <2>1. <<>> \in Seq(Message)
    OBVIOUS
  <2>2. session' = [owner |-> None, seq |-> 0, finalized |-> 0, guard |-> None,
                    resume |-> None, binding |-> session.binding, history |-> <<>>]
    BY <1>1 DEF ClearSession, Session
  <2>3. session.binding \in Turn \cup {None}
    BY <1>1 DEF Session
  <2> QED BY <2>1, <2>2, <2>3 DEF Session
<1>3. \A t \in Turn : t # None
  BY RunGuardAssumption
<1>4. Typed'
  BY <1>1, <1>2 DEF RunGuardInv, Typed
<1>5. OneHandler'
  <2>1. Handling' \subseteq Handling
    BY <1>1 DEF Handling
  <2>2. \A t \in Turn : turn[t].pc # "begun"
    BY <1>1, <1>3 DEF RunGuardInv, OneHandler
  <2> QED BY <1>1, <1>2, <2>1, <2>2 DEF RunGuardInv, OneHandler
<1>6. Guarded'
  BY <1>1, <1>2, <1>3 DEF RunGuardInv, Guarded, Live
<1>7. Fenced'
  BY <1>1, <1>2, <1>3 DEF RunGuardInv, Fenced, Dead
<1>8. Names'
  BY <1>1, <1>2, <1>3 DEF RunGuardInv, Names, Known, Dead
<1>9. QuestionLast' /\ AnswerFollowsQuestion'
  <2>1. DOMAIN session'.history = {}
    BY <1>2
  <2> QED BY <1>2, <1>3, <2>1 DEF QuestionLast, AnswerFollowsQuestion
<1> QED BY <1>4, <1>5, <1>6, <1>7, <1>8, <1>9 DEF RunGuardInv

(***************************************************************************)
(* Steps that set the resume point and the binding only, to ids that       *)
(* others may hold, while at most one turn moves on, which runs or whose   *)
(* message has only been sent.                                             *)
(***************************************************************************)
NamesOnly ==
    /\ session' \in Session /\ clear' = clear
    /\ session'.owner = session.owner /\ session'.guard = session.guard
    /\ session'.seq = session.seq /\ session'.finalized = session.finalized
    /\ session'.history = session.history

\* Such a step keeps the invariant when the ids it sets are known ones and the
\* turn that moves on does so without a new write before it.
LEMMA NamesOnlyKeeps ==
    ASSUME RunGuardInv, NamesOnly,
           turn' \in [Turn -> TurnState],
           \A u \in Turn :
              /\ turn'[u].seq = turn[u].seq /\ turn'[u].guarded = turn[u].guarded
              /\ turn'[u].resumeAtStart = turn[u].resumeAtStart
              /\ turn'[u].bindingAtStart = turn[u].bindingAtStart
              /\ turn'[u].torn = turn[u].torn /\ turn'[u].grace = turn[u].grace
              /\ turn'[u].verdict = turn[u].verdict /\ turn'[u].named = turn[u].named
              /\ turn[u].fedBack => turn'[u].fedBack
              /\ \/ turn'[u].pc = turn[u].pc
                 \/ turn[u].pc = "new" /\ turn'[u].pc = "asked"
                 \/ /\ turn[u].pc \in Running /\ turn'[u].pc \in Running \ Tearing
                    /\ turn'[u].pc \in Asking => turn[u].pc \in Asking,
           \A x, y \in Handling' : x = y,
           \A n \in Turn : session'.resume = n \/ session'.binding = n => Known(n)'
    PROVE  RunGuardInv'
<1> USE DEF Fresh, Running, Tearing
<1>1. Typed'
  BY DEF RunGuardInv, Typed, NamesOnly
<1>2. \A u \in Turn : /\ turn'[u].pc \in Fresh <=> turn[u].pc \in Fresh
                      /\ turn'[u].pc \in {"checked", "begun"} \/ turn[u].pc \in {"checked", "begun"} =>
                             turn'[u].pc = turn[u].pc
                      /\ Live(u)' <=> Live(u)
                      /\ Dead(u)' <=> Dead(u)
                      /\ Known(u) => Known(u)'
  BY DEF Known, Live, Dead
<1>4. OneHandler'
  BY <1>2 DEF RunGuardInv, OneHandler, NamesOnly
<1>5. Guarded'
  BY <1>2 DEF RunGuardInv, Guarded, NamesOnly
<1>6. Fenced'
  BY <1>2 DEF RunGuardInv, Fenced, NamesOnly
<1>7. Names'
  BY <1>2 DEF RunGuardInv, Names, NamesOnly
<1>8. QuestionLast' /\ AnswerFollowsQuestion'
  <2>1. /\ AnswerFollowsQuestion => AnswerFollowsQuestion'
        /\ \A u \in Turn : Asked(u) => Asked(u)'
    BY HistoryKept DEF RunGuardInv, NamesOnly
  <2> QED BY <2>1 DEF RunGuardInv, QuestionLast, NamesOnly, Asking
<1> QED BY <1>1, <1>4, <1>5, <1>6, <1>7, <1>8 DEF RunGuardInv

\* The native id of a turn that stands before a write is one that others may hold.
LEMMA NativeIsKnown ==
    ASSUME RunGuardInv, NEW t \in Turn, turn[t].pc \in Tearing
    PROVE  Native(t) \in Turn /\ Known(Native(t))
<1>1. turn[t] \in TurnState
  BY DEF RunGuardInv, Typed
<1>2. turn[t].resumeAtStart \in Turn \cup {None}
  BY <1>1 DEF TurnState
<1>3. CASE turn[t].resumeAtStart = None
  BY <1>3 DEF Native, RunGuardInv, Fenced, Known, Fresh, Tearing
<1>4. CASE turn[t].resumeAtStart \in Turn
  BY <1>4, RunGuardAssumption DEF Native, RunGuardInv, Names
<1> QED BY <1>2, <1>3, <1>4

\* An id a caller supplies names a turn that began afresh; if that turn is dead
\* its id has come back.
LEMMA SuppliedIsKnown ==
    ASSUME RunGuardInv, NEW x \in Supplied, turn' \in [Turn -> TurnState],
           \A u \in Turn : /\ turn'[u].pc \in Fresh <=> turn[u].pc \in Fresh
                           /\ turn'[u].resumeAtStart = turn[u].resumeAtStart
                           /\ turn'[u].torn = turn[u].torn /\ turn'[u].grace = turn[u].grace
                           /\ turn'[u].fedBack = FedBack(x)[u].fedBack
    PROVE  x \in Turn \cup {None} /\ (x \in Turn => Known(x)')
<1>1. x \in Turn => turn[x].pc \notin Fresh /\ turn[x].resumeAtStart = None
  BY RunGuardAssumption DEF Supplied, RunGuardInv, Names
<1>2. x \in Turn /\ Dead(x) => turn'[x].fedBack
  <2> SUFFICES ASSUME x \in Turn, Dead(x) PROVE turn'[x].fedBack
    OBVIOUS
  <2>1. FedBack(x) = [turn EXCEPT ![x] = [turn[x] EXCEPT !.fedBack = TRUE]]
    BY RunGuardAssumption DEF FedBack
  <2>2. [turn[x] EXCEPT !.fedBack = TRUE].fedBack
    BY DEF RunGuardInv, Typed, TurnState
  <2>3. FedBack(x)[x].fedBack
    BY <2>1, <2>2 DEF RunGuardInv, Typed
  <2> QED BY <2>3
<1> QED BY <1>1, <1>2, RunGuardAssumption DEF Supplied, Known, Dead

\* A supplied id leaves its mark in the record of its turn and nowhere else.
LEMMA FedBackMarks ==
    ASSUME turn \in [Turn -> TurnState], NEW x
    PROVE  /\ FedBack(x) \in [Turn -> TurnState]
           /\ \A u \in Turn :
                 /\ FedBack(x)[u].pc = turn[u].pc
                 /\ FedBack(x)[u].seq = turn[u].seq /\ FedBack(x)[u].guarded = turn[u].guarded
                 /\ FedBack(x)[u].resumeAtStart = turn[u].resumeAtStart
                 /\ FedBack(x)[u].bindingAtStart = turn[u].bindingAtStart
                 /\ FedBack(x)[u].torn = turn[u].torn /\ FedBack(x)[u].grace = turn[u].grace
                 /\ FedBack(x)[u].verdict = turn[u].verdict /\ FedBack(x)[u].named = turn[u].named
                 /\ turn[u].fedBack => FedBack(x)[u].fedBack
<1>1. CASE x \in Turn /\ x # None /\ Dead(x)
  <2> DEFINE r == [turn[x] EXCEPT !.fedBack = TRUE]
  <2>1. FedBack(x) = [turn EXCEPT ![x] = r]
    BY <1>1 DEF FedBack
  <2>2. /\ r \in TurnState /\ r.pc = turn[x].pc /\ r.grace = turn[x].grace
        /\ r.seq = turn[x].seq /\ r.guarded = turn[x].guarded /\ r.torn = turn[x].torn
        /\ r.verdict = turn[x].verdict /\ r.named = turn[x].named /\ r.fedBack
        /\ r.resumeAtStart = turn[x].resumeAtStart /\ r.bindingAtStart = turn[x].bindingAtStart
    <3> DEFINE q == turn[x]
    <3>1. q \in TurnState /\ r = [q EXCEPT !.fedBack = TRUE]
      BY <1>1
    <3> HIDE DEF q, r
    <3>2. /\ r \in TurnState /\ r.pc = q.pc /\ r.grace = q.grace
          /\ r.seq = q.seq /\ r.guarded = q.guarded /\ r.torn = q.torn
          /\ r.verdict = q.verdict /\ r.named = q.named /\ r.fedBack
          /\ r.resumeAtStart = q.resumeAtStart /\ r.bindingAtStart = q.bindingAtStart
      BY <3>1 DEF TurnState
    <3> QED BY <3>2 DEF q
  <2> HIDE DEF r
  <2>3. FedBack(x) \in [Turn -> TurnState] /\ FedBack(x)[x] = r
    BY <1>1, <2>1, <2>2
  <2>4. \A u \in Turn : u # x => FedBack(x)[u] = turn[u]
    BY <1>1, <2>1
  <2> QED BY <1>1, <2>2, <2>3, <2>4
<1>2. CASE ~(x \in Turn /\ x # None /\ Dead(x))
  <2>1. FedBack(x) = turn
    BY <1>2 DEF FedBack
  <2> QED BY <2>1
<1> QED BY <1>1, <1>2

\* A create of the session that exists takes the caller's id, or brings back
\* what is bound.
LEMMA CreateAgainKeeps ==
    ASSUME RunGuardInv, CreateAgain
    PROVE  RunGuardInv'
<1>1. session \in Session /\ turn \in [Turn -> TurnState] /\ UNCHANGED clear
  BY DEF RunGuardInv, Typed, CreateAgain
<1>2. PICK x \in Supplied :
          /\ session' = [session EXCEPT !.resume = FirstNonEmpty(x, FirstNonEmpty(@, session.binding))]
          /\ turn' = FedBack(x)
  BY DEF CreateAgain
<1>3. /\ turn' \in [Turn -> TurnState]
      /\ \A u \in Turn :
            /\ turn'[u].pc = turn[u].pc
            /\ turn'[u].seq = turn[u].seq /\ turn'[u].guarded = turn[u].guarded
            /\ turn'[u].resumeAtStart = turn[u].resumeAtStart
            /\ turn'[u].bindingAtStart = turn[u].bindingAtStart
            /\ turn'[u].torn = turn[u].torn /\ turn'[u].grace = turn[u].grace
            /\ turn'[u].verdict = turn[u].verdict /\ turn'[u].named = turn[u].named
            /\ turn[u].fedBack => turn'[u].fedBack
            /\ turn'[u].fedBack = FedBack(x)[u].fedBack
  BY <1>1, <1>2, FedBackMarks
<1>4. x \in Turn \cup {None} /\ (x \in Turn => Known(x)')
  BY <1>3, SuppliedIsKnown
<1>5. /\ NamesOnly /\ session'.binding = session.binding
      /\ session'.resume \in {x, session.resume, session.binding}
  BY <1>1, <1>2, <1>4 DEF NamesOnly, Session, FirstNonEmpty
<1>6. \A n \in Turn : Known(n) => Known(n)'
  BY <1>3 DEF Known, Dead
<1>7. \A n \in Turn : session'.resume = n \/ session'.binding = n => Known(n)'
  BY <1>4, <1>5, <1>6 DEF RunGuardInv, Names
<1>8. Handling' = Handling
  BY <1>1, <1>3 DEF Handling
<1>9. \A a, b \in Handling' : a = b
  BY <1>8 DEF RunGuardInv, OneHandler
<1> QED BY <1>3, <1>5, <1>7, <1>9, NamesOnlyKeeps

\* ai.run.start takes what is bound, or the caller's id; its message is then
\* the only one handled.
LEMMA RunStartKeeps ==
    ASSUME ~Overlap, RunGuardInv, NEW t \in Turn, RunStart(t)
    PROVE  RunGuardInv'
<1>1. /\ session \in Session /\ turn \in [Turn -> TurnState] /\ UNCHANGED clear
      /\ turn[t].pc = "new" /\ Handling = {}
  BY DEF RunGuardInv, Typed, RunStart, MayHandle
<1>2. PICK x \in IF session.binding = None THEN Supplied ELSE {session.binding} :
          /\ session' = [session EXCEPT !.resume = FirstNonEmpty(x, @)]
          /\ turn' = [(IF session.binding = None THEN FedBack(x) ELSE turn) EXCEPT ![t].pc = "asked"]
  BY DEF RunStart
<1> DEFINE marked == IF session.binding = None THEN FedBack(x) ELSE turn
           r == [marked[t] EXCEPT !.pc = "asked"]
<1>3. /\ marked \in [Turn -> TurnState]
      /\ \A u \in Turn :
            /\ marked[u].pc = turn[u].pc
            /\ marked[u].seq = turn[u].seq /\ marked[u].guarded = turn[u].guarded
            /\ marked[u].resumeAtStart = turn[u].resumeAtStart
            /\ marked[u].bindingAtStart = turn[u].bindingAtStart
            /\ marked[u].torn = turn[u].torn /\ marked[u].grace = turn[u].grace
            /\ marked[u].verdict = turn[u].verdict /\ marked[u].named = turn[u].named
            /\ turn[u].fedBack => marked[u].fedBack
            /\ session.binding = None => marked[u].fedBack = FedBack(x)[u].fedBack
  BY <1>1, FedBackMarks
<1>4. turn' = [marked EXCEPT ![t] = r]
  BY <1>2
<1> HIDE DEF marked
<1>5. /\ r \in TurnState /\ r.pc = "asked" /\ r.grace = marked[t].grace
      /\ r.seq = marked[t].seq /\ r.guarded = marked[t].guarded /\ r.torn = marked[t].torn
      /\ r.verdict = marked[t].verdict /\ r.named = marked[t].named
      /\ r.fedBack = marked[t].fedBack
      /\ r.resumeAtStart = marked[t].resumeAtStart /\ r.bindingAtStart = marked[t].bindingAtStart
  BY <1>3 DEF TurnState, Fresh
<1> HIDE DEF r
<1>6. /\ turn' \in [Turn -> TurnState]
      /\ \A u \in Turn :
            /\ IF u = t THEN turn'[u].pc = "asked" ELSE turn'[u].pc = turn[u].pc
            /\ turn'[u].seq = turn[u].seq /\ turn'[u].guarded = turn[u].guarded
            /\ turn'[u].resumeAtStart = turn[u].resumeAtStart
            /\ turn'[u].bindingAtStart = turn[u].bindingAtStart
            /\ turn'[u].torn = turn[u].torn /\ turn'[u].grace = turn[u].grace
            /\ turn'[u].verdict = turn[u].verdict /\ turn'[u].named = turn[u].named
            /\ turn[u].fedBack => turn'[u].fedBack
            /\ session.binding = None => turn'[u].fedBack = FedBack(x)[u].fedBack
  BY <1>3, <1>4, <1>5
<1>7. \A u \in Turn : turn'[u].pc \in Fresh <=> turn[u].pc \in Fresh
  BY <1>1, <1>6 DEF Fresh
<1>8. \A n \in Turn : Known(n) => Known(n)'
  BY <1>6, <1>7 DEF Known, Dead
<1>9. x \in Turn \cup {None} /\ (x \in Turn => Known(x)')
  <2>1. CASE session.binding = None
    BY <1>2, <1>6, <1>7, <2>1, SuppliedIsKnown
  <2>2. CASE session.binding # None
    BY <1>1, <1>2, <1>8, <2>2 DEF Session, RunGuardInv, Names
  <2> QED BY <2>1, <2>2
<1>10. /\ NamesOnly /\ session'.binding = session.binding
       /\ session'.resume \in {x, session.resume}
  BY <1>1, <1>2, <1>9 DEF NamesOnly, Session, FirstNonEmpty
<1>11. \A n \in Turn : session'.resume = n \/ session'.binding = n => Known(n)'
  BY <1>8, <1>9, <1>10 DEF RunGuardInv, Names
<1>12. Handling' \subseteq {t}
  BY <1>1, <1>6 DEF Handling
<1>13. \A a, b \in Handling' : a = b
  BY <1>12
<1> QED BY <1>1, <1>6, <1>10, <1>11, <1>13, NamesOnlyKeeps

\* A run binds its native id, or is refused and cancelled.
LEMMA BindKeeps ==
    ASSUME RunGuardInv, NEW t \in Turn, Bind(t)
    PROVE  RunGuardInv'
<1>1. /\ turn \in [Turn -> TurnState] /\ turn[t] \in TurnState /\ session \in Session
      /\ turn[t].pc = "binding" /\ UNCHANGED clear
  BY DEF RunGuardInv, Typed, Bind
<1>2. CASE session.binding \in {None, Native(t)}
  <2> DEFINE r == [turn[t] EXCEPT !.pc = "working"]
  <2>1. /\ turn' = [turn EXCEPT ![t] = r]
        /\ session' = [session EXCEPT !.binding = Native(t), !.resume = Native(t)]
    BY <1>1, <1>2 DEF Bind
  <2>2. Native(t) \in Turn /\ Known(Native(t))
    BY <1>1, NativeIsKnown DEF Tearing
  <2>3. /\ r \in TurnState /\ r.pc = "working" /\ r.grace = turn[t].grace
        /\ r.seq = turn[t].seq /\ r.guarded = turn[t].guarded
        /\ r.torn = turn[t].torn
        /\ r.verdict = turn[t].verdict /\ r.named = turn[t].named /\ r.fedBack = turn[t].fedBack
        /\ r.resumeAtStart = turn[t].resumeAtStart /\ r.bindingAtStart = turn[t].bindingAtStart
    BY <1>1 DEF TurnState, Running
  <2> HIDE DEF r
  <2>4. NamesOnly /\ session'.resume = Native(t) /\ session'.binding = Native(t)
    BY <1>1, <2>1, <2>2 DEF NamesOnly, Session
  <2>5. turn' \in [Turn -> TurnState] /\ turn'[t] = r /\ \A u \in Turn : u # t => turn'[u] = turn[u]
    BY <1>1, <2>1, <2>3
  <2>6. Handling' = Handling /\ \A n \in Turn : Known(n) => Known(n)'
    BY <1>1, <2>3, <2>5 DEF Handling, Known, Dead, Fresh
  <2>7. \A n \in Turn : session'.resume = n \/ session'.binding = n => Known(n)'
    BY <2>2, <2>4, <2>6
  <2>8. \A x, y \in Handling' : x = y
    BY <2>6 DEF RunGuardInv, OneHandler
  <2> QED BY <1>1, <2>3, <2>4, <2>5, <2>7, <2>8, NamesOnlyKeeps DEF Running, Tearing, Asking
<1>3. CASE session.binding \notin {None, Native(t)}
  <2> DEFINE e == Emit(turn[t], "mismatch")
             r == [e EXCEPT !.pc = "working", !.cancelled = TRUE]
  <2>1. /\ e \in TurnState
        /\ e.seq = turn[t].seq /\ e.guarded = turn[t].guarded
        /\ e.torn = turn[t].torn
        /\ e.verdict = turn[t].verdict /\ e.named = turn[t].named /\ e.fedBack = turn[t].fedBack
        /\ e.resumeAtStart = turn[t].resumeAtStart /\ e.bindingAtStart = turn[t].bindingAtStart
        /\ e.grace = turn[t].grace
    BY <1>1, Emitted
  <2>2. turn' = [turn EXCEPT ![t] = r] /\ UNCHANGED <<session, clear>>
    BY <1>1, <1>3 DEF Bind
  <2> HIDE DEF e
  <2>3. /\ r \in TurnState /\ r.pc = "working" /\ r.grace = e.grace
        /\ r.seq = e.seq /\ r.guarded = e.guarded
        /\ r.torn = e.torn
        /\ r.verdict = e.verdict /\ r.named = e.named /\ r.fedBack = e.fedBack
        /\ r.resumeAtStart = e.resumeAtStart /\ r.bindingAtStart = e.bindingAtStart
    BY <2>1 DEF TurnState, Running
  <2> HIDE DEF r
  <2>4. Quiet
    BY <1>1, <2>1, <2>2, <2>3, QuietTurn DEF Running, Tearing, Asking
  <2> QED BY <2>4, QuietKeeps
<1> QED BY <1>2, <1>3

\* The resume point is set, if it was lost, to the id of the turn that has its number.
LEMMA PinKeeps ==
    ASSUME RunGuardInv, NEW t \in Turn, Pin(t)
    PROVE  RunGuardInv'
<1>1. /\ turn \in [Turn -> TurnState] /\ turn[t] \in TurnState /\ session \in Session
      /\ turn[t].pc = "pinning" /\ UNCHANGED clear
  BY DEF RunGuardInv, Typed, Pin
<1> DEFINE e == Emit(turn[t], "done")
           r == [e EXCEPT !.pc = "returned", !.cancelled = TRUE]
<1>2. /\ e \in TurnState
      /\ e.seq = turn[t].seq /\ e.guarded = turn[t].guarded
      /\ e.torn = turn[t].torn
      /\ e.verdict = turn[t].verdict /\ e.named = turn[t].named /\ e.fedBack = turn[t].fedBack
      /\ e.resumeAtStart = turn[t].resumeAtStart /\ e.bindingAtStart = turn[t].bindingAtStart
      /\ e.grace = turn[t].grace
  BY <1>1, Emitted
<1>3. turn' = [turn EXCEPT ![t] = r]
  BY <1>1 DEF Pin
<1> HIDE DEF e
<1>4. /\ r \in TurnState /\ r.pc = "returned" /\ r.grace = e.grace
      /\ r.seq = e.seq /\ r.guarded = e.guarded
      /\ r.torn = e.torn
      /\ r.verdict = e.verdict /\ r.named = e.named /\ r.fedBack = e.fedBack
      /\ r.resumeAtStart = e.resumeAtStart /\ r.bindingAtStart = e.bindingAtStart
  BY <1>2 DEF TurnState, Running
<1> HIDE DEF r
<1>5. Native(t) \in Turn /\ Known(Native(t))
  BY <1>1, NativeIsKnown DEF Tearing
<1>6. /\ session' \in Session /\ NamesOnly
      /\ session'.binding = session.binding
      /\ session'.resume \in {session.resume, Native(t)}
  BY <1>1, <1>5 DEF Pin, NamesOnly, Session
<1>7. turn' \in [Turn -> TurnState] /\ turn'[t] = r /\ \A u \in Turn : u # t => turn'[u] = turn[u]
  BY <1>1, <1>3, <1>4
<1>8. Handling' = Handling /\ \A n \in Turn : Known(n) => Known(n)'
  BY <1>1, <1>2, <1>4, <1>7 DEF Handling, Known, Dead, Fresh
<1>9. \A n \in Turn : session'.resume = n \/ session'.binding = n => Known(n)'
  BY <1>5, <1>6, <1>8 DEF RunGuardInv, Names
<1>10. \A x, y \in Handling' : x = y
  BY <1>8 DEF RunGuardInv, OneHandler
<1> QED BY <1>1, <1>2, <1>4, <1>6, <1>7, <1>9, <1>10, NamesOnlyKeeps DEF Running, Tearing, Asking

\* An answer is written by a turn whose question is last, or by a torn one.
LEMMA AppendAnswerKeeps ==
    ASSUME RunGuardInv, NEW t \in Turn, AppendAnswer(t)
    PROVE  RunGuardInv'
<1> DEFINE m == [role |-> "assistant", turn |-> t]
           r == [turn[t] EXCEPT !.pc = "pinning"]
<1>1. /\ turn \in [Turn -> TurnState] /\ turn[t] \in TurnState /\ session \in Session
      /\ turn[t].pc = "writing" /\ UNCHANGED clear
      /\ turn' = [turn EXCEPT ![t] = r]
  BY DEF RunGuardInv, Typed, AppendAnswer
<1>2. /\ r \in TurnState /\ r.pc = "pinning" /\ r.grace = turn[t].grace
      /\ r.seq = turn[t].seq /\ r.guarded = turn[t].guarded
      /\ r.torn = turn[t].torn
      /\ r.verdict = turn[t].verdict /\ r.named = turn[t].named /\ r.fedBack = turn[t].fedBack
      /\ r.resumeAtStart = turn[t].resumeAtStart /\ r.bindingAtStart = turn[t].bindingAtStart
  BY <1>1 DEF TurnState, Running
<1> HIDE DEF r
<1>3. CASE session.seq # turn[t].seq
  <2>1. UNCHANGED <<session, clear>>
    BY <1>3 DEF AppendAnswer
  <2>2. Quiet
    BY <1>1, <1>2, <2>1, QuietTurn DEF Running, Tearing, Asking
  <2> QED BY <2>2, QuietKeeps
<1>4. CASE session.seq = turn[t].seq
  <2>1. m \in Message /\ m.role = "assistant" /\ m.turn = t
    BY DEF Message
  <2>2. session' = [session EXCEPT !.history = Append(session.history, m)]
    BY <1>4 DEF AppendAnswer
  <2> HIDE DEF m
  <2>3. turn' \in [Turn -> TurnState] /\ turn'[t] = r /\ \A u \in Turn : u # t => turn'[u] = turn[u]
    BY <1>1, <1>2
  <2>4. /\ session'.owner = session.owner /\ session'.guard = session.guard
        /\ session'.seq = session.seq /\ session'.finalized = session.finalized
        /\ session'.resume = session.resume /\ session'.binding = session.binding
        /\ session'.history = Append(session.history, m)
        /\ session' \in Session
    <3> DEFINE h == Append(session.history, m)
    <3>1. h \in Seq(Message)
      BY <2>1, HistoryTyped DEF RunGuardInv
    <3>2. session' = [owner |-> session.owner, seq |-> session.seq,
                      finalized |-> session.finalized, guard |-> session.guard,
                      resume |-> session.resume, binding |-> session.binding, history |-> h]
      BY <1>1, <2>2 DEF Session
    <3> HIDE DEF h
    <3>3. session' \in Session
      BY <1>1, <3>1, <3>2 DEF Session
    <3> QED BY <3>2, <3>3 DEF h
  <2>5. session.guard = t => session.owner = t
    BY RunGuardAssumption DEF RunGuardInv, Guarded
  <2>6. turn[t].torn \/ session.guard = t
    BY <1>1 DEF RunGuardInv, Fenced, Tearing
  <2>7. Typed'
    BY <1>1, <2>3, <2>4 DEF RunGuardInv, Typed
  <2>8. OneHandler'
    <3>1. Handling' = Handling
      BY <1>1, <1>2, <2>3 DEF Handling
    <3> QED BY <1>1, <1>2, <2>3, <2>4, <3>1 DEF RunGuardInv, OneHandler
  <2>9. Guarded'
    BY <1>1, <1>2, <2>3, <2>4 DEF RunGuardInv, Guarded, Live, Fresh, Running
  <2>10. Fenced'
    BY <1>1, <1>2, <2>3, <2>4 DEF RunGuardInv, Fenced, Dead, Tearing
  <2>11. Names'
    <3>1. \A u \in Turn : Known(u) => Known(u)'
      BY <1>1, <1>2, <2>3 DEF Known, Dead, Fresh
    <3> QED BY <1>1, <1>2, <2>3, <2>4, <3>1 DEF RunGuardInv, Names, Fresh
  <2>12. QuestionLast' /\ AnswerFollowsQuestion'
    <3>1. \A u \in Turn : turn'[u].torn = turn[u].torn
      BY <1>2, <2>3
    <3>2. ~turn[t].torn => Asked(t)
      BY <1>1, <2>5, <2>6 DEF RunGuardInv, QuestionLast, Asking
    <3>3. AnswerFollowsQuestion'
      BY <2>1, <2>4, <3>1, <3>2, AppendKeepsOrder DEF RunGuardInv
    <3>4. turn[t].torn => \A u \in Turn : Asked(u) => Asked(u)'
      BY <2>1, <2>4, <3>1, AppendKeepsOrder DEF RunGuardInv
    <3>5. session.owner # t => turn[t].torn
      BY <2>5, <2>6
    <3>6. turn'[t].pc \notin Asking
      BY <1>2, <2>3 DEF Asking
    <3> QED BY <2>3, <2>4, <3>3, <3>4, <3>5, <3>6 DEF RunGuardInv, QuestionLast
  <2> QED BY <2>7, <2>8, <2>9, <2>10, <2>11, <2>12 DEF RunGuardInv
<1> QED BY <1>3, <1>4

\* A guarded turn that has the session is the one that frees it.
LEMMA OwnsItself ==
    ASSUME RunGuardInv, NEW t \in Turn, turn[t].guarded
    PROVE  /\ Owns(t) => session.guard = t /\ session.owner = t
           /\ session.owner = t /\ turn[t].pc # "begun" => Owns(t)
  BY RunGuardAssumption DEF RunGuardInv, Guarded, Owns

\* A turn frees the session by its return or by being finalised, when it is the
\* turn the session has; its record says so, and nothing else of it changes.
LEMMA FreeingKeeps ==
    ASSUME RunGuardInv, NEW t \in Turn, turn[t].guarded,
           session' = IF Owns(t) THEN Cleared ELSE session, clear' = clear,
           NEW r \in TurnState, turn' = [turn EXCEPT ![t] = r],
           r.seq = turn[t].seq, r.guarded = turn[t].guarded, r.verdict = turn[t].verdict,
           r.named = turn[t].named, r.fedBack = turn[t].fedBack,
           r.resumeAtStart = turn[t].resumeAtStart, r.bindingAtStart = turn[t].bindingAtStart,
           r.torn = turn[t].torn,
           r.grace \in {"finalized", "over"} <=> turn[t].grace \in {"finalized", "over"},
           turn[t].grace = "off" => r.grace = "off",
           \/ r.pc = turn[t].pc /\ Dead(t)
           \/ turn[t].pc = "leaving" /\ r.pc = "gone"
    PROVE  RunGuardInv'
<1> USE DEF Fresh, Running, Tearing
<1>1. /\ turn \in [Turn -> TurnState] /\ turn[t] \in TurnState /\ session \in Session
      /\ turn[t].pc \notin Fresh
  <2>1. turn[t].pc \notin Fresh
    BY DEF RunGuardInv, Guarded, Dead
  <2> QED BY <2>1 DEF RunGuardInv, Typed
<1>2. turn' \in [Turn -> TurnState] /\ turn'[t] = r /\ \A u \in Turn : u # t => turn'[u] = turn[u]
  BY <1>1
<1>3. /\ session' \in Session /\ session'.owner \in {None, session.owner} \ {t}
      /\ session'.guard \in {None, session.guard}
      /\ session'.owner = None => session'.guard = None
      /\ session'.owner # None => session'.guard = session.guard
      /\ session'.seq = session.seq /\ session'.finalized = session.finalized
      /\ session'.resume = session.resume /\ session'.binding = session.binding
      /\ session'.history = session.history
  <2>1. CASE Owns(t)
    BY <1>1, <2>1, RunGuardAssumption DEF Cleared, Session
  <2>2. CASE ~Owns(t)
    <3>1. session' = session /\ session.owner # t
      BY <1>1, <2>2, OwnsItself
    <3>2. session.owner = None => session.guard = None
      BY DEF RunGuardInv, Guarded
    <3> QED BY <1>1, <3>1, <3>2
  <2> QED BY <2>1, <2>2
<1>4. Typed'
  BY <1>2, <1>3 DEF RunGuardInv, Typed
<1>5. \A u \in Turn : /\ turn'[u].pc \in Fresh \/ turn[u].pc \in Fresh => turn'[u].pc = turn[u].pc
                      /\ Dead(u)' <=> Dead(u)
                      /\ Known(u) <=> Known(u)'
                      /\ turn'[u].pc \in Tearing \cup Asking => turn'[u].pc = turn[u].pc
  BY <1>1, <1>2 DEF Known, Dead, Asking
<1>6. OneHandler'
  <2>1. Handling' = Handling
    BY <1>2, <1>5 DEF Handling
  <2>2. \A u \in Turn : turn[u].pc = "begun" => u # t /\ session.owner = u /\ ~Owns(t)
    BY <1>1, OwnsItself DEF RunGuardInv, OneHandler
  <2>3. \A u \in Turn : turn'[u].pc = "begun" => session'.owner = u
    BY <1>5, <2>2
  <2> QED BY <1>2, <1>3, <1>5, <2>1, <2>3 DEF RunGuardInv, OneHandler
<1>7. Guarded'
  <2>1. ASSUME NEW u \in Turn
        PROVE  /\ turn'[u].pc \in Fresh => turn'[u].grace = "off" /\ turn'[u].verdict = "none"
               /\ turn'[u].pc \in Running => turn'[u].guarded
               /\ turn'[u].verdict # "none" => turn'[u].guarded
               /\ turn'[u].grace # "off" => turn'[u].guarded /\ turn'[u].verdict = "killed"
               /\ turn'[u].pc = "begun" => session'.guard # u
               /\ session'.owner = u => /\ Live(u)' /\ session'.seq = turn'[u].seq
                                        /\ turn'[u].pc # "begun" => session'.guard = u
    <3>1. CASE u = t
      BY <1>1, <1>2, <1>3, <3>1 DEF RunGuardInv, Guarded
    <3>2. CASE u # t
      <4>1. turn'[u] = turn[u]
        BY <1>2, <3>2
      <4> QED BY <1>3, <4>1, RunGuardAssumption DEF RunGuardInv, Guarded, Live
    <3> QED BY <3>1, <3>2
  <2>2. session'.guard # None => session'.guard = session'.owner
    BY <1>3 DEF RunGuardInv, Guarded
  <2>3. session'.finalized <= session'.seq
    BY <1>3 DEF RunGuardInv, Guarded
  <2> QED BY <2>1, <2>2, <2>3 DEF Guarded
<1>8. Fenced'
  <2> SUFFICES ASSUME NEW u \in Turn
               PROVE  /\ Dead(u)' /\ session'.guard = u => session'.finalized = turn'[u].seq
                      /\ Dead(u)' /\ turn'[u].pc \in Tearing => turn'[u].torn
                      /\ turn'[u].pc \in Tearing /\ session'.guard # u => turn'[u].torn
                      /\ turn'[u].torn => Dead(u)'
    BY DEF Fenced
  <2>1. CASE u = t
    BY <1>1, <1>2, <1>3, <1>5, <2>1, RunGuardAssumption DEF RunGuardInv, Fenced
  <2>2. CASE u # t
    <3>1. turn'[u] = turn[u] /\ (session.guard = u => session'.guard = u)
      <4>1. Owns(t) => session.guard = t
        BY OwnsItself
      <4>2. ~Owns(t) => session' = session
        OBVIOUS
      <4> QED BY <1>2, <2>2, <4>1, <4>2
    <3>2. session'.guard = u => session.guard = u
      BY <1>3, RunGuardAssumption
    <3> QED BY <1>3, <1>5, <3>1, <3>2 DEF RunGuardInv, Fenced
  <2> QED BY <2>1, <2>2
<1>9. Names'
  BY <1>1, <1>2, <1>3, <1>5, RunGuardAssumption DEF RunGuardInv, Names
<1>10. QuestionLast' /\ AnswerFollowsQuestion'
  <2>1. /\ AnswerFollowsQuestion => AnswerFollowsQuestion'
        /\ \A u \in Turn : Asked(u) => Asked(u)'
    BY <1>2, <1>3, HistoryKept DEF RunGuardInv
  <2> QED BY <1>3, <1>5, <2>1, RunGuardAssumption DEF RunGuardInv, QuestionLast
<1> QED BY <1>4, <1>6, <1>7, <1>8, <1>9, <1>10 DEF RunGuardInv

\* clearRunning of a run that returned.
LEMMA ClearReturnedKeeps ==
    ASSUME RunGuardInv, NEW t \in Turn, ClearReturned(t)
    PROVE  RunGuardInv'
<1>1. /\ turn \in [Turn -> TurnState] /\ turn[t] \in TurnState
      /\ turn[t].pc = "leaving" /\ turn[t].guarded
  BY DEF RunGuardInv, Typed, Guarded, Running, ClearReturned
<1> DEFINE r == [turn[t] EXCEPT !.pc = "gone", !.done = IF Owns(t) THEN TRUE ELSE @]
<1>2. turn' = [turn EXCEPT ![t] = r]
  <2>1. CASE Owns(t)
    <3>1. session.guard = t /\ session.guard # None
      BY <1>1, <2>1, OwnsItself, RunGuardAssumption
    <3> QED BY <1>1, <2>1, <3>1 DEF ClearReturned, Marked
  <2>2. CASE ~Owns(t)
    <3>1. r = [turn[t] EXCEPT !.pc = "gone"]
      BY <1>1, <2>2 DEF TurnState
    <3> HIDE DEF r
    <3> QED BY <1>1, <2>2, <3>1 DEF ClearReturned
  <2> QED BY <2>1, <2>2
<1>3. /\ r \in TurnState /\ r.pc = "gone" /\ r.grace = turn[t].grace
      /\ r.seq = turn[t].seq /\ r.guarded = turn[t].guarded
      /\ r.torn = turn[t].torn
      /\ r.verdict = turn[t].verdict /\ r.named = turn[t].named /\ r.fedBack = turn[t].fedBack
      /\ r.resumeAtStart = turn[t].resumeAtStart /\ r.bindingAtStart = turn[t].bindingAtStart
  BY <1>1 DEF TurnState
<1>4. session' = (IF Owns(t) THEN Cleared ELSE session) /\ clear' = clear
  BY DEF ClearReturned
<1> HIDE DEF r
<1>5. /\ r.grace \in {"finalized", "over"} <=> turn[t].grace \in {"finalized", "over"}
      /\ turn[t].grace = "off" => r.grace = "off"
      /\ turn[t].pc = "leaving" /\ r.pc = "gone"
  BY <1>1, <1>3
<1> QED BY <1>1, <1>2, <1>3, <1>4, <1>5, FreeingKeeps

\* clearRunning of a turn that was finalised.
LEMMA ReleaseKeeps ==
    ASSUME RunGuardInv, NEW t \in Turn, Release(t)
    PROVE  RunGuardInv'
<1>1. /\ turn \in [Turn -> TurnState] /\ turn[t] \in TurnState
      /\ turn[t].grace = "finalized" /\ turn[t].guarded
  BY DEF RunGuardInv, Typed, Guarded, Release
<1> DEFINE r == [turn[t] EXCEPT !.grace = "over", !.done = IF Owns(t) THEN TRUE ELSE @]
<1>2. turn' = [turn EXCEPT ![t] = r]
  <2>1. CASE Owns(t)
    <3>1. session.guard = t /\ session.guard # None
      BY <1>1, <2>1, OwnsItself, RunGuardAssumption
    <3> QED BY <1>1, <2>1, <3>1 DEF Release, Marked
  <2>2. CASE ~Owns(t)
    <3>1. r = [turn[t] EXCEPT !.grace = "over"]
      BY <1>1, <2>2 DEF TurnState
    <3> HIDE DEF r
    <3> QED BY <1>1, <2>2, <3>1 DEF Release
  <2> QED BY <2>1, <2>2
<1>3. /\ r \in TurnState /\ r.pc = turn[t].pc /\ r.grace = "over"
      /\ r.seq = turn[t].seq /\ r.guarded = turn[t].guarded
      /\ r.torn = turn[t].torn
      /\ r.verdict = turn[t].verdict /\ r.named = turn[t].named /\ r.fedBack = turn[t].fedBack
      /\ r.resumeAtStart = turn[t].resumeAtStart /\ r.bindingAtStart = turn[t].bindingAtStart
  BY <1>1 DEF TurnState
<1>4. session' = (IF Owns(t) THEN Cleared ELSE session) /\ clear' = clear
  BY DEF Release
<1> HIDE DEF r
<1>5. /\ r.grace \in {"finalized", "over"} <=> turn[t].grace \in {"finalized", "over"}
      /\ turn[t].grace = "off" => r.grace = "off"
      /\ r.pc = turn[t].pc /\ Dead(t)
  BY <1>1, <1>3 DEF Dead
<1> QED BY <1>1, <1>2, <1>3, <1>4, <1>5, FreeingKeeps

\* A turn is declared dead while it has the session, so that no later turn has
\* its id, and what it pinned is taken back.
LEMMA FinalizeKeeps ==
    ASSUME RunGuardInv, NEW t \in Turn, Finalize(t)
    PROVE  RunGuardInv'
<1> USE DEF Fresh, Running, Tearing
<1>1. /\ turn \in [Turn -> TurnState] /\ turn[t] \in TurnState /\ session \in Session
      /\ turn[t].grace = "firing" /\ UNCHANGED clear /\ turn[t].guarded /\ turn[t].verdict = "killed"
  BY DEF RunGuardInv, Typed, Guarded, Finalize
<1>2. CASE ~(session.guard = t /\ session.seq = turn[t].seq)
  <2> DEFINE r == [turn[t] EXCEPT !.grace = "skipped"]
  <2>1. turn' = [turn EXCEPT ![t] = r] /\ UNCHANGED <<session, clear>>
    BY <1>1, <1>2 DEF Finalize
  <2>2. /\ r \in TurnState /\ r.pc = turn[t].pc /\ r.grace = "skipped"
        /\ r.seq = turn[t].seq /\ r.guarded = turn[t].guarded
        /\ r.torn = turn[t].torn
        /\ r.verdict = turn[t].verdict /\ r.named = turn[t].named /\ r.fedBack = turn[t].fedBack
        /\ r.resumeAtStart = turn[t].resumeAtStart /\ r.bindingAtStart = turn[t].bindingAtStart
    BY <1>1 DEF TurnState
  <2> HIDE DEF r
  <2>3. Quiet
    BY <1>1, <2>1, <2>2, QuietTurn
  <2> QED BY <2>3, QuietKeeps
<1>3. CASE session.guard = t /\ session.seq = turn[t].seq
  <2> DEFINE atWrite == turn[t].pc \in Tearing
             r == [turn[t] EXCEPT !.grace = "finalized", !.torn = atWrite]
  <2>1. /\ turn' = [turn EXCEPT ![t] = r]
        /\ session' = [Revoked(t) EXCEPT !.finalized = turn[t].seq]
    BY <1>1, <1>3 DEF Finalize
  <2>2. /\ r \in TurnState /\ r.pc = turn[t].pc /\ r.grace = "finalized"
        /\ r.seq = turn[t].seq /\ r.guarded = turn[t].guarded
        /\ turn[t].pc \in Tearing => r.torn
        /\ r.verdict = turn[t].verdict /\ r.named = turn[t].named /\ r.fedBack = turn[t].fedBack
        /\ r.resumeAtStart = turn[t].resumeAtStart /\ r.bindingAtStart = turn[t].bindingAtStart
    <3>1. atWrite \in BOOLEAN
      OBVIOUS
    <3>2. r.torn = atWrite
      BY <1>1 DEF TurnState
    <3> HIDE DEF atWrite
    <3>3. /\ r \in TurnState /\ r.pc = turn[t].pc /\ r.grace = "finalized"
          /\ r.seq = turn[t].seq /\ r.guarded = turn[t].guarded
          /\ r.verdict = turn[t].verdict /\ r.named = turn[t].named /\ r.fedBack = turn[t].fedBack
          /\ r.resumeAtStart = turn[t].resumeAtStart /\ r.bindingAtStart = turn[t].bindingAtStart
      BY <1>1, <3>1 DEF TurnState
    <3> HIDE DEF r
    <3> QED BY <3>2, <3>3 DEF atWrite
  <2> HIDE DEF r
  <2>3. turn' \in [Turn -> TurnState] /\ turn'[t] = r /\ \A u \in Turn : u # t => turn'[u] = turn[u]
    BY <1>1, <2>1, <2>2
  <2>4. session.owner = t /\ ~turn[t].torn
    BY <1>1, <1>3, RunGuardAssumption DEF RunGuardInv, Guarded, Fenced, Dead
  <2>5. turn[t].seq \in Nat
    BY <1>1 DEF TurnState
  <2>6. /\ session' \in Session
        /\ session'.owner = session.owner /\ session'.guard = session.guard
        /\ session'.seq = session.seq /\ session'.finalized = turn[t].seq
        /\ session'.history = session.history
        /\ session'.resume \in {None, session.resume}
        /\ session'.binding \in {None, session.binding}
        /\ turn[t].resumeAtStart = None =>
               session'.resume = None /\ session'.binding \in {None, turn[t].bindingAtStart}
    <3>1. CASE turn[t].resumeAtStart # None
      BY <1>1, <2>1, <2>5, <3>1 DEF Revoked, Session
    <3>2. CASE turn[t].resumeAtStart = None
      <4> DEFINE b == IF session.binding = turn[t].bindingAtStart THEN session.binding ELSE None
      <4>1. session' = [session EXCEPT !.resume = None, !.binding = b, !.finalized = turn[t].seq]
        BY <1>1, <2>1, <3>2 DEF Revoked, Session
      <4>2. /\ b \in Turn \cup {None} /\ b \in {None, session.binding}
            /\ b \in {None, turn[t].bindingAtStart}
        BY <1>1 DEF Session
      <4> HIDE DEF b
      <4> QED BY <1>1, <2>5, <4>1, <4>2 DEF Session
    <3> QED BY <3>1, <3>2
  <2>7. Typed'
    BY <1>1, <2>3, <2>6 DEF RunGuardInv, Typed
  <2>8. turn[t].pc \notin Fresh
    BY <1>1 DEF RunGuardInv, Guarded
  <2>9. OneHandler'
    <3>1. Handling' = Handling
      BY <1>1, <2>2, <2>3 DEF Handling
    <3> QED BY <1>1, <2>2, <2>3, <2>6, <3>1 DEF RunGuardInv, OneHandler
  <2>10. Guarded'
    <3>1. session'.finalized <= session'.seq
      BY <1>3, <2>5, <2>6
    <3>2. ASSUME NEW u \in Turn
          PROVE  /\ turn'[u].pc = turn[u].pc /\ turn'[u].seq = turn[u].seq
                 /\ turn'[u].guarded = turn[u].guarded
                 /\ turn'[u].verdict = turn[u].verdict /\ turn'[u].named = turn[u].named /\ turn'[u].fedBack = turn[u].fedBack
                 /\ turn'[u].grace = turn[u].grace \/ u = t
                 /\ Live(u)' <=> Live(u)
      BY <2>2, <2>3 DEF Live
    <3> QED BY <1>1, <2>6, <2>8, <3>1, <3>2 DEF RunGuardInv, Guarded
  <2>11. Fenced'
    <3> SUFFICES ASSUME NEW u \in Turn
                 PROVE  /\ Dead(u)' /\ session'.guard = u => session'.finalized = turn'[u].seq
                        /\ Dead(u)' /\ turn'[u].pc \in Tearing => turn'[u].torn
                        /\ turn'[u].pc \in Tearing /\ session'.guard # u => turn'[u].torn
                        /\ turn'[u].torn => Dead(u)'
      BY DEF Fenced
    <3>1. CASE u = t
      BY <1>3, <2>2, <2>3, <2>6, <3>1 DEF Dead
    <3>2. CASE u # t
      <4>1. turn'[u] = turn[u] /\ (Dead(u)' <=> Dead(u)) /\ session.guard # u
        BY <1>3, <2>3, <3>2 DEF Dead
      <4> QED BY <2>6, <4>1 DEF RunGuardInv, Fenced
    <3> QED BY <3>1, <3>2
  <2>12. Names'
    <3>1. \A u \in Turn : u # t /\ Known(u) => Known(u)'
      BY <2>3 DEF Known, Dead
    <3>2. \A u \in Turn : turn'[u].resumeAtStart = turn[u].resumeAtStart
                          /\ turn'[u].bindingAtStart = turn[u].bindingAtStart
      BY <2>2, <2>3
    <3>3. session'.resume # t /\ session'.binding # t
      <4>1. CASE turn[t].resumeAtStart = None
        BY <2>6, <4>1, RunGuardAssumption DEF RunGuardInv, Names
      <4>2. CASE turn[t].resumeAtStart # None
        BY <2>6, <4>2, RunGuardAssumption DEF RunGuardInv, Names, Known
      <4> QED BY <4>1, <4>2
    <3>4. \A u \in Turn : turn[u].resumeAtStart # t
      BY <2>4 DEF RunGuardInv, Names
    <3>5. \A u \in Turn : turn'[u].named = turn[u].named /\ turn'[u].pc = turn[u].pc
      BY <2>2, <2>3
    <3> QED BY <2>6, <3>1, <3>2, <3>3, <3>4, <3>5, RunGuardAssumption DEF RunGuardInv, Names
  <2>13. QuestionLast' /\ AnswerFollowsQuestion'
    <3>1. \A u \in Turn : turn[u].torn => turn'[u].torn
      BY <2>3, <2>4
    <3>2. /\ AnswerFollowsQuestion => AnswerFollowsQuestion'
          /\ \A u \in Turn : Asked(u) => Asked(u)'
      BY <2>6, <3>1, HistoryKept DEF RunGuardInv
    <3> QED BY <2>2, <2>3, <2>6, <3>2 DEF RunGuardInv, QuestionLast
  <2> QED BY <2>7, <2>9, <2>10, <2>11, <2>12, <2>13 DEF RunGuardInv
<1> QED BY <1>2, <1>3

-----------------------------------------------------------------------------
\* It holds of a session that no message has reached.
LEMMA RunGuardInitHolds == RunGuardInit => RunGuardInv
<1> SUFFICES ASSUME RunGuardInit PROVE RunGuardInv
  OBVIOUS
<1>1. \A t \in Turn : /\ turn[t] \in TurnState /\ t # None
                      /\ turn[t].pc = "new" /\ turn[t].grace = "off" /\ ~turn[t].torn
                      /\ turn[t].verdict = "none" /\ ~turn[t].named
                      /\ turn[t].resumeAtStart = None /\ turn[t].bindingAtStart = None
  BY RunGuardAssumption DEF RunGuardInit, TurnState, Fresh
<1>2. /\ session.owner = None /\ session.guard = None /\ session.resume = None
      /\ session.binding = None /\ session.seq = 0 /\ session.finalized = 0
      /\ session.history = <<>> /\ session \in Session
  <2>1. <<>> \in Seq(Message)
    OBVIOUS
  <2> QED BY <2>1 DEF RunGuardInit, Session
<1>3. \A k \in Clear : clear[k] = "new"
  BY DEF RunGuardInit
<1>4. Typed
  BY <1>1, <1>2 DEF RunGuardInit, Typed
<1>5. OneHandler
  <2>1. Handling = {}
    BY <1>1, <1>3 DEF Handling
  <2> QED BY <1>1, <1>3, <2>1 DEF OneHandler
<1>6. Guarded /\ Fenced
  BY <1>1, <1>2 DEF Guarded, Fenced, Dead, Tearing, Fresh, Running
<1>7. Names
  BY <1>1, <1>2 DEF Names
<1>8. QuestionLast /\ AnswerFollowsQuestion
  <2>1. DOMAIN session.history = {}
    BY <1>2
  <2> QED BY <1>1, <1>2, <2>1 DEF QuestionLast, AnswerFollowsQuestion
<1> QED BY <1>4, <1>5, <1>6, <1>7, <1>8 DEF RunGuardInv

\* Every step keeps it while one socket sends the messages.
LEMMA RunGuardStepKeeps ==
    ASSUME ~Overlap, RunGuardInv, [RunGuardNext]_vars
    PROVE  RunGuardInv'
<1>1. CASE UNCHANGED vars
  BY <1>1 DEF vars, RunGuardInv, Typed, OneHandler, Handling, Guarded, Live, Fenced, Dead, Names, Known,
              QuestionLast, Asked, OnlyTornAfter, AnswerFollowsQuestion
<1>2. ASSUME NEW t \in Turn, RunStart(t) \/ CheckBusy(t) PROVE RunGuardInv'
  BY <1>2, RunStartKeeps, CheckBusyKeeps
<1>3. ASSUME NEW t \in Turn, HandlerStep(t) PROVE RunGuardInv'
  BY <1>3, BeginKeeps, AttachKeeps DEF HandlerStep
<1>4. ASSUME NEW t \in Turn, RunStep(t) PROVE RunGuardInv'
  BY <1>4, BindKeeps, RunIsQuiet, QuietKeeps DEF RunStep
<1>5. ASSUME NEW t \in Turn, EndStep(t) PROVE RunGuardInv'
  BY <1>5, AppendAnswerKeeps, PinKeeps, ClearReturnedKeeps, RunIsQuiet, QuietKeeps DEF EndStep
<1>6. ASSUME NEW t \in Turn, TimerStep(t) PROVE RunGuardInv'
  BY <1>6, FinalizeKeeps, ReleaseKeeps, GuardIsQuiet, QuietKeeps DEF TimerStep
<1>7. ASSUME NEW k \in Clear, CheckClear(k) \/ ClearSession(k) PROVE RunGuardInv'
  BY <1>7, CheckClearKeeps, ClearSessionKeeps
<1>8. CASE CreateAgain \/ Stop \/ Condemn
  BY <1>8, CreateAgainKeeps, GuardIsQuiet, QuietKeeps
<1> QED BY <1>1, <1>2, <1>3, <1>4, <1>5, <1>6, <1>7, <1>8 DEF RunGuardNext

\* It holds always.
LEMMA RunGuardInvAlways ==
    ASSUME ~Overlap
    PROVE  RunGuardSpec => []RunGuardInv
<1>1. RunGuardInv /\ [RunGuardNext]_vars => RunGuardInv'
  BY RunGuardStepKeeps
<1> QED BY <1>1, RunGuardInitHolds, PTL DEF RunGuardSpec

(***************************************************************************)
(* Theorems.                                                               *)
(***************************************************************************)
\* The session is busy with a turn that has begun and has not gone, declared
\* dead or not, its guard is that turn's, and its history belongs to turns.
THEOREM RunGuardTypeCorrect ==
    ASSUME ~Overlap
    PROVE  RunGuardSpec => []RunGuardTypeOK
<1>1. RunGuardInv => RunGuardTypeOK
  <2> SUFFICES ASSUME RunGuardInv PROVE RunGuardTypeOK
    OBVIOUS
  <2>1. \A i \in DOMAIN session.history : session.history[i].turn \in Turn
    BY HistoryTyped DEF RunGuardInv
  <2>2. session.guard \in {None, session.owner} /\ session.finalized <= session.seq
    BY DEF RunGuardInv, Guarded
  <2>3. session.owner \in Turn => Live(session.owner)
    BY DEF RunGuardInv, Guarded
  <2> QED BY <2>1, <2>2, <2>3 DEF RunGuardTypeOK
<1> QED BY <1>1, RunGuardInvAlways, PTL

\* An answer in the history stands right after its own question, whatever
\* answers late and however often the numbers of turns start again.
THEOREM AnswerFollowsQuestionAlways ==
    ASSUME ~Overlap
    PROVE  RunGuardSpec => []AnswerFollowsQuestion
<1>1. RunGuardInv => AnswerFollowsQuestion
  BY DEF RunGuardInv
<1> QED BY <1>1, RunGuardInvAlways, PTL

\* Of itself the agent resumes no native session of a turn that was declared
\* dead, and the session stays without it: such an id comes back from a write
\* torn from its test, or when a caller supplies it after that.
THEOREM DeadIsForgottenAlways ==
    ASSUME ~Overlap
    PROVE  RunGuardSpec => []DeadIsForgotten
<1>1. RunGuardInv => DeadIsForgotten
  BY DEF RunGuardInv, Names, Known, Dead, DeadIsForgotten
<1> QED BY <1>1, RunGuardInvAlways, PTL

\* A turn has the session until its own run returns or it is declared dead.
THEOREM ReleasedByItsOwnAlways ==
    ASSUME ~Overlap
    PROVE  RunGuardSpec => ReleasedByItsOwn
<1> DEFINE Own(t) ==
               \/ turn[t].pc = "leaving" /\ turn'[t].pc = "gone"
               \/ turn[t].grace = "finalized" /\ turn'[t].grace = "over"
           Step == \A t \in Turn : session.owner = t /\ session'.owner # t => Own(t)
<1>1. ASSUME RunGuardInv, [RunGuardNext]_vars PROVE [Step]_vars
  <2> SUFFICES ASSUME RunGuardNext, NEW t \in Turn, session.owner = t, session'.owner # t
               PROVE  Own(t)
    BY <1>1
  <2>1. session \in Session /\ turn \in [Turn -> TurnState] /\ t # None
    BY <1>1, RunGuardAssumption DEF RunGuardInv, Typed
  <2>2. ASSUME NEW u \in Turn, RunStart(u) \/ CheckBusy(u) PROVE Own(t)
    BY <2>1, <2>2 DEF RunStart, CheckBusy, Session
  <2>3. ASSUME NEW u \in Turn, HandlerStep(u) PROVE Own(t)
    <3>1. ~Begin(u)
      BY <1>1, <2>1 DEF Begin, RunGuardInv, OneHandler
    <3>2. CASE Attach(u)
      BY <2>1, <3>2 DEF Attach, Session
    <3> QED BY <2>3, <3>1, <3>2 DEF HandlerStep
  <2>4. ASSUME NEW u \in Turn, RunStep(u) PROVE Own(t)
    <3>1. CASE Bind(u)
      BY <2>1, <3>1 DEF Bind, Session
    <3>2. CASE ~Bind(u)
      BY <1>1, <2>4, <3>2, RunIsQuiet DEF RunStep, Quiet
    <3> QED BY <3>1, <3>2
  <2>5. ASSUME NEW u \in Turn, EndStep(u) PROVE Own(t)
    <3>1. CASE AppendAnswer(u)
      BY <2>1, <3>1 DEF AppendAnswer, Session
    <3>2. CASE Pin(u)
      BY <2>1, <3>2 DEF Pin, Session
    <3>3. CASE ClearReturned(u)
      <4>1. Owns(u) /\ turn[u].pc = "leaving" /\ turn[u].guarded
        BY <1>1, <3>3 DEF ClearReturned, RunGuardInv, Guarded, Running
      <4>2. u = t /\ session.guard = t
        BY <1>1, <4>1, OwnsItself
      <4>3. turn'[t].pc = "gone"
        BY <2>1, <3>3, <4>1, <4>2 DEF ClearReturned, Marked, TurnState
      <4> QED BY <4>1, <4>2, <4>3
    <3>4. CASE Answer(u) \/ MarkReturned(u)
      BY <1>1, <3>4, RunIsQuiet DEF Quiet
    <3> QED BY <2>5, <3>1, <3>2, <3>3, <3>4 DEF EndStep
  <2>6. ASSUME NEW u \in Turn, TimerStep(u) PROVE Own(t)
    <3>1. CASE Finalize(u)
      BY <2>1, <3>1 DEF Finalize, Revoked, Session
    <3>2. CASE Release(u)
      <4>1. Owns(u) /\ turn[u].grace = "finalized" /\ turn[u].guarded
        BY <1>1, <3>2 DEF Release, RunGuardInv, Guarded
      <4>2. u = t /\ session.guard = t
        BY <1>1, <4>1, OwnsItself
      <4>3. turn'[t].grace = "over"
        BY <2>1, <3>2, <4>1, <4>2 DEF Release, Marked, TurnState
      <4> QED BY <4>1, <4>2, <4>3
    <3>3. CASE Kill(u) \/ GraceExpires(u) \/ SendStalled(u)
      BY <1>1, <3>3, GuardIsQuiet DEF Quiet
    <3> QED BY <2>6, <3>1, <3>2, <3>3 DEF TimerStep
  <2>7. ASSUME NEW k \in Clear, CheckClear(k) \/ ClearSession(k) PROVE Own(t)
    BY <2>1, <2>7 DEF CheckClear, ClearSession, Session
  <2>8. CASE CreateAgain \/ Stop \/ Condemn
    <3>1. CASE CreateAgain
      BY <2>1, <3>1 DEF CreateAgain, Session
    <3>2. CASE Stop \/ Condemn
      BY <3>2 DEF Stop, Condemn
    <3> QED BY <2>8, <3>1, <3>2
  <2> QED BY <2>2, <2>3, <2>4, <2>5, <2>6, <2>7, <2>8 DEF RunGuardNext
<1> HIDE DEF Step
<1>2. RunGuardSpec => [][Step]_vars
  BY <1>1, RunGuardInvAlways, PTL DEF RunGuardSpec
<1> QED BY <1>2 DEF Step, ReleasedByItsOwn
=============================================================================
