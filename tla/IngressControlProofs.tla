-------------------------- MODULE IngressControlProofs --------------------------
(***************************************************************************)
(* Proofs about IngressControl for any number of starts and transitions.   *)
(*                                                                         *)
(* What an ended session leaves behind is decided by one thread, the one   *)
(* that handles the newest transition: Stopping follows it from place to   *)
(* place, and while the session stays ended no other thread can undo what  *)
(* it has done.  Deriving does the same for the startup state and the      *)
(* pause, which other threads can undo, if transitions overlap.            *)
(***************************************************************************)
EXTENDS IngressControl, SessionAuthorityProofs

ThreadType == [at : ThreadPlaces, kind : Kinds, was : BOOLEAN, taken : Starts \cup {NoStart}]

Newest == snapshot.generation
NewestPending == \E t \in transitions : t.event.generation = Newest

\* Generations number the transitions, and a thread serves its own.
Numbered ==
  /\ Newest >= 1 /\ snapshot.generation = snapshot.revision
  /\ Newest \in Threads
  /\ snapshot.state # "restoring" => Newest > 1
  /\ \A t \in transitions :
       /\ t.event.generation \in 2..Newest /\ t.event.state # "restoring"
       /\ t.event.generation = Newest => t.event = snapshot
       /\ \A u \in transitions : u.event.generation = t.event.generation => u = t
  /\ \A g \in Threads : g > Newest => thread[g] = IdleThread

\* Only the current start can have its listener bound, and isHttpRunning says so
\* until it is cleared too early.
OneListener ==
  /\ open \subseteq {current}
  /\ serverFlag => current \in Starts
  /\ ~ desynced => (open # {} => serverFlag)
  /\ exited => desynced

Closed == open = {} \/ desynced

\* The thread of an ended session's transition, place by place.
Stopping ==
  Ended =>
    LET h == thread[Newest] IN
      /\ h.at \in {"idle", "clear_paused", "unconfigure", "stop_flag", "probe", "cancel",
                   "close", "closed", "set_stopped", "done", "clear_startup"}
      /\ h.at \notin {"idle", "clear_startup"} => h.kind \in {"expire", "logout"}
      /\ h.at \in {"probe", "cancel", "close", "closed", "set_stopped"} /\ h.kind = "logout"
           => ~ isRunning
      /\ h.at = "probe" /\ ~ h.was => ~ isRunning
      /\ h.at = "close" => open \subseteq {h.taken} \/ desynced
      /\ h.at \in {"closed", "set_stopped", "done", "clear_startup"} => Closed
      /\ h.at \in {"done", "clear_startup"} => ~ isRunning
      /\ h.at = "idle" /\ ~ NewestPending => Closed /\ ~ isRunning

\* While nothing overlaps, the newest transition is handled last and alone, and
\* a login that is still to mark the startup state holds the active session.
InOrder ==
  /\ thread[0].at \in {"login", "ready"} => thread[0].kind = "login" /\ snapshot.state = "active"
  /\ ~ NewestPending \/ Handling(Newest) =>
       /\ \A t \in transitions : t.event.generation = Newest
       /\ \A g \in Threads \ {0, Newest} : ~ Handling(g)

Deriving ==
  LET h == thread[Newest] IN
    /\ snapshot.state = "active" =>
         /\ h.at \in {"idle", "ready", "take_paused", "check", "commit", "done"}
         /\ h.at = "ready" => h.kind = "resume"
         /\ h.at \in {"take_paused", "check", "commit", "done"} => startup = "ready"
         /\ h.at \in {"check", "commit", "done"} => ~ paused
         /\ h.at = "idle" /\ ~ NewestPending => startup = "ready" /\ ~ paused
    /\ Ended =>
         /\ h.at \in {"unconfigure", "stop_flag", "probe", "cancel", "close", "closed",
                      "set_stopped", "done", "clear_startup"} => ~ paused
         /\ h.at \in {"stop_flag", "probe", "cancel", "close", "closed", "set_stopped", "done",
                      "clear_startup"} => startup = "unconfigured"
         /\ h.at = "idle" /\ ~ NewestPending => startup = "unconfigured" /\ ~ paused

\* A thread at work for a request is neither a transition's nor paused.
Requests ==
  /\ thread[0].at \in {"idle", "check", "commit", "stop_flag", "cancel", "close", "closed",
                       "set_stopped", "login", "ready", "done"}
  /\ thread[0].at # "idle" => thread[0].kind \in {"start", "stop", "login"}
  /\ thread[0].at = "stop_flag" => thread[0].kind = "stop"

IngressInv ==
  /\ IngressTypeOK /\ Numbered /\ OneListener /\ Stopping /\ Requests
  /\ ~ overlapped => InOrder /\ Deriving

-------------------------------------------------------------------------------
(* Threads. *)

\* The type of a thread's parts; thread 0 serves requests.
LEMMA ThreadsTyped ==
  ASSUME IngressTypeOK
  PROVE  /\ thread \in [Threads -> ThreadType] /\ 0 \in Threads
         /\ \A g \in Threads :
              /\ thread[g].at \in ThreadPlaces /\ thread[g].kind \in Kinds
              /\ thread[g].was \in BOOLEAN /\ thread[g].taken \in Starts \cup {NoStart}
<1>1. thread \in [Threads -> ThreadType] /\ 0 \in Threads
  BY ConstantsAssumption DEF IngressTypeOK, ThreadType, Threads
<1> QED
  BY <1>1 DEF ThreadType

\* What the steps of a thread do to it, and to no other.
Turns(g, place, was, taken) ==
  /\ thread' \in [Threads -> ThreadType]
  /\ thread'[g].at = place /\ thread'[g].kind = thread[g].kind
  /\ thread'[g].was = was /\ thread'[g].taken = taken
  /\ \A h \in Threads \ {g} : thread'[h] = thread[h]

\* Goto moves one thread.
LEMMA GotoTurns ==
  ASSUME IngressTypeOK, NEW g \in Threads, NEW place \in ThreadPlaces, Goto(g, place)
  PROVE  Turns(g, place, thread[g].was, thread[g].taken)
<1>1. thread \in [Threads -> ThreadType] /\ thread[g] \in ThreadType
  BY ThreadsTyped
<1>2. thread' = [thread EXCEPT ![g] = [thread[g] EXCEPT !.at = place]]
  BY DEF Goto
<1> DEFINE r == [thread[g] EXCEPT !.at = place]
<1>3. /\ r \in ThreadType /\ r.at = place /\ r.kind = thread[g].kind
      /\ r.was = thread[g].was /\ r.taken = thread[g].taken
  BY <1>1 DEF ThreadType
<1> HIDE DEF r
<1>4. thread' = [thread EXCEPT ![g] = r]
  BY <1>2 DEF r
<1> QED
  BY <1>1, <1>3, <1>4 DEF Turns

\* Two updates of one thread are one.
LEMMA TwoUpdates ==
  ASSUME IngressTypeOK, NEW g \in Threads, NEW place \in ThreadPlaces
  PROVE  /\ \A taken \in Starts \cup {NoStart} :
              thread' = [thread EXCEPT ![g].at = place, ![g].taken = taken]
                => Turns(g, place, thread[g].was, taken)
         /\ \A was \in BOOLEAN :
              thread' = [thread EXCEPT ![g].at = place, ![g].was = was]
                => Turns(g, place, was, thread[g].taken)
<1> DEFINE q == [thread[g] EXCEPT !.at = place]
<1>1. thread \in [Threads -> ThreadType] /\ thread[g] \in ThreadType
  BY ThreadsTyped
<1>2. /\ q \in ThreadType /\ q.at = place /\ q.kind = thread[g].kind
      /\ q.was = thread[g].was /\ q.taken = thread[g].taken
  BY <1>1 DEF ThreadType
<1>3. ASSUME NEW taken \in Starts \cup {NoStart},
             thread' = [thread EXCEPT ![g].at = place, ![g].taken = taken]
      PROVE  Turns(g, place, thread[g].was, taken)
  <2> DEFINE r == [q EXCEPT !.taken = taken]
  <2>1. thread' = [thread EXCEPT ![g] = r]
    BY <1>1, <1>3
  <2> HIDE DEF q
  <2>2. /\ r \in ThreadType /\ r.at = q.at /\ r.kind = q.kind /\ r.was = q.was
        /\ r.taken = taken
    BY <1>2 DEF ThreadType
  <2> HIDE DEF r
  <2> QED
    BY <1>1, <1>2, <2>1, <2>2 DEF Turns
<1>4. ASSUME NEW was \in BOOLEAN,
             thread' = [thread EXCEPT ![g].at = place, ![g].was = was]
      PROVE  Turns(g, place, was, thread[g].taken)
  <2> DEFINE r == [q EXCEPT !.was = was]
  <2>1. thread' = [thread EXCEPT ![g] = r]
    BY <1>1, <1>4
  <2> HIDE DEF q
  <2>2. /\ r \in ThreadType /\ r.at = q.at /\ r.kind = q.kind /\ r.taken = q.taken
        /\ r.was = was
    BY <1>2 DEF ThreadType
  <2> HIDE DEF r
  <2> QED
    BY <1>1, <1>2, <2>1, <2>2 DEF Turns
<1> QED
  BY <1>3, <1>4

\* Where the steps of a stop take its thread.
LEMMA StopTurns ==
  ASSUME IngressTypeOK, NEW g \in Threads
  PROVE  /\ CancelContext(g) /\ serverFlag /\ current \in Starts
              => Turns(g, "close", thread[g].was, current)
         /\ StopReturns(g) => Turns(g, "set_stopped", thread[g].was, NoStart)
         /\ Probe(g) => Turns(g, IF NothingToStop(g) THEN "done" ELSE "cancel",
                              FALSE, thread[g].taken)
         /\ ReadRunning(g) => Turns(g, IF thread[g].kind # "stop" THEN "probe"
                                       ELSE IF isRunning THEN "cancel" ELSE "done",
                                    isRunning, thread[g].taken)
<1>1. {"close", "set_stopped", "done", "cancel", "probe"} \subseteq ThreadPlaces
  BY DEF ThreadPlaces
<1>2. ASSUME CancelContext(g), serverFlag, current \in Starts
      PROVE  Turns(g, "close", thread[g].was, current)
  BY <1>1, <1>2, TwoUpdates DEF CancelContext
<1>3. ASSUME StopReturns(g) PROVE Turns(g, "set_stopped", thread[g].was, NoStart)
  BY <1>1, <1>3, TwoUpdates DEF StopReturns
<1>4. ASSUME Probe(g)
      PROVE  Turns(g, IF NothingToStop(g) THEN "done" ELSE "cancel", FALSE, thread[g].taken)
  BY <1>1, <1>4, TwoUpdates DEF Probe
<1>5. ASSUME ReadRunning(g)
      PROVE  Turns(g, IF thread[g].kind # "stop" THEN "probe"
                      ELSE IF isRunning THEN "cancel" ELSE "done", isRunning, thread[g].taken)
  <2> DEFINE place == IF thread[g].kind # "stop" THEN "probe"
                      ELSE IF isRunning THEN "cancel" ELSE "done"
  <2>1. thread' = [thread EXCEPT ![g].at = place, ![g].was = isRunning]
    BY <1>5 DEF ReadRunning
  <2>2. place \in ThreadPlaces /\ isRunning \in BOOLEAN
    BY <1>1 DEF IngressTypeOK
  <2> HIDE DEF place
  <2>3. \A was \in BOOLEAN :
           thread' = [thread EXCEPT ![g].at = place, ![g].was = was]
             => Turns(g, place, was, thread[g].taken)
    BY <2>2, TwoUpdates
  <2>4. Turns(g, place, isRunning, thread[g].taken)
    BY <2>1, <2>2, <2>3, Zenon
  <2> QED
    BY <2>4 DEF place
<1> QED
  BY <1>2, <1>3, <1>4, <1>5

\* Empty and one-element sets have at most one element.
LEMMA SmallSets == \A x : Cardinality({}) <= 1 /\ Cardinality({x}) <= 1
<1>1. Cardinality({}) = 0
  BY FS_EmptySet
<1>2. \A x : Cardinality({x}) = 1
  BY FS_Singleton
<1> QED
  BY <1>1, <1>2

\* What it takes to keep Stopping without a step of the newest thread.
LEMMA StoppingStays ==
  ASSUME Stopping, Newest' = Newest, Ended' = Ended,
         Ended => /\ NewestPending' = NewestPending /\ thread'[Newest] = thread[Newest]
                  /\ open' \subseteq open
                  /\ ~ isRunning => ~ isRunning'
                  /\ desynced => desynced'
  PROVE  Stopping'
<1>1. CASE Ended
  <2>1. /\ Closed => Closed'
        /\ \A S : open \subseteq S \/ desynced => open' \subseteq S \/ desynced'
    BY <1>1 DEF Closed
  <2> QED
    BY <1>1, <2>1 DEF Stopping
<1>2. CASE ~ Ended
  BY <1>2 DEF Stopping
<1> QED
  BY <1>1, <1>2

\* A transition under way: its thread, its state, and whether it is the newest.
LEMMA TransitionsNumbered ==
  ASSUME IngressTypeOK, Numbered, NEW t \in transitions
  PROVE  /\ t.event.generation \in 2..Newest /\ t.event.generation \in Threads \ {0}
         /\ t.event.state \in States \ {"restoring"}
         /\ t.event.generation = Newest => t.event = snapshot
<1>1. t.event \in SnapshotType
  BY DEF IngressTypeOK, TypeOK, TransitionType
<1>2. t.event.state \in States /\ t.event.generation \in Nat
  BY <1>1 DEF SnapshotType
<1>3. /\ t.event.generation \in 2..Newest /\ t.event.state # "restoring"
      /\ t.event.generation = Newest => t.event = snapshot
      /\ Newest \in Threads
  BY DEF Numbered
<1> QED
  BY <1>2, <1>3, ConstantsAssumption DEF Threads

\* A step of a thread that goes on: what the newest transition's thread, the
\* requests' thread, and any other thread have to keep.
LEMMA ThreadGoesOn ==
  ASSUME IngressInv, NEW g \in Threads, thread[g].at # "idle",
         NEW place \in ThreadPlaces \ {"idle"}, NEW was, NEW taken, Turns(g, place, was, taken),
         UNCHANGED <<vars, overlapped>>, server' \in [Starts -> ServerPlaces],
         startup' \in {"unconfigured", "ready"}, isRunning' \in BOOLEAN, paused' \in BOOLEAN,
         serverFlag' \in BOOLEAN, current' \in Starts \cup {NoStart}, cancelled' \subseteq Starts,
         open' \subseteq open, desynced' \in BOOLEAN, UNCHANGED exited,
         OneListener', Ended => (isRunning' => isRunning), desynced => desynced',
         g = 0 => place \in {"commit", "cancel", "close", "closed", "set_stopped", "done"},
         g = 0 => paused' = paused /\ startup' \in {startup, "ready"},
         g = 0 /\ startup' # startup => thread[0].at = "ready",
         g = Newest => Stopping',
         g = Newest /\ ~ overlapped => Deriving'
  PROVE  IngressInv'
<1> USE DEF IngressInv
<1>1. /\ snapshot' = snapshot /\ transitions' = transitions /\ Newest' = Newest
      /\ NewestPending' = NewestPending /\ Ended' = Ended /\ TypeOK' /\ Newest \in Nat
      /\ 0 \in Threads
  BY ConstantsAssumption
     DEF vars, Newest, NewestPending, Ended, IngressTypeOK, TypeOK, SnapshotType, Threads
<1>2. /\ thread' \in [Threads -> ThreadType]
      /\ thread'[g].at = place /\ thread'[g].kind = thread[g].kind
      /\ \A h \in Threads \ {g} : thread'[h] = thread[h]
  BY DEF Turns
<1>3. IngressTypeOK'
  <2>1. Cardinality(open') <= 1 /\ open' \subseteq Starts
    <3>1. /\ open' \subseteq {current} /\ open' \subseteq Starts
      BY DEF IngressTypeOK, OneListener
    <3>2. open' = {} \/ open' = {current}
      BY <3>1
    <3> QED
      BY <3>1, <3>2, SmallSets
  <2>2. exited' \in BOOLEAN /\ overlapped' \in BOOLEAN
    BY DEF IngressTypeOK
  <2> QED
    BY <1>1, <1>2, <2>1, <2>2 DEF IngressTypeOK, ThreadType
<1> USE DEF Numbered
<1>3a. Ended \/ snapshot.state = "active" => Newest > 1 /\ Newest \in Threads
  BY DEF Ended
<1>4. g <= Newest
  BY <1>1 DEF Numbered, IdleThread, Threads
<1>5. Numbered'
  BY <1>1, <1>2, <1>4 DEF Numbered, Threads
<1>6. Requests'
  BY <1>1, <1>2 DEF Requests
<1>7. Stopping'
  <2>1. CASE g = Newest
    BY <2>1
  <2>2. CASE g # Newest
    BY <1>1, <1>2, <1>3a, <2>2, StoppingStays
  <2> QED
    BY <2>1, <2>2
<1>8. ASSUME ~ overlapped PROVE InOrder' /\ Deriving'
  <2>1. InOrder /\ Deriving
    BY <1>8
  <2>2. \A h \in Threads : Handling(h)' = Handling(h)
    BY <1>2 DEF Handling
  <2>3. InOrder'
    <3>1. thread'[0].at \in {"login", "ready"} =>
            thread'[0].kind = "login" /\ snapshot.state = "active"
      BY <1>1, <1>2, <2>1 DEF InOrder
    <3>2. Handling(Newest)' = Handling(Newest)
      BY <1>1, <2>2
    <3> QED
      BY <1>1, <2>1, <2>2, <3>1, <3>2 DEF InOrder
  <2>4. CASE g # Newest /\ (Ended \/ snapshot.state = "active")
    <3>1. thread'[Newest] = thread[Newest]
      BY <1>2, <1>3a, <2>4
    <3>2. CASE g = 0
      BY <1>1, <2>1, <2>3, <2>4, <3>1, <3>2 DEF InOrder, Deriving, Ended
    <3>3. CASE g # 0
      <4>1. NewestPending /\ thread[Newest].at = "idle"
        BY <2>1, <2>4, <3>3 DEF InOrder, Handling
      <4> QED
        BY <1>1, <2>3, <3>1, <4>1 DEF Deriving
    <3> QED
      BY <3>2, <3>3
  <2>5. CASE ~ Ended /\ snapshot.state # "active"
    BY <1>1, <2>3, <2>5 DEF Deriving, Ended
  <2> QED
    BY <1>8, <2>3, <2>4, <2>5
<1> QED
  BY <1>1, <1>3, <1>5, <1>6, <1>7, <1>8

\* The same for a step that has nothing to do with the server.
LEMMA ThreadGoesOnAside ==
  ASSUME IngressInv, NEW g \in Threads, thread[g].at # "idle",
         NEW place \in ThreadPlaces \ {"idle"}, NEW was, NEW taken, Turns(g, place, was, taken),
         UNCHANGED <<vars, serverFlag, current, cancelled, open, exited, desynced, overlapped>>,
         server' \in [Starts -> ServerPlaces],
         startup' \in {"unconfigured", "ready"}, isRunning' \in BOOLEAN, paused' \in BOOLEAN,
         Ended => (isRunning' => isRunning),
         g = 0 => place \in {"commit", "cancel", "close", "closed", "set_stopped", "done"},
         g = 0 => paused' = paused /\ startup' \in {startup, "ready"},
         g = 0 /\ startup' # startup => thread[0].at = "ready",
         g = Newest => Stopping',
         g = Newest /\ ~ overlapped => Deriving'
  PROVE  IngressInv'
<1>1. /\ serverFlag' \in BOOLEAN /\ current' \in Starts \cup {NoStart} /\ cancelled' \subseteq Starts
      /\ open' \subseteq open /\ desynced' \in BOOLEAN /\ UNCHANGED exited
      /\ desynced => desynced'
  BY DEF IngressInv, IngressTypeOK
<1>2. OneListener'
  BY DEF IngressInv, OneListener
<1>3. UNCHANGED <<vars, overlapped>>
  OBVIOUS
<1> QED
  BY <1>1, <1>2, <1>3, ThreadGoesOn

\* What a step that publishes nothing leaves as it is.
LEMMA NothingPublished ==
  ASSUME UNCHANGED vars
  PROVE  /\ snapshot' = snapshot /\ transitions' = transitions
         /\ Newest' = Newest /\ NewestPending' = NewestPending /\ Ended' = Ended
  BY DEF vars, Newest, NewestPending, Ended

\* A stop reads whether HTTP is running.
LEMMA ReadRunningKeeps ==
  ASSUME IngressInv, NEW g \in Threads, ReadRunning(g)
  PROVE  IngressInv'
<1> DEFINE place == IF thread[g].kind # "stop" THEN "probe"
                    ELSE IF isRunning THEN "cancel" ELSE "done"
<1>1. IngressTypeOK /\ Stopping /\ Requests /\ (~ overlapped => Deriving)
  BY DEF IngressInv
<1>2. Turns(g, place, isRunning, thread[g].taken)
  BY <1>1, StopTurns
<1>3. /\ thread[g].at = "stop_flag"
      /\ isRunning' = (isRunning /\ thread[g].kind \notin {"logout", "stop"})
      /\ UNCHANGED <<vars, startup, paused, overlapped>>
      /\ UNCHANGED <<serverFlag, current, cancelled, open, server, exited, desynced>>
  BY DEF ReadRunning, serverVars
<1>4. /\ startup' \in {"unconfigured", "ready"} /\ paused' \in BOOLEAN
      /\ server' \in [Starts -> ServerPlaces]
  BY <1>1, <1>3 DEF IngressTypeOK
<1>5. isRunning' \in BOOLEAN /\ (isRunning' => isRunning)
  BY <1>3
<1>6. /\ place \in ThreadPlaces \ {"idle"}
      /\ g = 0 => place \in {"cancel", "done"}
  BY <1>1, <1>3 DEF ThreadPlaces, Requests
<1>7. ASSUME g = Newest PROVE Stopping'
  BY <1>1, <1>2, <1>3, <1>7, NothingPublished DEF Stopping, Turns
<1>8. ASSUME g = Newest, ~ overlapped PROVE Deriving'
  BY <1>1, <1>2, <1>3, <1>8, NothingPublished DEF Deriving, Turns, Stopping
<1> HIDE DEF place
<1> QED
  BY <1>2, <1>3, <1>4, <1>5, <1>6, <1>7, <1>8, ThreadGoesOnAside

\* A stop that has come back clears isRunning, or goes on to remember the pause.
LEMMA SetStoppedKeeps ==
  ASSUME IngressInv, NEW g \in Threads, SetStopped(g)
  PROVE  IngressInv'
<1> DEFINE place == IF thread[g].kind = "pause" THEN "set_paused" ELSE "done"
<1>1. IngressTypeOK /\ Stopping /\ Requests /\ (~ overlapped => Deriving)
  BY DEF IngressInv
<1>2. /\ thread[g].at = "set_stopped"
      /\ Goto(g, place)
      /\ UNCHANGED <<vars, overlapped, serverFlag, current, cancelled, open, exited, desynced>>
      /\ UNCHANGED <<startup, paused, server>>
  BY DEF SetStopped, serverVars
<1>3. /\ startup' \in {"unconfigured", "ready"} /\ isRunning' \in BOOLEAN /\ paused' \in BOOLEAN
      /\ server' \in [Starts -> ServerPlaces] /\ (Ended => (isRunning' => isRunning))
      /\ isRunning' = (isRunning /\ thread[g].kind \notin {"pause", "expire"})
  BY <1>1, <1>2 DEF SetStopped, IngressTypeOK
<1>4. /\ place \in ThreadPlaces \ {"idle"}
      /\ g = 0 => place \in {"commit", "cancel", "close", "closed", "set_stopped", "done"}
      /\ g = 0 => paused' = paused /\ startup' \in {startup, "ready"}
      /\ g = 0 /\ startup' # startup => thread[0].at = "ready"
  BY <1>1, <1>2, <1>3 DEF ThreadPlaces, Requests
<1>5. Turns(g, place, thread[g].was, thread[g].taken)
  BY <1>1, <1>2, <1>4, GotoTurns
<1>6. ASSUME g = Newest PROVE Stopping'
  BY <1>1, <1>2, <1>3, <1>5, <1>6, NothingPublished DEF Stopping, Turns, Closed
<1>7. ASSUME g = Newest, ~ overlapped PROVE Deriving'
  BY <1>1, <1>2, <1>3, <1>5, <1>7, NothingPublished DEF Deriving, Turns, Stopping
<1> HIDE DEF place
<1> QED
  BY <1>2, <1>3, <1>4, <1>5, <1>6, <1>7, ThreadGoesOnAside

\* A stop of an expired session remembers that it paused (after its return).
LEMMA SetPausedKeeps ==
  ASSUME IngressInv, NEW g \in Threads, SetPaused(g)
  PROVE  IngressInv'
<1> DEFINE place == "done"
<1>1. IngressTypeOK /\ Stopping /\ Requests /\ (~ overlapped => Deriving)
  BY DEF IngressInv
<1>2. /\ thread[g].at = "set_paused"
      /\ Goto(g, place)
      /\ UNCHANGED <<vars, overlapped, serverFlag, current, cancelled, open, exited, desynced>>
      /\ UNCHANGED <<startup, isRunning, server>>
  BY DEF SetPaused, serverVars
<1>3. /\ startup' \in {"unconfigured", "ready"} /\ isRunning' \in BOOLEAN /\ paused' \in BOOLEAN
      /\ server' \in [Starts -> ServerPlaces] /\ (Ended => (isRunning' => isRunning))
  BY <1>1, <1>2 DEF SetPaused, IngressTypeOK
<1>4. /\ place \in ThreadPlaces \ {"idle"}
      /\ g = 0 => place \in {"commit", "cancel", "close", "closed", "set_stopped", "done"}
      /\ g = 0 => paused' = paused /\ startup' \in {startup, "ready"}
      /\ g = 0 /\ startup' # startup => thread[0].at = "ready"
  BY <1>1, <1>2, <1>3 DEF ThreadPlaces, Requests
<1>5. Turns(g, place, thread[g].was, thread[g].taken)
  BY <1>1, <1>2, <1>4, GotoTurns
<1>6. ASSUME g = Newest PROVE Stopping'
  BY <1>1, <1>2, <1>3, <1>5, <1>6, NothingPublished DEF Stopping, Turns
<1>7. ASSUME g = Newest, ~ overlapped PROVE Deriving'
  BY <1>1, <1>2, <1>3, <1>5, <1>7, NothingPublished DEF Deriving, Turns, Stopping
<1> HIDE DEF place
<1> QED
  BY <1>2, <1>3, <1>4, <1>5, <1>6, <1>7, ThreadGoesOnAside

\* A start passes the gate or ends.
LEMMA CheckStartKeeps ==
  ASSUME IngressInv, NEW g \in Threads, CheckStart(g)
  PROVE  IngressInv'
<1> DEFINE place == IF MayStart THEN "commit" ELSE "done"
<1>1. IngressTypeOK /\ Stopping /\ Requests /\ (~ overlapped => Deriving)
  BY DEF IngressInv
<1>2. /\ thread[g].at = "check"
      /\ Goto(g, place)
      /\ UNCHANGED <<vars, overlapped, serverFlag, current, cancelled, open, exited, desynced>>
      /\ UNCHANGED <<startup, isRunning, paused, server>>
  BY DEF CheckStart, serverVars
<1>3. /\ startup' \in {"unconfigured", "ready"} /\ isRunning' \in BOOLEAN /\ paused' \in BOOLEAN
      /\ server' \in [Starts -> ServerPlaces] /\ (Ended => (isRunning' => isRunning))
  BY <1>1, <1>2 DEF IngressTypeOK
<1>4. /\ place \in ThreadPlaces \ {"idle"}
      /\ g = 0 => place \in {"commit", "cancel", "close", "closed", "set_stopped", "done"}
      /\ g = 0 => paused' = paused /\ startup' \in {startup, "ready"}
      /\ g = 0 /\ startup' # startup => thread[0].at = "ready"
  BY <1>1, <1>2, <1>3 DEF ThreadPlaces, Requests
<1>5. Turns(g, place, thread[g].was, thread[g].taken)
  BY <1>1, <1>2, <1>4, GotoTurns
<1>6. ASSUME g = Newest PROVE Stopping'
  BY <1>1, <1>2, <1>3, <1>5, <1>6, NothingPublished DEF Stopping, Turns
<1>7. ASSUME g = Newest, ~ overlapped PROVE Deriving'
  BY <1>1, <1>2, <1>3, <1>5, <1>7, NothingPublished DEF Deriving, Turns, Stopping
<1> HIDE DEF place
<1> QED
  BY <1>2, <1>3, <1>4, <1>5, <1>6, <1>7, ThreadGoesOnAside

\* A session that became active, or a login that returned, marks the startup state ready.
LEMMA SetReadyKeeps ==
  ASSUME IngressInv, NEW g \in Threads, SetReady(g)
  PROVE  IngressInv'
<1> DEFINE place == IF thread[g].kind = "resume" THEN "take_paused" ELSE "done"
<1>1. IngressTypeOK /\ Stopping /\ Requests /\ (~ overlapped => Deriving)
  BY DEF IngressInv
<1>2. /\ thread[g].at = "ready"
      /\ Goto(g, place)
      /\ UNCHANGED <<vars, overlapped, serverFlag, current, cancelled, open, exited, desynced>>
      /\ UNCHANGED <<isRunning, paused, server>>
  BY DEF SetReady, serverVars
<1>3. /\ startup' \in {"unconfigured", "ready"} /\ isRunning' \in BOOLEAN /\ paused' \in BOOLEAN
      /\ server' \in [Starts -> ServerPlaces] /\ (Ended => (isRunning' => isRunning))
      /\ startup' = "ready"
  BY <1>1, <1>2 DEF SetReady, IngressTypeOK
<1>4. /\ place \in ThreadPlaces \ {"idle"}
      /\ g = 0 => place \in {"commit", "cancel", "close", "closed", "set_stopped", "done"}
      /\ g = 0 => paused' = paused /\ startup' \in {startup, "ready"}
      /\ g = 0 /\ startup' # startup => thread[0].at = "ready"
  BY <1>1, <1>2, <1>3 DEF ThreadPlaces, Requests
<1>5. Turns(g, place, thread[g].was, thread[g].taken)
  BY <1>1, <1>2, <1>4, GotoTurns
<1>6. ASSUME g = Newest PROVE Stopping'
  BY <1>1, <1>2, <1>3, <1>5, <1>6, NothingPublished DEF Stopping, Turns
<1>7. ASSUME g = Newest, ~ overlapped PROVE Deriving'
  BY <1>1, <1>2, <1>3, <1>5, <1>7, NothingPublished DEF Deriving, Turns, Stopping
<1> HIDE DEF place
<1> QED
  BY <1>2, <1>3, <1>4, <1>5, <1>6, <1>7, ThreadGoesOnAside

\* A session that became active again takes the remembered pause.
LEMMA TakePausedKeeps ==
  ASSUME IngressInv, NEW g \in Threads, TakePaused(g)
  PROVE  IngressInv'
<1> DEFINE place == IF paused THEN "check" ELSE "done"
<1>1. IngressTypeOK /\ Stopping /\ Requests /\ (~ overlapped => Deriving)
  BY DEF IngressInv
<1>2. /\ thread[g].at = "take_paused"
      /\ Goto(g, place)
      /\ UNCHANGED <<vars, overlapped, serverFlag, current, cancelled, open, exited, desynced>>
      /\ UNCHANGED <<startup, isRunning, server>>
  BY DEF TakePaused, serverVars
<1>3. /\ startup' \in {"unconfigured", "ready"} /\ isRunning' \in BOOLEAN /\ paused' \in BOOLEAN
      /\ server' \in [Starts -> ServerPlaces] /\ (Ended => (isRunning' => isRunning))
      /\ paused' = FALSE
  <2>1. paused' = FALSE
    BY DEF TakePaused
  <2>2. isRunning \in BOOLEAN /\ startup \in {"unconfigured", "ready"}
        /\ server \in [Starts -> ServerPlaces]
    BY <1>1 DEF IngressTypeOK
  <2> QED
    BY <1>2, <2>1, <2>2
<1>4. /\ place \in ThreadPlaces \ {"idle"}
      /\ g = 0 => place \in {"commit", "cancel", "close", "closed", "set_stopped", "done"}
      /\ g = 0 => paused' = paused /\ startup' \in {startup, "ready"}
      /\ g = 0 /\ startup' # startup => thread[0].at = "ready"
  BY <1>1, <1>2, <1>3 DEF ThreadPlaces, Requests
<1>5. Turns(g, place, thread[g].was, thread[g].taken)
  BY <1>1, <1>2, <1>4, GotoTurns
<1>6. ASSUME g = Newest PROVE Stopping'
  BY <1>1, <1>2, <1>3, <1>5, <1>6, NothingPublished DEF Stopping, Turns
<1>7. ASSUME g = Newest, ~ overlapped PROVE Deriving'
  BY <1>1, <1>2, <1>3, <1>5, <1>7, NothingPublished DEF Deriving, Turns, Stopping
<1> HIDE DEF place
<1> QED
  BY <1>2, <1>3, <1>4, <1>5, <1>6, <1>7, ThreadGoesOnAside

\* The end of a session forgets the pause.
LEMMA ClearPausedKeeps ==
  ASSUME IngressInv, NEW g \in Threads, ClearPaused(g)
  PROVE  IngressInv'
<1> DEFINE place == "unconfigure"
<1>1. IngressTypeOK /\ Stopping /\ Requests /\ (~ overlapped => Deriving)
  BY DEF IngressInv
<1>2. /\ thread[g].at = "clear_paused"
      /\ Goto(g, place)
      /\ UNCHANGED <<vars, overlapped, serverFlag, current, cancelled, open, exited, desynced>>
      /\ UNCHANGED <<startup, isRunning, server>>
  BY DEF ClearPaused, serverVars
<1>3. /\ startup' \in {"unconfigured", "ready"} /\ isRunning' \in BOOLEAN /\ paused' \in BOOLEAN
      /\ server' \in [Starts -> ServerPlaces] /\ (Ended => (isRunning' => isRunning))
      /\ paused' = FALSE
  <2>1. paused' = FALSE
    BY DEF ClearPaused
  <2>2. isRunning \in BOOLEAN /\ startup \in {"unconfigured", "ready"}
        /\ server \in [Starts -> ServerPlaces]
    BY <1>1 DEF IngressTypeOK
  <2> QED
    BY <1>2, <2>1, <2>2
<1>4. /\ place \in ThreadPlaces \ {"idle"}
      /\ g = 0 => place \in {"commit", "cancel", "close", "closed", "set_stopped", "done"}
      /\ g = 0 => paused' = paused /\ startup' \in {startup, "ready"}
      /\ g = 0 /\ startup' # startup => thread[0].at = "ready"
  BY <1>1, <1>2, <1>3 DEF ThreadPlaces, Requests
<1>5. Turns(g, place, thread[g].was, thread[g].taken)
  BY <1>1, <1>2, <1>4, GotoTurns
<1>6. ASSUME g = Newest PROVE Stopping'
  BY <1>1, <1>2, <1>3, <1>5, <1>6, NothingPublished DEF Stopping, Turns
<1>7. ASSUME g = Newest, ~ overlapped PROVE Deriving'
  BY <1>1, <1>2, <1>3, <1>5, <1>7, NothingPublished DEF Deriving, Turns, Stopping
<1> HIDE DEF place
<1> QED
  BY <1>2, <1>3, <1>4, <1>5, <1>6, <1>7, ThreadGoesOnAside

\* The end of a session marks the startup state unconfigured.
LEMMA UnconfigureKeeps ==
  ASSUME IngressInv, NEW g \in Threads, Unconfigure(g)
  PROVE  IngressInv'
<1> DEFINE place == "stop_flag"
<1>1. IngressTypeOK /\ Stopping /\ Requests /\ (~ overlapped => Deriving)
  BY DEF IngressInv
<1>2. /\ thread[g].at = "unconfigure"
      /\ Goto(g, place)
      /\ UNCHANGED <<vars, overlapped, serverFlag, current, cancelled, open, exited, desynced>>
      /\ UNCHANGED <<isRunning, paused, server>>
  BY DEF Unconfigure, serverVars
<1>3. /\ startup' \in {"unconfigured", "ready"} /\ isRunning' \in BOOLEAN /\ paused' \in BOOLEAN
      /\ server' \in [Starts -> ServerPlaces] /\ (Ended => (isRunning' => isRunning))
      /\ startup' = "unconfigured"
  BY <1>1, <1>2 DEF Unconfigure, IngressTypeOK
<1>4. /\ place \in ThreadPlaces \ {"idle"}
      /\ g = 0 => place \in {"commit", "cancel", "close", "closed", "set_stopped", "done"}
      /\ g = 0 => paused' = paused /\ startup' \in {startup, "ready"}
      /\ g = 0 /\ startup' # startup => thread[0].at = "ready"
  BY <1>1, <1>2, <1>3 DEF ThreadPlaces, Requests
<1>5. Turns(g, place, thread[g].was, thread[g].taken)
  BY <1>1, <1>2, <1>4, GotoTurns
<1>6. ASSUME g = Newest PROVE Stopping'
  BY <1>1, <1>2, <1>3, <1>5, <1>6, NothingPublished DEF Stopping, Turns
<1>7. ASSUME g = Newest, ~ overlapped PROVE Deriving'
  BY <1>1, <1>2, <1>3, <1>5, <1>7, NothingPublished DEF Deriving, Turns, Stopping
<1> HIDE DEF place
<1> QED
  BY <1>2, <1>3, <1>4, <1>5, <1>6, <1>7, ThreadGoesOnAside

\* A start passes the gate again, sets isRunning and spawns a listener.
LEMMA CommitStartKeeps ==
  ASSUME IngressInv, NEW g \in Threads, CommitStart(g)
  PROVE  IngressInv'
<1>1. IngressTypeOK /\ Stopping /\ Requests /\ (~ overlapped => Deriving)
  BY DEF IngressInv
<1>2. /\ thread[g].at = "commit" /\ Goto(g, "done")
      /\ UNCHANGED <<vars, startup, paused, overlapped>>
      /\ UNCHANGED <<serverFlag, current, cancelled, open, exited, desynced>>
  BY DEF CommitStart
<1>3. /\ server' \in [Starts -> ServerPlaces] /\ isRunning' \in BOOLEAN
      /\ Ended => (isRunning' => isRunning)
  <2>1. CASE MayStart /\ ~ isRunning
    <3>1. /\ \E s \in Starts : server' = [server EXCEPT ![s] = "spawned"]
          /\ isRunning' = TRUE /\ snapshot.state = "active"
      BY <2>1 DEF CommitStart, MayStart
    <3> QED
      BY <1>1, <3>1 DEF IngressTypeOK, ServerPlaces, Ended
  <2>2. CASE ~ (MayStart /\ ~ isRunning)
    <3>1. UNCHANGED <<server, isRunning>>
      BY <2>2 DEF CommitStart
    <3> QED
      BY <1>1, <3>1 DEF IngressTypeOK
  <2> QED
    BY <2>1, <2>2
<1>4. /\ startup' \in {"unconfigured", "ready"} /\ paused' \in BOOLEAN
      /\ "done" \in ThreadPlaces \ {"idle"}
  BY <1>1, <1>2 DEF IngressTypeOK, ThreadPlaces
<1>5. Turns(g, "done", thread[g].was, thread[g].taken)
  BY <1>1, <1>2, <1>4, GotoTurns
<1>6. ASSUME g = Newest PROVE Stopping'
  BY <1>1, <1>2, <1>5, <1>6, NothingPublished DEF Stopping, Turns
<1>7. ASSUME g = Newest, ~ overlapped PROVE Deriving'
  BY <1>1, <1>2, <1>5, <1>7, NothingPublished DEF Deriving, Turns, Stopping
<1> QED
  BY <1>2, <1>3, <1>4, <1>5, <1>6, <1>7, ThreadGoesOnAside

\* A stop finds whether there is anything to stop.
LEMMA ProbeKeeps ==
  ASSUME IngressInv, NEW g \in Threads, Probe(g)
  PROVE  IngressInv'
<1> DEFINE place == IF NothingToStop(g) THEN "done" ELSE "cancel"
<1>1. IngressTypeOK /\ Stopping /\ Requests /\ OneListener /\ (~ overlapped => Deriving)
  BY DEF IngressInv
<1>2. Turns(g, place, FALSE, thread[g].taken)
  BY <1>1, StopTurns
<1>3. /\ thread[g].at = "probe"
      /\ UNCHANGED <<vars, startup, isRunning, paused, overlapped>>
      /\ UNCHANGED <<serverFlag, current, cancelled, open, server, exited, desynced>>
  BY DEF Probe, serverVars
<1>4. /\ startup' \in {"unconfigured", "ready"} /\ isRunning' \in BOOLEAN /\ paused' \in BOOLEAN
      /\ server' \in [Starts -> ServerPlaces]
  BY <1>1, <1>3 DEF IngressTypeOK
<1>5. /\ place \in ThreadPlaces \ {"idle"} /\ g # 0
  BY <1>1, <1>3 DEF ThreadPlaces, Requests
<1>6. ~ serverFlag => Closed
  BY <1>1 DEF OneListener, Closed
<1>7. ASSUME g = Newest PROVE Stopping'
  <2>1. NothingToStop(g) => ~ thread[g].was /\ Closed
    BY <1>6 DEF NothingToStop
  <2>2. Closed' = Closed
    BY <1>3 DEF Closed
  <2> QED
    BY <1>1, <1>2, <1>3, <1>7, <2>1, <2>2, NothingPublished DEF Stopping, Turns
<1>8. ASSUME g = Newest, ~ overlapped PROVE Deriving'
  BY <1>1, <1>2, <1>3, <1>8, NothingPublished DEF Deriving, Turns, Stopping
<1> HIDE DEF place
<1> QED
  BY <1>2, <1>3, <1>4, <1>5, <1>7, <1>8, ThreadGoesOnAside

\* StopHttpProxy with the flag set takes the current start, whose listener is the
\* one that may be bound; with the flag cleared there is none to close.
LEMMA CancelContextKeeps ==
  ASSUME IngressInv, NEW g \in Threads, CancelContext(g)
  PROVE  IngressInv'
<1>1. IngressTypeOK /\ Stopping /\ Requests /\ OneListener /\ (~ overlapped => Deriving)
  BY DEF IngressInv
<1>2. /\ thread[g].at = "cancel"
      /\ UNCHANGED <<vars, startup, isRunning, paused, overlapped>>
      /\ UNCHANGED <<serverFlag, current, open, server, exited, desynced>>
  BY DEF CancelContext
<1>3. /\ startup' \in {"unconfigured", "ready"} /\ isRunning' \in BOOLEAN /\ paused' \in BOOLEAN
      /\ server' \in [Starts -> ServerPlaces] /\ {"close", "set_stopped"} \subseteq ThreadPlaces
      /\ serverFlag' \in BOOLEAN /\ current' \in Starts \cup {NoStart} /\ desynced' \in BOOLEAN
      /\ desynced => desynced'
  BY <1>1, <1>2 DEF IngressTypeOK, ThreadPlaces
<1>4. CASE serverFlag
  <2>1. Turns(g, "close", thread[g].was, current) /\ cancelled' \subseteq Starts
    <3>1. current \in Starts
      BY <1>1, <1>4 DEF OneListener
    <3>2. cancelled' = cancelled \cup {current}
      BY <1>4 DEF CancelContext
    <3> QED
      BY <1>1, <1>4, <3>1, <3>2, StopTurns DEF IngressTypeOK
  <2>2. OneListener'
    BY <1>1, <1>2 DEF OneListener
  <2>3. ASSUME g = Newest PROVE Stopping'
    <3>1. open' \subseteq {current}
      BY <1>1, <1>2 DEF OneListener
    <3> QED
      BY <1>1, <1>2, <2>1, <2>3, <3>1, NothingPublished DEF Stopping, Turns
  <2>4. ASSUME g = Newest, ~ overlapped PROVE Deriving'
    BY <1>1, <1>2, <2>1, <2>4, NothingPublished DEF Deriving, Turns, Stopping
  <2> QED
    BY <1>2, <1>3, <2>1, <2>2, <2>3, <2>4, ThreadGoesOn
<1>5. CASE ~ serverFlag
  <2>1. Turns(g, "set_stopped", thread[g].was, thread[g].taken) /\ UNCHANGED cancelled
    BY <1>1, <1>3, <1>5, GotoTurns DEF CancelContext
  <2>2. Closed'
    BY <1>1, <1>2, <1>5 DEF OneListener, Closed
  <2>3. ASSUME g = Newest PROVE Stopping'
    BY <1>1, <1>2, <2>1, <2>2, <2>3, NothingPublished DEF Stopping, Turns
  <2>4. ASSUME g = Newest, ~ overlapped PROVE Deriving'
    BY <1>1, <1>2, <2>1, <2>4, NothingPublished DEF Deriving, Turns, Stopping
  <2> QED
    BY <1>2, <1>3, <2>1, <2>3, <2>4, ThreadGoesOnAside
<1> QED
  BY <1>4, <1>5

\* A stop closes the listener it took.
LEMMA CloseListenerKeeps ==
  ASSUME IngressInv, NEW g \in Threads, CloseListener(g)
  PROVE  IngressInv'
<1>1. IngressTypeOK /\ Stopping /\ Requests /\ OneListener /\ (~ overlapped => Deriving)
  BY DEF IngressInv
<1>2. /\ thread[g].at = "close" /\ Goto(g, "closed") /\ open' = open \ {thread[g].taken}
      /\ UNCHANGED <<vars, startup, isRunning, paused, overlapped>>
      /\ UNCHANGED <<serverFlag, current, cancelled, server, exited, desynced>>
  BY DEF CloseListener
<1>3. /\ startup' \in {"unconfigured", "ready"} /\ isRunning' \in BOOLEAN /\ paused' \in BOOLEAN
      /\ server' \in [Starts -> ServerPlaces] /\ "closed" \in ThreadPlaces
      /\ serverFlag' \in BOOLEAN /\ current' \in Starts \cup {NoStart} /\ desynced' \in BOOLEAN
      /\ desynced => desynced'
      /\ cancelled' \subseteq Starts /\ open' \subseteq open
  BY <1>1, <1>2 DEF IngressTypeOK, ThreadPlaces
<1>4. Turns(g, "closed", thread[g].was, thread[g].taken)
  BY <1>1, <1>2, <1>3, GotoTurns
<1>5. OneListener'
  BY <1>1, <1>2 DEF OneListener
<1>6. ASSUME g = Newest PROVE Stopping'
  <2>1. Ended => Closed'
    BY <1>1, <1>2, <1>6 DEF Stopping, Closed
  <2> QED
    BY <1>1, <1>2, <1>4, <1>6, <2>1, NothingPublished DEF Stopping, Turns
<1>7. ASSUME g = Newest, ~ overlapped PROVE Deriving'
  BY <1>1, <1>2, <1>4, <1>7, NothingPublished DEF Deriving, Turns, Stopping
<1> QED
  BY <1>2, <1>3, <1>4, <1>5, <1>6, <1>7, ThreadGoesOn

\* Clearing isHttpRunning with a listener open is noted.
LEMMA ClearFlagNotes ==
  ASSUME IngressTypeOK, OneListener, ClearFlag, UNCHANGED <<current, open, exited>>
  PROVE  /\ OneListener' /\ Closed' /\ serverFlag' \in BOOLEAN /\ desynced' \in BOOLEAN
         /\ desynced => desynced'
<1>1. serverFlag' = FALSE /\ desynced' = (desynced \/ open # {})
  BY DEF ClearFlag
<1> QED
  BY <1>1 DEF OneListener, Closed

\* A stop clears the server's flag and returns.
LEMMA StopReturnsKeeps ==
  ASSUME IngressInv, NEW g \in Threads, StopReturns(g)
  PROVE  IngressInv'
<1>1. IngressTypeOK /\ Stopping /\ Requests /\ OneListener /\ (~ overlapped => Deriving)
  BY DEF IngressInv
<1>2. /\ thread[g].at = "closed" /\ ClearFlag
      /\ UNCHANGED <<vars, startup, isRunning, paused, overlapped>>
      /\ UNCHANGED <<current, cancelled, open, server, exited>>
  BY DEF StopReturns
<1>3. /\ startup' \in {"unconfigured", "ready"} /\ isRunning' \in BOOLEAN /\ paused' \in BOOLEAN
      /\ server' \in [Starts -> ServerPlaces] /\ "set_stopped" \in ThreadPlaces
      /\ current' \in Starts \cup {NoStart} /\ cancelled' \subseteq Starts /\ open' \subseteq open
  BY <1>1, <1>2 DEF IngressTypeOK, ThreadPlaces
<1>4. Turns(g, "set_stopped", thread[g].was, NoStart)
  BY <1>1, StopTurns
<1>5. /\ OneListener' /\ Closed' /\ serverFlag' \in BOOLEAN /\ desynced' \in BOOLEAN
      /\ desynced => desynced'
  BY <1>1, <1>2, ClearFlagNotes
<1>6. ASSUME g = Newest PROVE Stopping'
  BY <1>1, <1>2, <1>4, <1>5, <1>6, NothingPublished DEF Stopping, Turns
<1>7. ASSUME g = Newest, ~ overlapped PROVE Deriving'
  BY <1>1, <1>2, <1>4, <1>7, NothingPublished DEF Deriving, Turns, Stopping
<1> QED
  BY <1>2, <1>3, <1>4, <1>5, <1>6, <1>7, ThreadGoesOn

-------------------------------------------------------------------------------
(* The server. *)

\* A listener binds, its accept loop fails, and clears the flag at its end.
LEMMA ServerKeeps ==
  ASSUME IngressInv, NEW s \in Starts, ServerStep(s)
  PROVE  IngressInv'
<1> USE DEF IngressInv
<1>1. /\ UNCHANGED <<vars, startup, isRunning, paused, thread, overlapped>>
      /\ UNCHANGED cancelled
  BY DEF ServerStep, BindListener, AcceptFails, AcceptLoopEnds
<1>2. /\ OneListener' /\ open' \subseteq Starts /\ server' \in [Starts -> ServerPlaces]
      /\ current' \in Starts \cup {NoStart}
      /\ Ended => open' \subseteq open
      /\ desynced => desynced'
  <2>1. CASE BindListener(s)
    <3>1. UNCHANGED <<cancelled, desynced>> /\ server[s] = "spawned"
      BY <2>1 DEF BindListener
    <3>2. CASE serverFlag \/ snapshot.state # "active"
      <4>1. server' = [server EXCEPT ![s] = "ended"] /\ UNCHANGED <<serverFlag, current, open, exited>>
        BY <2>1, <3>2 DEF BindListener
      <4> QED
        BY <3>1, <4>1 DEF IngressTypeOK, ServerPlaces, OneListener
    <3>3. CASE ~ (serverFlag \/ snapshot.state # "active") /\ open # {}
      <4>1. exited' = TRUE /\ UNCHANGED <<server, serverFlag, current, open>>
        BY <2>1, <3>3 DEF BindListener
      <4> QED
        BY <3>1, <3>3, <4>1 DEF IngressTypeOK, OneListener
    <3>4. CASE ~ (serverFlag \/ snapshot.state # "active") /\ open = {}
      <4>1. /\ open' = open \cup {s} /\ current' = s /\ serverFlag' = TRUE
            /\ server' = [server EXCEPT ![s] = "accepting"] /\ UNCHANGED exited
        BY <2>1, <3>4 DEF BindListener
      <4> QED
        BY <3>1, <3>4, <4>1 DEF IngressTypeOK, ServerPlaces, OneListener, Ended
    <3> QED
      BY <3>2, <3>3, <3>4
  <2>2. CASE AcceptFails(s)
    <3>1. /\ server' = [server EXCEPT ![s] = "leaving"]
          /\ UNCHANGED <<serverFlag, current, open, exited, desynced>>
      BY <2>2 DEF AcceptFails
    <3> QED
      BY <3>1 DEF IngressTypeOK, ServerPlaces, OneListener
  <2>3. CASE AcceptLoopEnds(s)
    <3>1. /\ server' = [server EXCEPT ![s] = "ended"] /\ ClearFlag
          /\ UNCHANGED <<current, open, exited>>
      BY <2>3 DEF AcceptLoopEnds
    <3> QED
      BY <3>1, ClearFlagNotes DEF IngressTypeOK, ServerPlaces
  <2> QED
    BY <2>1, <2>2, <2>3 DEF ServerStep
<1>3. serverFlag' \in BOOLEAN
  BY DEF ServerStep, BindListener, AcceptFails, AcceptLoopEnds, ClearFlag, IngressTypeOK
<1>4. desynced' \in BOOLEAN
  BY DEF ServerStep, BindListener, AcceptFails, AcceptLoopEnds, ClearFlag, IngressTypeOK
<1>5. exited' \in BOOLEAN
  BY DEF ServerStep, BindListener, AcceptFails, AcceptLoopEnds, ClearFlag, IngressTypeOK
<1>6. Cardinality(open') <= 1
  <2>1. open' = {} \/ open' = {current'}
    BY <1>2 DEF OneListener
  <2> QED
    BY <2>1, SmallSets
<1>7. TypeOK'
  BY <1>1 DEF IngressTypeOK, TypeOK, vars
<1>8. IngressTypeOK'
  BY <1>1, <1>2, <1>3, <1>4, <1>5, <1>6, <1>7 DEF IngressTypeOK
<1>9. Numbered' /\ Requests'
  BY <1>1, NothingPublished DEF Numbered, Requests
<1>10. Stopping'
  BY <1>1, <1>2, NothingPublished, StoppingStays
<1>11. ~ overlapped => InOrder' /\ Deriving'
  BY <1>1, NothingPublished DEF InOrder, Deriving, Handling
<1> QED
  BY <1>1, <1>2, <1>8, <1>9, <1>10, <1>11

-------------------------------------------------------------------------------
(* Listeners. *)

\* Handlers begin where their transition's state sends them.
LEMMA HandlerOf ==
  ASSUME NEW to \in States \ {"restoring"}
  PROVE  /\ Handler(to).at \in ThreadPlaces \ {"idle"} /\ Handler(to).kind \in Kinds
         /\ to = "active" => Handler(to).at = "ready" /\ Handler(to).kind = "resume"
         /\ to \in {"hard_invalid", "unauthenticated"} =>
              Handler(to).at = "clear_paused" /\ Handler(to).kind \in {"expire", "logout"}
<1>1. CASE to = "active"
  <2>1. Handler(to) = [at |-> "ready", kind |-> "resume"]
    BY <1>1 DEF Handler
  <2> QED
    BY <1>1, <2>1 DEF ThreadPlaces, Kinds
<1>2. CASE to = "soft_expired"
  <2>1. Handler(to) = [at |-> "stop_flag", kind |-> "pause"]
    BY <1>2 DEF Handler
  <2> QED
    BY <1>2, <2>1 DEF ThreadPlaces, Kinds
<1>3. CASE to = "hard_invalid"
  <2>1. Handler(to) = [at |-> "clear_paused", kind |-> "expire"]
    BY <1>3 DEF Handler
  <2> QED
    BY <1>3, <2>1 DEF ThreadPlaces, Kinds
<1>4. CASE to = "unauthenticated"
  <2>1. Handler(to) = [at |-> "clear_paused", kind |-> "logout"]
    BY <1>4 DEF Handler
  <2> QED
    BY <1>4, <2>1 DEF ThreadPlaces, Kinds
<1> QED
  BY <1>1, <1>2, <1>3, <1>4 DEF States

\* A step of the threads alone.
LEMMA OnlyThreads ==
  ASSUME IngressInv, UNCHANGED <<vars, startup, isRunning, paused, serverVars>>,
         thread' \in [Threads -> ThreadType], overlapped' \in BOOLEAN
  PROVE  IngressTypeOK' /\ OneListener'
<1>1. /\ TypeOK' /\ UNCHANGED <<serverFlag, current, cancelled, open, server, exited, desynced>>
  BY DEF IngressInv, IngressTypeOK, TypeOK, vars, serverVars
<1> QED
  BY <1>1 DEF IngressInv, IngressTypeOK, OneListener, ThreadType

\* The session's listener is called for a pending transition.
LEMMA BeginListenerKeeps ==
  ASSUME IngressInv, NEW t \in transitions, BeginListener(t)
  PROVE  IngressInv'
<1> USE DEF IngressInv
<1> DEFINE g == t.event.generation
           to == t.event.state
<1>1. /\ g \in 2..Newest /\ g \in Threads \ {0} /\ to \in States \ {"restoring"}
      /\ g = Newest => t.event = snapshot
      /\ Newest \in Nat
  BY TransitionsNumbered DEF Numbered, Threads
<1>2. /\ UNCHANGED <<vars, startup, isRunning, paused, serverVars>> /\ ~ Handling(g)
      /\ thread' = [thread EXCEPT ![g].at = Handler(to).at, ![g].kind = Handler(to).kind]
  BY DEF BeginListener
<1>3. overlapped' = (\/ overlapped
                     \/ \E h \in Threads \ {0, g} : Handling(h)
                     \/ \E u \in transitions : u.event.generation < g)
  BY DEF BeginListener
<1> HIDE DEF g, to
<1>4. /\ thread' \in [Threads -> ThreadType]
      /\ thread'[g].at = Handler(to).at /\ thread'[g].kind = Handler(to).kind
      /\ \A h \in Threads \ {g} : thread'[h] = thread[h]
  <2> DEFINE q == [thread[g] EXCEPT !.at = Handler(to).at]
             r == [q EXCEPT !.kind = Handler(to).kind]
  <2>1. thread \in [Threads -> ThreadType]
    BY ThreadsTyped
  <2>2. thread' = [thread EXCEPT ![g] = r]
    BY <1>1, <1>2, <2>1
  <2>3. q \in ThreadType /\ q.at = Handler(to).at
    BY <1>1, <2>1, HandlerOf DEF ThreadType
  <2> HIDE DEF q
  <2>4. r \in ThreadType /\ r.at = q.at /\ r.kind = Handler(to).kind
    BY <1>1, <2>3, HandlerOf DEF ThreadType
  <2> HIDE DEF r
  <2> QED
    BY <1>1, <2>1, <2>2, <2>3, <2>4
<1>5. overlapped' \in BOOLEAN /\ (overlapped => overlapped')
  BY <1>3 DEF IngressTypeOK
<1>6. IngressTypeOK' /\ OneListener'
  BY <1>2, <1>4, <1>5, OnlyThreads
<1>7. Numbered'
  BY <1>1, <1>2, <1>4, NothingPublished DEF Numbered, Threads
<1>8. 0 \in Threads \ {g} /\ Newest \in Threads /\ thread'[0] = thread[0]
  BY <1>1, <1>4, ThreadsTyped DEF Numbered
<1>9. Requests'
  BY <1>8 DEF Requests
<1>10. Stopping'
  <2>1. CASE g = Newest /\ Ended
    BY <1>1, <1>2, <1>4, <2>1, NothingPublished, HandlerOf DEF Stopping, Ended, to
  <2>2. CASE g # Newest
    <3>1. thread'[Newest] = thread[Newest] /\ UNCHANGED <<isRunning, open, desynced>>
      BY <1>2, <1>4, <1>8, <2>2 DEF serverVars
    <3> QED
      BY <1>2, <3>1, NothingPublished, StoppingStays
  <2>3. CASE ~ Ended
    BY <1>2, <2>3, NothingPublished DEF Stopping
  <2> QED
    BY <2>1, <2>2, <2>3
<1>11. ASSUME ~ overlapped' PROVE InOrder' /\ Deriving'
  <2>0. InOrder /\ Deriving
    BY <1>5, <1>11
  <2>1. /\ InOrder /\ Deriving
        /\ \A h \in Threads \ {0, g} : ~ Handling(h)
        /\ \A u \in transitions : ~ (u.event.generation < g)
    <3>1. ASSUME NEW h \in Threads \ {0, g}, Handling(h) PROVE FALSE
      BY <1>3, <1>11, <3>1
    <3>2. ASSUME NEW u \in transitions, u.event.generation < g PROVE FALSE
      BY <1>3, <1>11, <3>2
    <3> QED
      BY <2>0, <3>1, <3>2
  <2>2. \A u \in transitions : u.event.generation \in 2..Newest
    BY DEF Numbered
  <2>3. CASE g = Newest
    <3>1. \A u \in transitions : u.event.generation = Newest
      BY <1>1, <2>1, <2>2, <2>3
    <3>2. InOrder'
      BY <1>2, <1>4, <1>8, <2>1, <2>3, <3>1, NothingPublished DEF InOrder, Handling
    <3>3. Deriving'
      BY <1>1, <1>2, <1>4, <2>3, NothingPublished, HandlerOf DEF Deriving, Ended, to
    <3> QED
      BY <3>2, <3>3
  <2>4. CASE g # Newest
    <3>1. thread'[Newest] = thread[Newest]
      BY <1>4, <1>8, <2>4
    <3>2. NewestPending /\ ~ Handling(Newest)
      BY <2>1, <2>4 DEF InOrder, g
    <3>3. InOrder'
      BY <1>2, <1>8, <2>1, <3>1, <3>2, NothingPublished DEF InOrder, Handling
    <3>4. Deriving'
      BY <1>2, <3>1, <3>2, NothingPublished DEF Deriving, Handling
    <3> QED
      BY <3>3, <3>4
  <2> QED
    BY <2>3, <2>4
<1> QED
  BY <1>6, <1>7, <1>9, <1>10, <1>11

\* A thread that ends, or is left with clearing the startup state.
LEMMA EndListenerKeeps ==
  ASSUME IngressInv, NEW t \in transitions, EndListener(t)
  PROVE  IngressInv'
<1> USE DEF IngressInv
<1> DEFINE g == t.event.generation
           to == t.event.state
<1>1. /\ g \in 2..Newest /\ g \in Threads \ {0} /\ to \in States \ {"restoring"}
      /\ g = Newest => t.event = snapshot
      /\ Newest \in Nat /\ Newest \in Threads
  BY TransitionsNumbered DEF Numbered, Threads
<1>2. /\ UNCHANGED <<startup, isRunning, paused, serverVars, overlapped>>
      /\ thread[g].at = "done" /\ CallListener(t)
  BY DEF EndListener
<1>3. TypeOK' /\ UNCHANGED snapshot /\ transitions' = transitions \ {t}
  BY <1>2, SoleListener, IngressAssumption DEF IngressTypeOK
<1>4. PICK clears \in ClearsStartup(to) :
        thread' = [thread EXCEPT ![g] = IF clears THEN [IdleThread EXCEPT !.at = "clear_startup"]
                                        ELSE IdleThread]
  BY DEF EndListener
<1>5. clears => to \in {"unauthenticated", "hard_invalid"}
  BY <1>4 DEF ClearsStartup
<1> DEFINE r == IF clears THEN [IdleThread EXCEPT !.at = "clear_startup"] ELSE IdleThread
<1>6. /\ r \in ThreadType /\ r.at \in {"idle", "clear_startup"}
      /\ r.at = "clear_startup" => to \in {"unauthenticated", "hard_invalid"}
  BY <1>5 DEF IdleThread, ThreadType, ThreadPlaces, Kinds
<1>7. thread' = [thread EXCEPT ![g] = r]
  BY <1>4
<1> HIDE DEF r, to
<1>8. /\ thread' \in [Threads -> ThreadType] /\ thread'[g] = r
      /\ \A h \in Threads \ {g} : thread'[h] = thread[h]
  BY <1>1, <1>6, <1>7, ThreadsTyped
<1>9. UNCHANGED <<serverFlag, current, cancelled, open, server, exited, desynced>>
  BY <1>2 DEF serverVars
<1>10. IngressTypeOK' /\ OneListener'
  BY <1>2, <1>3, <1>8, <1>9 DEF IngressTypeOK, OneListener, ThreadType
<1>11. /\ Newest' = Newest /\ Ended' = Ended
       /\ g # Newest => NewestPending' = NewestPending
       /\ g = Newest => ~ NewestPending'
  <2>1. \A u \in transitions : u.event.generation = g => u = t
    BY DEF Numbered
  <2> QED
    BY <1>3, <2>1 DEF Newest, Ended, NewestPending
<1> HIDE DEF g
<1>12. Numbered'
  BY <1>1, <1>3, <1>8, <1>11 DEF Numbered, Threads
<1>13. 0 \in Threads \ {g} /\ thread'[0] = thread[0]
  BY <1>1, <1>8, ThreadsTyped
<1>14. Requests'
  BY <1>13 DEF Requests
<1>15. Stopping'
  <2>1. CASE g = Newest
    <3>1. Ended => Closed' /\ ~ isRunning'
      BY <1>2, <1>9, <2>1 DEF Stopping, Closed
    <3> QED
      BY <1>6, <1>8, <1>11, <2>1, <3>1 DEF Stopping
  <2>2. CASE g # Newest
    <3>1. thread'[Newest] = thread[Newest]
      BY <1>1, <1>8, <2>2
    <3> QED
      BY <1>2, <1>9, <1>11, <2>2, <3>1, StoppingStays
  <2> QED
    BY <2>1, <2>2
<1>16. ASSUME ~ overlapped' PROVE InOrder' /\ Deriving'
  <2>1. InOrder /\ Deriving /\ Handling(g)
    BY <1>2, <1>16 DEF Handling
  <2>2. \A h \in Threads : Handling(h)' => Handling(h)
    BY <1>8, <2>1 DEF Handling
  <2>3. CASE g = Newest
    <3>1. InOrder'
      BY <1>3, <1>11, <1>13, <2>1, <2>2, <2>3 DEF InOrder
    <3>2. Deriving'
      BY <1>1, <1>2, <1>3, <1>6, <1>8, <1>11, <2>1, <2>3 DEF Deriving, Ended, to
    <3> QED
      BY <3>1, <3>2
  <2>4. CASE g # Newest
    <3>1. NewestPending /\ ~ Handling(Newest) /\ thread'[Newest] = thread[Newest]
      BY <1>1, <1>8, <2>1, <2>4 DEF InOrder
    <3>2. InOrder'
      BY <1>3, <1>11, <1>13, <2>1, <2>4, <3>1 DEF InOrder, Handling
    <3>3. Deriving'
      BY <1>3, <1>11, <2>4, <3>1 DEF Deriving, Handling
    <3> QED
      BY <3>2, <3>3
  <2> QED
    BY <2>3, <2>4
<1> QED
  BY <1>10, <1>12, <1>14, <1>15, <1>16

\* A logout or a wipe clears the startup state once more, after its transition.
LEMMA ClearStartupKeeps ==
  ASSUME IngressInv, NEW g \in Threads, ClearStartup(g)
  PROVE  IngressInv'
<1> USE DEF IngressInv
<1>1. /\ thread[g].at = "clear_startup" /\ startup' = "unconfigured"
      /\ thread' = [thread EXCEPT ![g] = IdleThread]
      /\ UNCHANGED <<vars, isRunning, paused, overlapped>>
      /\ UNCHANGED <<serverFlag, current, cancelled, open, server, exited, desynced>>
  BY DEF ClearStartup, serverVars
<1>2. IdleThread \in ThreadType /\ IdleThread.at = "idle"
  BY DEF IdleThread, ThreadType, ThreadPlaces, Kinds
<1>3. /\ thread' \in [Threads -> ThreadType] /\ thread'[g] = IdleThread
      /\ \A h \in Threads \ {g} : thread'[h] = thread[h]
  BY <1>1, <1>2, ThreadsTyped
<1>4. TypeOK'
  BY <1>1 DEF IngressTypeOK, TypeOK, vars
<1>5. IngressTypeOK' /\ OneListener'
  BY <1>1, <1>3, <1>4 DEF IngressTypeOK, OneListener, ThreadType
<1>6. g # 0 /\ 0 \in Threads \ {g} /\ Newest \in Threads
  BY <1>1, ThreadsTyped DEF Requests, Numbered
<1>7. Numbered'
  BY <1>1, <1>2, <1>3, NothingPublished DEF Numbered
<1>8. Requests'
  BY <1>3, <1>6 DEF Requests
<1>9. Stopping'
  <2>1. CASE g = Newest
    <3>1. Ended => Closed' /\ ~ isRunning'
      BY <1>1, <2>1 DEF Stopping, Closed
    <3> QED
      BY <1>1, <1>2, <1>3, <2>1, <3>1, NothingPublished DEF Stopping
  <2>2. CASE g # Newest
    BY <1>1, <1>3, <1>6, <2>2, NothingPublished, StoppingStays
  <2> QED
    BY <2>1, <2>2
<1>10. ASSUME ~ overlapped' PROVE InOrder' /\ Deriving'
  <2>1. InOrder /\ Deriving /\ Handling(g)
    BY <1>1, <1>10 DEF Handling
  <2>2. \A h \in Threads : Handling(h)' => Handling(h)
    BY <1>3, <2>1 DEF Handling
  <2>3. CASE g = Newest
    <3>1. InOrder'
      BY <1>1, <1>3, <1>6, <2>1, <2>2, <2>3, NothingPublished DEF InOrder
    <3>2. Deriving'
      BY <1>1, <1>2, <1>3, <2>1, <2>3, NothingPublished DEF Deriving
    <3> QED
      BY <3>1, <3>2
  <2>4. CASE g # Newest
    <3>1. NewestPending /\ ~ Handling(Newest) /\ thread'[Newest] = thread[Newest]
      BY <1>3, <1>6, <2>1, <2>4 DEF InOrder
    <3>2. InOrder'
      BY <1>1, <1>3, <1>6, <2>1, <3>1, NothingPublished DEF InOrder, Handling
    <3>3. Deriving'
      BY <1>1, <3>1, NothingPublished DEF Deriving, Handling
    <3> QED
      BY <3>2, <3>3
  <2> QED
    BY <2>3, <2>4
<1> QED
  BY <1>5, <1>7, <1>8, <1>9, <1>10

-------------------------------------------------------------------------------
(* Requests and publications. *)

\* What starts a request.
LEMMA RequestBegins ==
  ASSUME IngressTypeOK, NEW k \in Kinds, NEW place \in ThreadPlaces,
         thread' = [thread EXCEPT ![0].kind = k, ![0].at = place]
  PROVE  /\ thread' \in [Threads -> ThreadType]
         /\ thread'[0].at = place /\ thread'[0].kind = k
         /\ \A h \in Threads \ {0} : thread'[h] = thread[h]
<1> DEFINE q == [thread[0] EXCEPT !.kind = k]
           r == [q EXCEPT !.at = place]
<1>1. thread \in [Threads -> ThreadType] /\ 0 \in Threads
  BY ThreadsTyped
<1>2. thread' = [thread EXCEPT ![0] = r]
  BY <1>1
<1>3. q \in ThreadType /\ q.kind = k
  BY <1>1 DEF ThreadType
<1> HIDE DEF q
<1>4. r \in ThreadType /\ r.kind = k /\ r.at = place
  BY <1>3 DEF ThreadType
<1> HIDE DEF r
<1> QED
  BY <1>1, <1>2, <1>4

\* Requests begin and end; a login returns once its transition has.
LEMMA RequestsKeep ==
  ASSUME IngressInv, BeginRequest \/ LoginReturns \/ EndRequest
  PROVE  IngressInv'
<1> USE DEF IngressInv
<1>1. UNCHANGED <<vars, startup, isRunning, paused, serverVars, overlapped>>
  BY DEF BeginRequest, LoginReturns, EndRequest
<1>2. thread \in [Threads -> ThreadType] /\ 0 \in Threads /\ Newest \in Threads \ {0}
  BY ThreadsTyped DEF Numbered, Threads
<1>3. /\ thread' \in [Threads -> ThreadType]
      /\ \A h \in Threads \ {0} : thread'[h] = thread[h]
      /\ Requests'
      /\ thread'[0].at \in {"login", "ready"} =>
           thread'[0].kind = thread[0].kind /\ thread[0].at = "login"
  <2>1. CASE BeginRequest
    <3>1. PICK k \in {"start", "stop"} :
            thread' = [thread EXCEPT ![0].kind = k,
                                     ![0].at = IF k = "start" THEN "check" ELSE "stop_flag"]
      BY <2>1 DEF BeginRequest
    <3> DEFINE place == IF k = "start" THEN "check" ELSE "stop_flag"
    <3>2. k \in Kinds /\ place \in ThreadPlaces
      BY DEF Kinds, ThreadPlaces
    <3>3. place = "stop_flag" <=> k = "stop"
      OBVIOUS
    <3>4. place \in {"check", "stop_flag"}
      OBVIOUS
    <3>5. thread' = [thread EXCEPT ![0].kind = k, ![0].at = place]
      BY <3>1
    <3> HIDE DEF place
    <3>6. /\ thread' \in [Threads -> ThreadType]
          /\ thread'[0].at = place /\ thread'[0].kind = k
          /\ \A h \in Threads \ {0} : thread'[h] = thread[h]
      BY <3>2, <3>5, RequestBegins
    <3> QED
      BY <3>3, <3>4, <3>6 DEF Requests
  <2>2. CASE LoginReturns
    <3>1. thread[0].at = "login" /\ Goto(0, "ready")
      BY <2>2 DEF LoginReturns
    <3>2. "ready" \in ThreadPlaces
      BY DEF ThreadPlaces
    <3>3. Turns(0, "ready", thread[0].was, thread[0].taken)
      BY <1>2, <3>1, <3>2, GotoTurns
    <3> QED
      BY <3>1, <3>3 DEF Turns, Requests
  <2>3. CASE EndRequest
    <3>1. thread' = [thread EXCEPT ![0] = IdleThread]
      BY <2>3 DEF EndRequest
    <3>2. IdleThread \in ThreadType /\ IdleThread.at = "idle"
      BY DEF IdleThread, ThreadType, ThreadPlaces, Kinds
    <3> QED
      BY <1>2, <3>1, <3>2 DEF Requests
  <2> QED
    BY <2>1, <2>2, <2>3
<1>4. /\ thread'[Newest] = thread[Newest]
      /\ \A h \in Threads \ {0} : Handling(h)' = Handling(h)
  BY <1>2, <1>3 DEF Handling
<1>5. overlapped' \in BOOLEAN
  BY <1>1 DEF IngressTypeOK
<1>6. IngressTypeOK' /\ OneListener'
  BY <1>1, <1>3, <1>5, OnlyThreads
<1>7. Numbered'
  BY <1>1, <1>3, NothingPublished DEF Numbered, Threads
<1>8. Stopping'
  BY <1>1, <1>4, NothingPublished, StoppingStays DEF serverVars
<1>9. ASSUME ~ overlapped PROVE InOrder' /\ Deriving'
  <2>1. InOrder /\ Deriving
    BY <1>9
  <2>2. InOrder'
    BY <1>1, <1>2, <1>3, <1>4, <2>1, NothingPublished DEF InOrder
  <2>3. Deriving'
    BY <1>1, <1>4, <2>1, NothingPublished DEF Deriving
  <2> QED
    BY <2>2, <2>3
<1> QED
  BY <1>1, <1>3, <1>6, <1>7, <1>8, <1>9

\* A publication makes a transition whose thread has not begun, so that nothing
\* is known yet of what the new session leaves of the old.
LEMMA PublicationKeeps ==
  ASSUME IngressInv, NEW to \in States \ {"restoring"}, NEW user, Forces(to, user),
         UNCHANGED <<startup, isRunning, paused, serverVars>>, overlapped' \in BOOLEAN,
         thread' \in [Threads -> ThreadType], \A h \in Threads \ {0} : thread'[h] = thread[h],
         Requests', overlapped => overlapped',
         ~ overlapped' /\ thread'[0].at \in {"login", "ready"} =>
           thread'[0].kind = "login" /\ to = "active"
  PROVE  IngressInv'
<1> USE DEF IngressInv
<1>1. TypeOK /\ NumListeners = 1
  BY IngressAssumption DEF IngressTypeOK
<1>2. /\ TypeOK'
      /\ snapshot' = [revision |-> snapshot.revision + 1, generation |-> snapshot.generation + 1,
                      state |-> to, user |-> user]
      /\ \E r : transitions' = transitions \cup {r} /\ r.event = snapshot'
  BY <1>1, ForcedIsAnnounced
<1>3. PICK r : transitions' = transitions \cup {r} /\ r.event = snapshot'
  BY <1>2
<1>4. /\ snapshot'.generation = Newest + 1 /\ snapshot'.revision = Newest + 1
      /\ snapshot'.state = to /\ Newest' = Newest + 1 /\ Newest \in Nat /\ Newest >= 1
      /\ Newest < MaxRevision /\ MaxRevision \in Nat
  BY <1>2, ConstantsAssumption
     DEF Newest, Numbered, Forces, Publish, Threads
<1>5. UNCHANGED <<serverFlag, current, cancelled, open, server, exited, desynced>>
  BY DEF serverVars
<1>6. IngressTypeOK' /\ OneListener'
  BY <1>2, <1>5 DEF IngressTypeOK, OneListener, ThreadType
<1>7. Newest' \in Threads \ {0} /\ thread'[Newest'] = IdleThread
  BY <1>4 DEF Numbered, Threads
<1>8. \A t \in transitions :
        /\ t.event.generation \in 2..Newest /\ t.event.state # "restoring"
        /\ \A u \in transitions : u.event.generation = t.event.generation => u = t
  BY DEF Numbered
<1>9. Numbered'
  <2>1. \A t \in transitions' :
          /\ t.event.generation \in 2..Newest' /\ t.event.state # "restoring"
          /\ t.event.generation = Newest' => t.event = snapshot'
          /\ \A u \in transitions' : u.event.generation = t.event.generation => u = t
    BY <1>3, <1>4, <1>8
  <2>2. \A g \in Threads : g > Newest' => thread'[g] = IdleThread
    BY <1>4 DEF Numbered, Threads
  <2> QED
    BY <1>4, <1>7, <2>1, <2>2 DEF Numbered
<1>10. NewestPending' /\ thread'[Newest'].at = "idle"
  BY <1>3, <1>4, <1>7 DEF NewestPending, IdleThread
<1>11. Stopping'
  BY <1>10 DEF Stopping
<1>12. ~ overlapped' => InOrder' /\ Deriving'
  BY <1>4, <1>10 DEF InOrder, Deriving, Handling
<1> QED
  BY <1>6, <1>9, <1>11, <1>12

\* A login publishes, or another goroutine does.
LEMMA PublicationsKeep ==
  ASSUME IngressInv, BeginLogin \/ PublishElsewhere
  PROVE  IngressInv'
<1> USE DEF IngressInv
<1>1. TypeOK /\ thread \in [Threads -> ThreadType] /\ 0 \in Threads
  BY ThreadsTyped DEF IngressTypeOK
<1>2. UNCHANGED <<startup, isRunning, paused, serverVars>>
  BY DEF BeginLogin, PublishElsewhere
<1>3. CASE BeginLogin
  <2>1. PICK u \in Users : Forces("active", u)
    BY <1>1, <1>3, ForcedSteps DEF BeginLogin
  <2>2. "login" \in Kinds /\ "login" \in ThreadPlaces /\ "active" \in States \ {"restoring"}
    BY DEF Kinds, ThreadPlaces, States
  <2>3. /\ thread' = [thread EXCEPT ![0].kind = "login", ![0].at = "login"]
        /\ UNCHANGED overlapped
    BY <1>3 DEF BeginLogin
  <2>4. /\ thread' \in [Threads -> ThreadType]
        /\ thread'[0].at = "login" /\ thread'[0].kind = "login"
        /\ \A h \in Threads \ {0} : thread'[h] = thread[h]
    BY <2>2, <2>3, RequestBegins
  <2>5. Requests'
    BY <2>4 DEF Requests
  <2>6. overlapped' \in BOOLEAN /\ (overlapped => overlapped')
    BY <2>3 DEF IngressTypeOK
  <2> QED
    BY <1>2, <2>1, <2>2, <2>4, <2>5, <2>6, PublicationKeeps
<1>4. CASE PublishElsewhere
  <2>1. PICK to \in States \ {"restoring"}, user \in Users \cup {NoUser} : Forces(to, user)
    <3>1. {"active", "soft_expired", "hard_invalid", "unauthenticated"} \subseteq States \ {"restoring"}
      BY DEF States
    <3> QED
      BY <1>1, <1>4, <3>1, ForcedSteps DEF PublishElsewhere
  <2>2. UNCHANGED thread /\ overlapped' = (overlapped \/ thread[0].kind = "login")
    BY <1>4 DEF PublishElsewhere
  <2>3. overlapped' \in BOOLEAN /\ (overlapped => overlapped')
    BY <2>2 DEF IngressTypeOK
  <2>4. Requests'
    BY <2>2 DEF Requests
  <2>5. ~ overlapped' => thread'[0].at \notin {"login", "ready"}
    BY <2>2 DEF InOrder
  <2> QED
    BY <1>1, <1>2, <2>1, <2>2, <2>3, <2>4, <2>5, PublicationKeeps
<1> QED
  BY <1>3, <1>4

-------------------------------------------------------------------------------
\* It holds at start-up.
LEMMA IngressInitHolds == IngressInit => IngressInv
<1> SUFFICES ASSUME IngressInit PROVE IngressInv
  OBVIOUS
<1>1. /\ TypeOK /\ snapshot.generation = 1 /\ snapshot.revision = 1
      /\ snapshot.state = "restoring" /\ transitions = {}
  BY InitIInv DEF IngressInit, Init, IInv
<1>2. /\ startup \in {"unconfigured", "ready"}
      /\ isRunning = FALSE /\ paused = FALSE /\ serverFlag = FALSE
      /\ current = NoStart /\ cancelled = {} /\ open = {}
      /\ server = [s \in Starts |-> "unused"] /\ thread = [g \in Threads |-> IdleThread]
      /\ exited = FALSE /\ desynced = FALSE /\ overlapped = FALSE
  BY DEF IngressInit
<1>3. IdleThread \in ThreadType /\ IdleThread.at = "idle"
  BY DEF IdleThread, ThreadType, ThreadPlaces, Kinds
<1>4. 0 \in Threads /\ 1 \in Threads
  BY ConstantsAssumption, IngressAssumption DEF Threads
<1>5. IngressTypeOK
  <2>1. isRunning \in BOOLEAN /\ paused \in BOOLEAN /\ serverFlag \in BOOLEAN
        /\ exited \in BOOLEAN /\ desynced \in BOOLEAN /\ overlapped \in BOOLEAN
    BY <1>2
  <2>2. server \in [Starts -> ServerPlaces]
    BY <1>2 DEF ServerPlaces
  <2>3. thread \in [Threads -> ThreadType]
    BY <1>2, <1>3
  <2>4. Cardinality(open) <= 1
    BY <1>2, SmallSets
  <2> QED
    BY <1>1, <1>2, <2>1, <2>2, <2>3, <2>4 DEF IngressTypeOK, ThreadType
<1>6. Numbered
  BY <1>1, <1>2, <1>4 DEF Numbered, Newest
<1>7. OneListener /\ Stopping
  BY <1>1, <1>2 DEF OneListener, Stopping, Ended
<1>8. Requests
  BY <1>2, <1>3, <1>4 DEF Requests
<1>9. InOrder
  BY <1>1, <1>2, <1>3, <1>4 DEF InOrder, Handling
<1>10. Deriving
  BY <1>1 DEF Deriving, Ended
<1> QED
  BY <1>5, <1>6, <1>7, <1>8, <1>9, <1>10 DEF IngressInv

\* Every step keeps it.
LEMMA IngressStepKeeps == IngressInv /\ [IngressNext]_allVars => IngressInv'
<1> SUFFICES ASSUME IngressInv, [IngressNext]_allVars PROVE IngressInv'
  OBVIOUS
<1>1. ASSUME NEW g \in Threads, ThreadStep(g) PROVE IngressInv'
  BY <1>1, CancelContextKeeps, CloseListenerKeeps, StopReturnsKeeps, ReadRunningKeeps,
     ProbeKeeps, SetStoppedKeeps, SetPausedKeeps, CheckStartKeeps, CommitStartKeeps,
     SetReadyKeeps, TakePausedKeeps, ClearPausedKeeps, UnconfigureKeeps, ClearStartupKeeps
     DEF ThreadStep
<1>2. ASSUME NEW s \in Starts, ServerStep(s) PROVE IngressInv'
  BY <1>2, ServerKeeps
<1>3. ASSUME NEW t \in transitions, ListenerStep(t) PROVE IngressInv'
  BY <1>3, BeginListenerKeeps, EndListenerKeeps DEF ListenerStep
<1>4. CASE BeginRequest \/ LoginReturns \/ EndRequest
  BY <1>4, RequestsKeep
<1>5. CASE BeginLogin \/ PublishElsewhere
  BY <1>5, PublicationsKeep
<1>6. CASE UNCHANGED allVars
  <2>1. /\ UNCHANGED <<vars, startup, isRunning, paused, thread, overlapped>>
        /\ UNCHANGED <<serverFlag, current, cancelled, open, server, exited, desynced>>
    BY <1>6 DEF allVars, ingressVars, serverVars
  <2>2. IngressTypeOK' /\ OneListener' /\ Numbered' /\ Requests'
    BY <2>1, NothingPublished
       DEF IngressInv, IngressTypeOK, TypeOK, vars, OneListener, Numbered, Requests
  <2>3. Stopping'
    BY <2>1, NothingPublished, StoppingStays DEF IngressInv
  <2>4. ~ overlapped => InOrder' /\ Deriving'
    BY <2>1, NothingPublished DEF IngressInv, InOrder, Deriving, Handling
  <2> QED
    BY <2>1, <2>2, <2>3, <2>4 DEF IngressInv
<1> QED
  BY <1>1, <1>2, <1>3, <1>4, <1>5, <1>6 DEF IngressNext

\* It holds always.
LEMMA IngressInvAlways == IngressSafetySpec => []IngressInv
<1> QED
  BY IngressInitHolds, IngressStepKeeps, PTL DEF IngressSafetySpec

\* The proxy never has two listeners bound, whatever its flags say.
THEOREM IngressTypeCorrect == IngressSafetySpec => []IngressTypeOK
<1>1. IngressInv => IngressTypeOK
  BY DEF IngressInv
<1> QED
  BY <1>1, IngressInvAlways, PTL

\* However starts, stops and transitions interleave, no start meets a port still
\* bound, unless isHttpRunning was cleared with a listener open.
THEOREM ExitsOnlyDesyncedAlways == IngressSafetySpec => []ExitsOnlyDesynced
<1>1. IngressInv => ExitsOnlyDesynced
  BY DEF IngressInv, OneListener, ExitsOnlyDesynced
<1> QED
  BY <1>1, IngressInvAlways, PTL

\* Once its listeners have run, an ended session leaves no port open and nothing
\* RunService believes to be running.
THEOREM EndedIsStoppedAlways == IngressSafetySpec => []EndedIsStopped
<1>1. IngressInv => EndedIsStopped
  <2> SUFFICES ASSUME IngressInv, Settled, Ended, ~ desynced PROVE open = {} /\ ~ isRunning
    BY DEF EndedIsStopped
  <2>1. thread[Newest].at = "idle" /\ ~ NewestPending
    BY DEF IngressInv, Numbered, Settled, Handling, NewestPending
  <2> QED
    BY <2>1 DEF IngressInv, Stopping, Closed
<1> QED
  BY <1>1, IngressInvAlways, PTL

\* While transitions are handled in their order, one at a time, the startup state
\* and the pause are those of the session.
THEOREM DerivedInOrderAlways == IngressSafetySpec => []DerivedInOrder
<1>1. IngressInv => DerivedInOrder
  <2> SUFFICES ASSUME IngressInv, Settled, ~ overlapped
               PROVE  /\ snapshot.state = "active" => startup = "ready" /\ ~ paused
                      /\ Ended => startup = "unconfigured" /\ ~ paused
    BY DEF DerivedInOrder
  <2>1. thread[Newest].at = "idle" /\ ~ NewestPending
    BY DEF IngressInv, Numbered, Settled, Handling, NewestPending
  <2> QED
    BY <2>1 DEF IngressInv, Deriving
<1> QED
  BY <1>1, IngressInvAlways, PTL
===============================================================================
