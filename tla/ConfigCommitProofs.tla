-------------------------- MODULE ConfigCommitProofs --------------------------
(***************************************************************************)
(* Proofs about ConfigCommit for any number of saves, routing updates and  *)
(* crashes.  No property is inductive by itself: SettledAgrees needs what  *)
(* a save that holds the mutex has written so far (Holder, Written),       *)
(* PersistedIsActive what the writer of routing.json carries (Writer,      *)
(* Fresh), and RestartKeepsAcked which save a file may come from (Unseen,  *)
(* Own, Elsewhere) and what is on record of it (Underway, Acknowledged,    *)
(* Recorded).                                                              *)
(***************************************************************************)
EXTENDS ConfigCommit, TLAPS

Request == Update \cup Put

Held == {"file", "db", "global", "refresh", "apply", "persist", "persisting", "commit", "rollback"}

\* A save holds the mutex exactly while it commits.
Holder == \A u \in Update : request[u].pc \in Held <=> lock = u

\* What the save that holds the mutex has written so far.
Written ==
    \A u \in Update :
        LET pc == request[u].pc IN
        /\ pc \in Held \ {"file", "rollback"} => files[Path(request[u].kind)] = request[u].next
        /\ pc \in Held \ {"file", "rollback", "db"} => db = request[u].next
        /\ pc \in Held \ {"file", "rollback", "db", "global"} => global = request[u].next

\* Neither the mutex nor the committed snapshot outlives its process.
DownIsFree == up \/ (lock = None /\ committed = None)

CommitInv == ConfigTypeOK /\ DownIsFree /\ Holder /\ Written /\ SettledAgrees

Writer == \A r \in Request : request[r].pc = "persisting" <=> routing.writer = r

\* The latest schema is still to be read by a writer, carried by the one that
\* writes, or on disk unless the latest write failed.
Fresh ==
    up => \/ \E r \in Request : request[r].pc = "persist"
          \/ routing.writer # None /\ routing.writing = routing.active
          \/ routing.writer = None /\ (routing.unsaved \/ routing.disk = routing.active)

\* Nor does the mutex of the writers.
Quiet == up \/ routing.writer = None

PersistInv == ConfigTypeOK /\ Quiet /\ Writer /\ Fresh

\* No part of the configuration was set by u.
Stranger(u, cfg) == cfg # None => cfg.core # u /\ cfg.customer # u

\* What a save has not begun to write is to be found nowhere.
Unseen ==
    \A u \in Update : request[u].pc \in {"new", "merged"} =>
        /\ Stranger(u, global)
        /\ Stranger(u, db)
        /\ \A place \in Place : Stranger(u, files[place])
        /\ committed # None => Stranger(u, committed.content)
        /\ \A w \in Update \ {u} : Stranger(u, request[w].next)

Own == \A u \in Update : request[u].pc = "merged" => ~Stranger(u, request[u].next)

\* A save writes the file of its part and no other.
Elsewhere ==
    \A u \in Update : request[u].pc \in Held =>
        \A place \in Place \ {Path(request[u].kind)} : files[place] # request[u].next

Underway == \A u \in Update : request[u].pc \in Held => request[u].next \in log.tried

\* The committed snapshot is the save that was acknowledged last.
Acknowledged ==
    committed # None => committed.content = log.acked /\ Path(committed.kind) = log.path

\* The place last saved to holds what was acknowledged, what was tried since,
\* or nothing a process can start from.
Recorded ==
    /\ log.path \in Place => files[log.path] \in {log.acked, Torn, None} \cup log.tried
    /\ log.path = "database" => db \in {log.acked} \cup log.tried
    /\ log.path = "default" => log.acked = Both(Default)

RestartInv == Unseen /\ Own /\ Elsewhere /\ Underway /\ Acknowledged /\ Recorded

-----------------------------------------------------------------------------
\* Paths are places.
LEMMA PathIsPlace == \A kind : Path(kind) \in Place
BY DEF Path, Place

\* The start reads a file or a snapshot that is there.
LEMMA SourceHasFile ==
    /\ Source \in Place \cup {"database", "default"}
    /\ Source \in Place => files[Source] # None
    /\ Source = "database" => db # None
BY DEF Source, Path, Place

\* The process starts with every variable of its type.
LEMMA ConfigInitTyped == ConfigInit => ConfigTypeOK
<1> SUFFICES ASSUME ConfigInit PROVE ConfigTypeOK
  OBVIOUS
<1>1. Both(Initial) \in Config /\ Both(Default) \in Config
  BY DEF Both, Config, Part
<1>2. files \in [Place -> Config \cup {None}]
  BY <1>1 DEF ConfigInit
<1>3. global \in Config
  BY <1>1, <1>2, SourceHasFile DEF ConfigInit
<1>4. QED
  BY <1>2, <1>3, SourceHasFile DEF ConfigInit, ConfigTypeOK, Record

\* A request that moves on stays a request.
LEMMA RecordMoves ==
    ASSUME NEW record \in Record, NEW pc \in {"apply", "persist", "persisting", "commit", "done"}, NEW switch \in Put \cup {Default, None}
    PROVE  /\ [record EXCEPT !.pc = pc] \in Record
           /\ [record EXCEPT !.pc = pc, !.switch = switch] \in Record
BY DEF Record

\* Each step of a save keeps the types.
LEMMA CommitStepTyped ==
    ASSUME ConfigTypeOK, CommitStep
    PROVE  ConfigTypeOK'
<1> USE ConfigAssumption DEF ConfigTypeOK
<1> PICK u \in Update : \/ \E kind \in {"core", "customer"} : Merge(u, kind)
                        \/ Lock(u) \/ SaveFile(u) \/ FileFails(u) \/ SaveDb(u) \/ DbFails(u)
                        \/ SetGlobal(u) \/ RefreshFails(u) \/ ReadSwitch(u) \/ Commit(u) \/ Rollback(u)
  BY DEF CommitStep
<1>0. Torn \in Config
  BY DEF Torn, Both, Config, Part
<1>1. ASSUME NEW kind \in {"core", "customer"}, Merge(u, kind) PROVE ConfigTypeOK'
  <2>1. [global EXCEPT ![kind] = u] \in Config
    BY DEF Config, Part
  <2>2. request[u].pc = "new" /\ DOMAIN request = Update \cup Put
    BY <1>1 DEF Merge, At
  <2>3. request' \in [Update \cup Put -> Record]
    BY <1>1, <2>1 DEF Merge, Record
  <2>4. \A w \in Update : request'[w].pc \notin {"new", "done"} =>
           request'[w].kind \in {"core", "customer"} /\ request'[w].next \in Config
    BY <1>1, <2>1 DEF Merge, Record
  <2>5. UNCHANGED <<mode, up, global, boot, committed, lock, files, db, routing, log>>
    BY <1>1 DEF Merge
  <2>6. QED
    BY <2>3, <2>4, <2>5
<1>2. CASE Lock(u)
  BY <1>2, PathIsPlace, <1>0 DEF Lock, At, Goto, Record
<1>3. CASE SaveFile(u)
  BY <1>3, PathIsPlace, <1>0 DEF SaveFile, At, Goto, Record
<1>4. CASE FileFails(u)
  BY <1>4, PathIsPlace, <1>0 DEF FileFails, Answer, At, Goto, Record
<1>5. CASE SaveDb(u)
  BY <1>5, PathIsPlace, <1>0 DEF SaveDb, At, Goto, Record
<1>6. CASE DbFails(u)
  BY <1>6, PathIsPlace, <1>0 DEF DbFails, At, Goto, Record
<1>7. CASE SetGlobal(u)
  BY <1>7, PathIsPlace, <1>0 DEF SetGlobal, At, Goto, Record
<1>8. CASE RefreshFails(u)
  BY <1>8, PathIsPlace, <1>0 DEF RefreshFails, At, Goto, Record
<1>9. CASE ReadSwitch(u)
  <2> DEFINE s == IF routing.active = None THEN Default ELSE routing.active.switch
  <2>1. s \in Put \cup {Default, None}
    BY DEF Schema
  <2>2. request' = [request EXCEPT ![u] = [@ EXCEPT !.pc = "apply", !.switch = s]]
    BY <1>9 DEF ReadSwitch
  <2>3. request[u].pc = "refresh"
    BY <1>9 DEF ReadSwitch, At
  <2> HIDE DEF s
  <2>4. request' \in [Update \cup Put -> Record]
    BY <2>1, <2>2, RecordMoves
  <2>5. \A w \in Update : request'[w].pc \notin {"new", "done"} =>
           request'[w].kind \in {"core", "customer"} /\ request'[w].next \in Config
    BY <2>2, <2>3 DEF Record
  <2>6. UNCHANGED <<mode, up, global, boot, committed, lock, files, db, routing, log>>
    BY <1>9 DEF ReadSwitch
  <2>7. QED
    BY <2>4, <2>5, <2>6
<1>10. CASE Commit(u)
  <2>1. request[u].kind \in {"core", "customer"} /\ request[u].next \in Config
    BY <1>10 DEF Commit, At
  <2>2. Path(request[u].kind) \in Place
    BY PathIsPlace
  <2>3. committed' = [kind |-> request[u].kind, content |-> request[u].next]
    BY <1>10 DEF Commit
  <2>4. /\ lock' = None
        /\ request' = [request EXCEPT ![u].pc = "done"]
        /\ log' = [log EXCEPT !.path = Path(request[u].kind), !.acked = request[u].next,
                              !.tried = {}, !.last = "ok"]
    BY <1>10 DEF Commit, Answer, Goto
  <2>5. log' \in [path : Place \cup {"database", "default"}, acked : Config,
                  tried : SUBSET Config, last : {"none", "ok", "refused"}, crashes : Nat]
    BY <2>1, <2>2, <2>4
  <2>6. request' \in [Update \cup Put -> Record]
    BY <2>4, RecordMoves
  <2>7. \A w \in Update : request'[w].pc \notin {"new", "done"} =>
           request'[w].kind \in {"core", "customer"} /\ request'[w].next \in Config
    BY <2>4 DEF Record
  <2>8. committed' \in [kind : {"core", "customer"}, content : Config]
    BY <2>1, <2>3
  <2>9. UNCHANGED <<mode, up, global, boot, files, db, routing>>
    BY <1>10 DEF Commit
  <2>10. QED
    BY <2>4, <2>5, <2>6, <2>7, <2>8, <2>9
<1>11. CASE Rollback(u)
  <2>1. request[u].next \in Config
    BY <1>11 DEF Rollback, At
  <2>2. files' \in [Place -> Config \cup {None}]
    <3>1. PICK undo \in BOOLEAN, rest \in {"old", "torn"} :
             LET kind    == request[u].kind
                 place   == IF committed # None THEN Path(committed.kind)
                            ELSE IF kind = "core" THEN "local" ELSE None
                 content == IF undo THEN (IF committed = None THEN None ELSE committed.content)
                            ELSE IF rest = "torn" /\ committed # None THEN Torn ELSE files[place]
             IN  files' = IF place = None THEN files ELSE [files EXCEPT ![place] = content]
      BY <1>11 DEF Rollback
    <3>2. CASE committed # None
      <4>1. committed.content \in Config /\ Path(committed.kind) \in Place
        BY <3>2, PathIsPlace
      <4>2. QED
        BY <1>0, <3>1, <3>2, <4>1
    <3>3. CASE committed = None
      BY <1>0, <3>1, <3>3 DEF Place
    <3>4. QED
      BY <3>2, <3>3
  <2>3. /\ lock' = None
        /\ request' = [request EXCEPT ![u].pc = "done"]
        /\ \/ log' = [log EXCEPT !.tried = @ \ {request[u].next}, !.last = "refused"]
           \/ log' = [log EXCEPT !.last = "refused"]
    BY <1>11 DEF Rollback, Answer, Goto
  <2>4. log' \in [path : Place \cup {"database", "default"}, acked : Config,
                  tried : SUBSET Config, last : {"none", "ok", "refused"}, crashes : Nat]
    <3>1. CASE log' = [log EXCEPT !.last = "refused"]
      BY <3>1
    <3>2. CASE log' = [log EXCEPT !.tried = @ \ {request[u].next}, !.last = "refused"]
      <4>1. log.tried \ {request[u].next} \in SUBSET Config
        OBVIOUS
      <4>2. QED
        BY <3>2, <4>1
    <3>3. QED
      BY <2>3, <3>1, <3>2
  <2>5. UNCHANGED <<mode, up, global, boot, committed, db, routing>>
    BY <1>11 DEF Rollback
  <2>6. request[u].pc = "rollback" /\ lock' \in Update \cup {None}
    BY <1>11, <2>3 DEF Rollback, At
  <2>7. request' = [request EXCEPT ![u].pc = "done"]
    BY <2>3
  <2>8. request' \in [Update \cup Put -> Record]
    BY <2>7, RecordMoves
  <2>9. \A w \in Update : request'[w].pc \notin {"new", "done"} =>
           request'[w].kind \in {"core", "customer"} /\ request'[w].next \in Config
    BY <2>6, <2>7 DEF Record
  <2>10. QED
    BY <2>2, <2>4, <2>5, <2>6, <2>8, <2>9
<1>12. QED
  BY <1>1, <1>2, <1>3, <1>4, <1>5, <1>6, <1>7, <1>8, <1>9, <1>10, <1>11

\* The steps of the routing store keep the types.
LEMMA RoutingStepTyped ==
    ASSUME ConfigTypeOK, RoutingStep
    PROVE  ConfigTypeOK'
<1> USE ConfigAssumption DEF ConfigTypeOK
<1> PICK r \in Update \cup Put : Apply(r) \/ PersistRead(r) \/ PersistWrite(r)
  BY DEF RoutingStep
<1>1. CASE Apply(r)
  <2> DEFINE schema == [rules |-> r, switch |-> IF r \in Put THEN r ELSE request[r].switch]
  <2>1. schema \in Schema
    BY DEF Schema, Record
  <2>2. routing' = [routing EXCEPT !.active = schema]
    BY <1>1 DEF Apply
  <2>3. request' = [request EXCEPT ![r].pc = "persist"]
    BY <1>1 DEF Apply, Goto
  <2>4. r \in Update => request[r].pc = "apply"
    BY <1>1 DEF Apply, At
  <2>5. UNCHANGED <<mode, up, global, boot, committed, lock, files, db, log>>
    BY <1>1 DEF Apply
  <2> HIDE DEF schema
  <2>6. request' \in [Update \cup Put -> Record]
    BY <2>3, RecordMoves
  <2>7. \A w \in Update : request'[w].pc \notin {"new", "done"} =>
           request'[w].kind \in {"core", "customer"} /\ request'[w].next \in Config
    BY <2>3, <2>4 DEF Record
  <2>8. routing' \in [active : Schema \cup {None}, disk : Schema \cup {None},
                      writer : Update \cup Put \cup {None}, writing : Schema \cup {None},
                      unsaved : BOOLEAN]
    BY <2>1, <2>2
  <2>9. QED
    BY <2>5, <2>6, <2>7, <2>8
<1>2. CASE PersistRead(r)
  <2>1. request' = [request EXCEPT ![r].pc = "persisting"] /\ request[r].pc = "persist"
    BY <1>2 DEF PersistRead, Goto, At
  <2>2. request' \in [Update \cup Put -> Record]
    BY <2>1, RecordMoves
  <2>3. \A w \in Update : request'[w].pc \notin {"new", "done"} =>
           request'[w].kind \in {"core", "customer"} /\ request'[w].next \in Config
    BY <2>1 DEF Record
  <2>4. routing' \in [active : Schema \cup {None}, disk : Schema \cup {None},
                      writer : Update \cup Put \cup {None}, writing : Schema \cup {None},
                      unsaved : BOOLEAN]
    BY <1>2 DEF PersistRead
  <2>5. UNCHANGED <<mode, up, global, boot, committed, lock, files, db, log>>
    BY <1>2 DEF PersistRead
  <2>6. QED
    BY <2>2, <2>3, <2>4, <2>5
<1>3. CASE PersistWrite(r)
  <2>1. /\ request' = [request EXCEPT ![r].pc = IF r \in Put THEN "done" ELSE "commit"]
        /\ request[r].pc = "persisting"
    BY <1>3 DEF PersistWrite, Goto, At
  <2>2. request' \in [Update \cup Put -> Record]
    BY <2>1, RecordMoves
  <2>3. \A w \in Update : request'[w].pc \notin {"new", "done"} =>
           request'[w].kind \in {"core", "customer"} /\ request'[w].next \in Config
    BY <2>1 DEF Record
  <2>4. routing' \in [active : Schema \cup {None}, disk : Schema \cup {None},
                      writer : Update \cup Put \cup {None}, writing : Schema \cup {None},
                      unsaved : BOOLEAN]
    BY <1>3 DEF PersistWrite
  <2>5. UNCHANGED <<mode, up, global, boot, committed, lock, files, db, log>>
    BY <1>3 DEF PersistWrite
  <2>6. QED
    BY <2>2, <2>3, <2>4, <2>5
<1>4. QED
  BY <1>1, <1>2, <1>3

\* A crash keeps the types.
LEMMA CrashTyped ==
    ASSUME ConfigTypeOK, Crash
    PROVE  ConfigTypeOK'
<1> USE ConfigAssumption DEF ConfigTypeOK
<1>1. files' \in [Place -> Config \cup {None}]
  <2>1. Torn \in Config
    BY DEF Torn, Both, Config, Part
  <2>2. QED
    BY <2>1, PathIsPlace DEF Crash
<1>2. request' = [r \in Update \cup Put |->
                     IF request[r].pc = "new" THEN request[r] ELSE [request[r] EXCEPT !.pc = "done"]]
  BY DEF Crash
<1>3. request' \in [Update \cup Put -> Record]
  BY <1>2, RecordMoves
<1>4. \A w \in Update : request'[w].pc \in {"new", "done"}
  BY <1>2 DEF Record
<1>5. routing' \in [active : Schema \cup {None}, disk : Schema \cup {None},
                    writer : Update \cup Put \cup {None}, writing : Schema \cup {None},
                    unsaved : BOOLEAN]
  BY DEF Crash
<1>6. log' \in [path : Place \cup {"database", "default"}, acked : Config,
                tried : SUBSET Config, last : {"none", "ok", "refused"}, crashes : Nat]
  BY DEF Crash
<1>7. up' = FALSE /\ committed' = None /\ lock' = None /\ UNCHANGED <<mode, global, boot, db>>
  BY DEF Crash
<1>8. QED
  BY <1>1, <1>3, <1>4, <1>5, <1>6, <1>7

\* A restart keeps the types: what it loads is a configuration.
LEMMA RestartTyped ==
    ASSUME ConfigTypeOK, Restart
    PROVE  ConfigTypeOK'
<1> USE ConfigAssumption DEF ConfigTypeOK
<1>1. /\ boot' \in Place \cup {"database", "default"}
      /\ boot' \in Place => files'[boot'] # None
      /\ boot' = "database" => db' # None
  BY SourceHasFile DEF Restart, Load, Source, Path, Place
<1>2. Both(Default) \in Config
  BY DEF Both, Config, Part
<1>3. global' \in Config
  <2>1. /\ boot' = "database" => global' = db'
        /\ boot' = "default" => global' = Both(Default)
        /\ boot' \in Place => global' = files'[boot']
    BY DEF Restart, Load, Place
  <2>2. files' = files /\ db' = db
    BY DEF Restart
  <2>3. QED
    BY <1>1, <1>2, <2>1, <2>2
<1>4. routing' \in [active : Schema \cup {None}, disk : Schema \cup {None},
                    writer : Update \cup Put \cup {None}, writing : Schema \cup {None},
                    unsaved : BOOLEAN]
  BY DEF Restart
<1>5. log' \in [path : Place \cup {"database", "default"}, acked : Config,
                tried : SUBSET Config, last : {"none", "ok", "refused"}, crashes : Nat]
  <2>1. log' = [log EXCEPT !.path = boot', !.acked = global', !.tried = {}, !.last = "none"]
    BY DEF Restart
  <2>2. QED
    BY <1>1, <1>3, <2>1
<1>6. up' = TRUE /\ UNCHANGED <<mode, files, db, committed, lock, request>>
  BY DEF Restart
<1>7. QED
  BY <1>1, <1>3, <1>4, <1>5, <1>6

\* Whatever saves, failures and crashes, every variable has its type.
THEOREM ConfigTypeCorrect == ConfigSpec => []ConfigTypeOK
<1>1. ASSUME ConfigTypeOK, [ConfigNext]_vars PROVE ConfigTypeOK'
  <2>1. CASE UNCHANGED vars
    BY <1>1, <2>1 DEF ConfigTypeOK, vars
  <2>2. QED
    BY <1>1, <2>1, CommitStepTyped, RoutingStepTyped, CrashTyped, RestartTyped DEF ConfigNext
<1>2. QED
  BY <1>1, ConfigInitTyped, PTL DEF ConfigSpec

-----------------------------------------------------------------------------
\* A request that moves on keeps its part and value, and the others are left.
LEMMA GotoFields ==
    ASSUME ConfigTypeOK, NEW r \in Request, NEW pc, Goto(r, pc)
    PROVE  /\ request'[r].pc = pc
           /\ request'[r].kind = request[r].kind
           /\ request'[r].next = request[r].next
           /\ \A w \in Request \ {r} : request'[w] = request[w]
BY DEF ConfigTypeOK, Record, Goto, Request

\* A save that moves on while it holds the mutex: the others hold nothing.
LEMMA HolderMoves ==
    ASSUME ConfigTypeOK, Holder, NEW u \in Update, NEW pc \in Held,
           request[u].pc \in Held, Goto(u, pc), UNCHANGED lock
    PROVE  Holder' /\ lock = u /\ \A w \in Update \ {u} : request'[w].pc \notin Held
BY GotoFields DEF Holder, Request

\* A save that gives the mutex up: nobody holds it.
LEMMA HolderLeaves ==
    ASSUME ConfigTypeOK, Holder, NEW u \in Update, request[u].pc \in Held,
           Goto(u, "done"), lock' = None
    PROVE  Holder' /\ \A w \in Update : request'[w].pc \notin Held
BY GotoFields, ConfigAssumption DEF Holder, Request, Held

\* Each step of a save keeps the order of its writes.
LEMMA CommitStepAgrees ==
    ASSUME CommitInv, CommitStep
    PROVE  (Holder /\ Written /\ SettledAgrees)'
<1> USE ConfigAssumption DEF CommitInv
<1> PICK u \in Update : \/ \E kind \in {"core", "customer"} : Merge(u, kind)
                        \/ Lock(u) \/ SaveFile(u) \/ FileFails(u) \/ SaveDb(u) \/ DbFails(u)
                        \/ SetGlobal(u) \/ RefreshFails(u) \/ ReadSwitch(u) \/ Commit(u) \/ Rollback(u)
  BY DEF CommitStep
<1>u. u \in Request
  BY DEF Request
<1>1. ASSUME NEW kind \in {"core", "customer"}, Merge(u, kind)
      PROVE  (Holder /\ Written /\ SettledAgrees)'
  <2>1. /\ request[u].pc = "new" /\ request'[u].pc = "merged"
        /\ \A w \in Update \ {u} : request'[w] = request[w]
    BY <1>1 DEF Merge, At, ConfigTypeOK
  <2>2. UNCHANGED <<mode, up, global, committed, lock, files, db, log>>
    BY <1>1 DEF Merge
  <2>3. Holder'
    BY <2>1, <2>2 DEF Holder, Held
  <2>4. Written'
    BY <2>1, <2>2 DEF Written, Held, Path
  <2>5. SettledAgrees'
    BY <2>2 DEF SettledAgrees, Path
  <2>6. QED
    BY <2>3, <2>4, <2>5
<1>2. CASE Lock(u)
  <2>1. /\ request[u].pc = "merged" /\ lock = None /\ lock' = u /\ Goto(u, "file")
        /\ UNCHANGED <<mode, files, db, global>>
    BY <1>2 DEF Lock, At
  <2>2. Holder'
    BY <2>1, <1>u, GotoFields DEF Holder, Held, Request
  <2>3. Written'
    BY <2>1, <1>u, GotoFields DEF Written, Holder, Held, Request
  <2>4. SettledAgrees'
    BY <2>1 DEF SettledAgrees
  <2>5. QED
    BY <2>2, <2>3, <2>4
<1>3. CASE SaveFile(u)
  <2>1. request[u].pc = "file" /\ Goto(u, "db") /\ UNCHANGED <<mode, lock>>
    BY <1>3 DEF SaveFile, At
  <2>2. Holder' /\ lock = u /\ \A w \in Update \ {u} : request'[w].pc \notin Held
    BY <2>1, HolderMoves DEF Held
  <2>3. request'[u].pc = "db" /\ request'[u].kind = request[u].kind /\ request'[u].next = request[u].next
    BY <2>1, <1>u, GotoFields
  <2>4. Written'
    BY <1>3, <2>1, <2>2, <2>3, PathIsPlace DEF SaveFile, Written, Held, Path, ConfigTypeOK
  <2>5. SettledAgrees'
    BY <2>1, <2>2 DEF SettledAgrees
  <2>6. QED
    BY <2>2, <2>4, <2>5
<1>4. CASE FileFails(u)
  <2>1. request[u].pc = "file" /\ Goto(u, "done") /\ lock' = None /\ log'.last = "refused"
    BY <1>4 DEF FileFails, At, Answer, ConfigTypeOK
  <2>2. Holder' /\ \A w \in Update : request'[w].pc \notin Held
    BY <2>1, HolderLeaves DEF Held
  <2>3. QED
    BY <2>1, <2>2 DEF Written, SettledAgrees
<1>5. CASE SaveDb(u)
  <2>1. request[u].pc = "db" /\ Goto(u, "global") /\ UNCHANGED <<mode, lock>>
    BY <1>5 DEF SaveDb, At
  <2>2. Holder' /\ lock = u /\ \A w \in Update \ {u} : request'[w].pc \notin Held
    BY <2>1, HolderMoves DEF Held
  <2>3. request'[u].pc = "global" /\ request'[u].kind = request[u].kind /\ request'[u].next = request[u].next
    BY <2>1, <1>u, GotoFields
  <2>4. Written'
    BY <1>5, <2>1, <2>2, <2>3, PathIsPlace DEF SaveDb, Written, Held, Path, ConfigTypeOK
  <2>5. SettledAgrees'
    BY <2>1, <2>2 DEF SettledAgrees
  <2>6. QED
    BY <2>2, <2>4, <2>5
<1>6. CASE DbFails(u)
  <2>1. request[u].pc = "db" /\ Goto(u, "rollback") /\ UNCHANGED <<mode, lock>>
    BY <1>6 DEF DbFails, At
  <2>2. Holder' /\ lock = u /\ \A w \in Update \ {u} : request'[w].pc \notin Held
    BY <2>1, HolderMoves DEF Held
  <2>3. request'[u].pc = "rollback" /\ request'[u].kind = request[u].kind /\ request'[u].next = request[u].next
    BY <2>1, <1>u, GotoFields
  <2>4. Written'
    BY <1>6, <2>1, <2>2, <2>3, PathIsPlace DEF DbFails, Written, Held, Path, ConfigTypeOK
  <2>5. SettledAgrees'
    BY <2>1, <2>2 DEF SettledAgrees
  <2>6. QED
    BY <2>2, <2>4, <2>5
<1>7. CASE SetGlobal(u)
  <2>1. request[u].pc = "global" /\ Goto(u, "refresh") /\ UNCHANGED <<mode, lock>>
    BY <1>7 DEF SetGlobal, At
  <2>2. Holder' /\ lock = u /\ \A w \in Update \ {u} : request'[w].pc \notin Held
    BY <2>1, HolderMoves DEF Held
  <2>3. request'[u].pc = "refresh" /\ request'[u].kind = request[u].kind /\ request'[u].next = request[u].next
    BY <2>1, <1>u, GotoFields
  <2>4. Written'
    BY <1>7, <2>1, <2>2, <2>3, PathIsPlace DEF SetGlobal, Written, Held, Path, ConfigTypeOK
  <2>5. SettledAgrees'
    BY <2>1, <2>2 DEF SettledAgrees
  <2>6. QED
    BY <2>2, <2>4, <2>5
<1>8. CASE RefreshFails(u)
  <2>1. request[u].pc = "refresh" /\ Goto(u, "rollback") /\ UNCHANGED <<mode, lock>>
    BY <1>8 DEF RefreshFails, At
  <2>2. Holder' /\ lock = u /\ \A w \in Update \ {u} : request'[w].pc \notin Held
    BY <2>1, HolderMoves DEF Held
  <2>3. request'[u].pc = "rollback" /\ request'[u].kind = request[u].kind /\ request'[u].next = request[u].next
    BY <2>1, <1>u, GotoFields
  <2>4. Written'
    BY <1>8, <2>1, <2>2, <2>3, PathIsPlace DEF RefreshFails, Written, Held, Path, ConfigTypeOK
  <2>5. SettledAgrees'
    BY <2>1, <2>2 DEF SettledAgrees
  <2>6. QED
    BY <2>2, <2>4, <2>5
<1>9. CASE ReadSwitch(u)
  <2>1. /\ request[u].pc = "refresh" /\ request'[u].pc = "apply"
        /\ request'[u].kind = request[u].kind /\ request'[u].next = request[u].next
        /\ \A w \in Update \ {u} : request'[w] = request[w]
    BY <1>9 DEF ReadSwitch, At, ConfigTypeOK, Record
  <2>2. UNCHANGED <<mode, up, global, committed, lock, files, db, log>>
    BY <1>9 DEF ReadSwitch
  <2>3. Holder'
    BY <2>1, <2>2 DEF Holder, Held
  <2>4. Written'
    BY <2>1, <2>2 DEF Written, Held, Path
  <2>5. SettledAgrees'
    BY <2>2 DEF SettledAgrees, Path
  <2>6. QED
    BY <2>3, <2>4, <2>5
<1>10. CASE Commit(u)
  <2>1. request[u].pc \in {"refresh", "commit"} /\ Goto(u, "done") /\ lock' = None
    BY <1>10 DEF Commit, At, Answer
  <2>2. Holder' /\ \A w \in Update : request'[w].pc \notin Held
    BY <2>1, HolderLeaves DEF Held
  <2>3. /\ committed'.kind = request[u].kind /\ committed'.content = request[u].next
        /\ UNCHANGED <<mode, global, files, db>>
    BY <1>10 DEF Commit
  <2>4. global = request[u].next /\ db = request[u].next
        /\ files[Path(request[u].kind)] = request[u].next
    BY <2>1 DEF Written, Held
  <2>5. SettledAgrees'
    BY <2>3, <2>4 DEF SettledAgrees, Path
  <2>6. QED
    BY <2>2, <2>5 DEF Written
<1>11. CASE Rollback(u)
  <2>1. request[u].pc = "rollback" /\ Goto(u, "done") /\ lock' = None /\ log'.last = "refused"
    BY <1>11 DEF Rollback, At, Answer, ConfigTypeOK
  <2>2. Holder' /\ \A w \in Update : request'[w].pc \notin Held
    BY <2>1, HolderLeaves DEF Held
  <2>3. QED
    BY <2>1, <2>2 DEF Written, SettledAgrees
<1>12. QED
  BY <1>1, <1>2, <1>3, <1>4, <1>5, <1>6, <1>7, <1>8, <1>9, <1>10, <1>11

\* The routing store is none of the things that have to agree.
LEMMA RoutingStepAgrees ==
    ASSUME CommitInv, RoutingStep
    PROVE  (Holder /\ Written /\ SettledAgrees)'
<1> USE ConfigAssumption DEF CommitInv
<1> PICK r \in Request : Apply(r) \/ PersistRead(r) \/ PersistWrite(r)
  BY DEF RoutingStep, Request
<1>1. PICK pc \in {"persist", "persisting", "commit", "done"} :
         /\ Goto(r, pc)
         /\ r \in Update => pc # "done" /\ request[r].pc \in {"apply", "persist", "persisting"}
  BY DEF Apply, PersistRead, PersistWrite, At, Request
<1>2. UNCHANGED <<mode, up, global, committed, lock, files, db, log>>
  BY DEF Apply, PersistRead, PersistWrite
<1>3. /\ request'[r].pc = pc /\ request'[r].kind = request[r].kind /\ request'[r].next = request[r].next
      /\ \A w \in Request \ {r} : request'[w] = request[w]
  BY <1>1, GotoFields
<1>4. Holder'
  BY <1>1, <1>2, <1>3 DEF Holder, Held, Request
<1>5. Written'
  BY <1>1, <1>2, <1>3 DEF Written, Held, Path, Request
<1>6. SettledAgrees'
  BY <1>2 DEF SettledAgrees, Path
<1>7. QED
  BY <1>4, <1>5, <1>6

\* A crash frees the mutex and a restart begins with nothing acknowledged.
LEMMA CrashAgrees ==
    ASSUME CommitInv, Crash \/ Restart
    PROVE  (Holder /\ Written /\ SettledAgrees)'
<1> USE ConfigAssumption DEF CommitInv
<1>1. CASE Crash
  <2>1. up' = FALSE /\ lock' = None
    BY <1>1 DEF Crash
  <2>2. \A u \in Update : request'[u].pc \in {"new", "done"}
    BY <1>1 DEF Crash, ConfigTypeOK, Record
  <2>3. QED
    BY <2>1, <2>2 DEF Holder, Written, SettledAgrees, Held
<1>2. CASE Restart
  <2>1. UNCHANGED <<mode, files, db, lock, request>> /\ log'.last = "none"
    BY <1>2 DEF Restart, ConfigTypeOK
  <2>2. \A u \in Update : request[u].pc \notin Held
    BY <1>2 DEF Restart, DownIsFree, Holder
  <2>3. QED
    BY <2>1, <2>2 DEF Holder, Written, SettledAgrees
<1>3. QED
  BY <1>1, <1>2

\* Only a running process saves.
LEMMA StepRuns ==
    ASSUME CommitStep \/ RoutingStep
    PROVE  up /\ UNCHANGED up
<1>1. CASE CommitStep
  <2>1. PICK u \in Update : \/ \E kind \in {"core", "customer"} : Merge(u, kind)
                           \/ Lock(u) \/ SaveFile(u) \/ FileFails(u) \/ SaveDb(u) \/ DbFails(u)
                           \/ SetGlobal(u) \/ RefreshFails(u) \/ ReadSwitch(u) \/ Commit(u)
                           \/ Rollback(u)
    BY <1>1 DEF CommitStep
  <2>2. (\E kind \in {"core", "customer"} : Merge(u, kind)) => up /\ UNCHANGED up
    BY DEF Merge, At
  <2>3. Lock(u) => up /\ UNCHANGED up
    BY DEF Lock, At
  <2>4. SaveFile(u) => up /\ UNCHANGED up
    BY DEF SaveFile, At
  <2>5. FileFails(u) => up /\ UNCHANGED up
    BY DEF FileFails, At
  <2>6. SaveDb(u) => up /\ UNCHANGED up
    BY DEF SaveDb, At
  <2>7. DbFails(u) => up /\ UNCHANGED up
    BY DEF DbFails, At
  <2>8. SetGlobal(u) => up /\ UNCHANGED up
    BY DEF SetGlobal, At
  <2>9. RefreshFails(u) => up /\ UNCHANGED up
    BY DEF RefreshFails, At
  <2>10. ReadSwitch(u) => up /\ UNCHANGED up
    BY DEF ReadSwitch, At
  <2>11. Commit(u) => up /\ UNCHANGED up
    BY DEF Commit, At
  <2>12. Rollback(u) => up /\ UNCHANGED up
    BY DEF Rollback, At
  <2>13. QED
    BY <2>1, <2>2, <2>3, <2>4, <2>5, <2>6, <2>7, <2>8, <2>9, <2>10, <2>11, <2>12
<1>2. CASE RoutingStep
  <2>1. PICK r \in Request : Apply(r) \/ PersistRead(r) \/ PersistWrite(r)
    BY <1>2 DEF RoutingStep, Request
  <2>2. Apply(r) => up /\ UNCHANGED up
    BY DEF Apply, At
  <2>3. PersistRead(r) => up /\ UNCHANGED up
    BY DEF PersistRead, At
  <2>4. PersistWrite(r) => up /\ UNCHANGED up
    BY DEF PersistWrite, At
  <2>5. QED
    BY <2>1, <2>2, <2>3, <2>4
<1>3. QED
  BY <1>1, <1>2

\* The mutex, the writes under it and their agreement are kept by every step.
LEMMA CommitInvariance == ConfigSpec => []CommitInv
<1>1. ConfigInit => CommitInv
  <2> SUFFICES ASSUME ConfigInit PROVE CommitInv
    OBVIOUS
  <2>1. \A u \in Update : request[u].pc = "new"
    BY DEF ConfigInit
  <2>2. lock = None /\ committed = None /\ log.last = "none"
    BY DEF ConfigInit
  <2>3. QED
    BY <2>1, <2>2, ConfigInitTyped, ConfigAssumption
    DEF CommitInv, Holder, Written, SettledAgrees, Held, DownIsFree
<1>2. ASSUME CommitInv, [ConfigNext]_vars PROVE CommitInv'
  <2>1. CASE UNCHANGED vars
    BY <1>2, <2>1 DEF CommitInv, ConfigTypeOK, Holder, Written, SettledAgrees, Path, DownIsFree, vars
  <2>2. CASE ConfigNext
    <3>1. ConfigTypeOK'
      BY <1>2, <2>2, CommitStepTyped, RoutingStepTyped, CrashTyped, RestartTyped
      DEF CommitInv, ConfigNext
    <3>2. DownIsFree'
      <4>1. CASE CommitStep \/ RoutingStep
        BY <4>1, StepRuns DEF DownIsFree
      <4>2. CASE Crash \/ Restart
        BY <4>2 DEF DownIsFree, Crash, Restart
      <4>4. QED
        BY <2>2, <4>1, <4>2 DEF ConfigNext
    <3>3. QED
      BY <1>2, <2>2, <3>1, <3>2, CommitStepAgrees, RoutingStepAgrees, CrashAgrees DEF CommitInv, ConfigNext
  <2>3. QED
    BY <1>2, <2>1, <2>2
<1>3. QED
  BY <1>1, <1>2, PTL DEF ConfigSpec

\* Whatever saves run at once, fail or are lost in a crash: when the latest one
\* was acknowledged and none is under way, memory, file and database agree.
THEOREM SettledAlwaysAgrees == ConfigSpec => []SettledAgrees
<1>1. CommitInv => SettledAgrees
  BY DEF CommitInv
<1>2. QED
  BY <1>1, CommitInvariance, PTL

-----------------------------------------------------------------------------
\* The steps of a save that are not about routing.json leave its writers alone.
LEMMA CommitStepElsewhere ==
    ASSUME ConfigTypeOK, CommitStep
    PROVE  /\ UNCHANGED routing
           /\ \E u \in Request : /\ request[u].pc \notin {"persist", "persisting"}
                                 /\ request'[u].pc \notin {"persist", "persisting"}
                                 /\ \A w \in Request \ {u} : request'[w] = request[w]
<1> DEFINE Aside(u) == /\ request[u].pc \notin {"persist", "persisting"}
                       /\ request'[u].pc \notin {"persist", "persisting"}
                       /\ \A w \in Request \ {u} : request'[w] = request[w]
<1> PICK u \in Update : \/ \E kind \in {"core", "customer"} : Merge(u, kind)
                        \/ Lock(u) \/ SaveFile(u) \/ FileFails(u) \/ SaveDb(u) \/ DbFails(u)
                        \/ SetGlobal(u) \/ RefreshFails(u) \/ ReadSwitch(u) \/ Commit(u) \/ Rollback(u)
  BY DEF CommitStep
<1>u. u \in Request
  BY DEF Request
<1>1. ASSUME NEW kind \in {"core", "customer"}, Merge(u, kind) PROVE Aside(u) /\ UNCHANGED routing
  BY <1>1 DEF Merge, At, ConfigTypeOK, Request
<1>2. CASE Lock(u)
  BY <1>2, <1>u, GotoFields DEF Lock, At
<1>3. CASE SaveFile(u)
  BY <1>3, <1>u, GotoFields DEF SaveFile, At
<1>4. CASE FileFails(u)
  BY <1>4, <1>u, GotoFields DEF FileFails, At, Answer
<1>5. CASE SaveDb(u)
  BY <1>5, <1>u, GotoFields DEF SaveDb, At
<1>6. CASE DbFails(u)
  BY <1>6, <1>u, GotoFields DEF DbFails, At
<1>7. CASE SetGlobal(u)
  BY <1>7, <1>u, GotoFields DEF SetGlobal, At
<1>8. CASE RefreshFails(u)
  BY <1>8, <1>u, GotoFields DEF RefreshFails, At
<1>9. CASE ReadSwitch(u)
  BY <1>9 DEF ReadSwitch, At, ConfigTypeOK, Record, Request
<1>10. CASE Commit(u)
  BY <1>10, <1>u, GotoFields DEF Commit, At, Answer
<1>11. CASE Rollback(u)
  BY <1>11, <1>u, GotoFields DEF Rollback, At, Answer
<1>12. QED
  BY <1>u, <1>1, <1>2, <1>3, <1>4, <1>5, <1>6, <1>7, <1>8, <1>9, <1>10, <1>11

\* A save leaves routing.json and its writers as they are.
LEMMA CommitStepPersists ==
    ASSUME PersistInv, CommitStep
    PROVE  (Writer /\ Fresh)'
<1>1. UNCHANGED routing
  BY CommitStepElsewhere DEF PersistInv
<1>2. PICK u \in Request : /\ request[u].pc \notin {"persist", "persisting"}
                           /\ request'[u].pc \notin {"persist", "persisting"}
                           /\ \A w \in Request \ {u} : request'[w] = request[w]
  BY CommitStepElsewhere DEF PersistInv
<1>3. \A w \in Request : (request'[w].pc = "persist" <=> request[w].pc = "persist")
                         /\ (request'[w].pc = "persisting" <=> request[w].pc = "persisting")
  BY <1>2
<1>4. up
  BY StepRuns
<1>5. QED
  BY <1>1, <1>3, <1>4 DEF PersistInv, Writer, Fresh

\* A writer carries the latest schema, or another one still has to read it.
LEMMA RoutingStepPersists ==
    ASSUME PersistInv, RoutingStep
    PROVE  (Writer /\ Fresh)'
<1> USE ConfigAssumption DEF PersistInv
<1> PICK r \in Request : Apply(r) \/ PersistRead(r) \/ PersistWrite(r)
  BY DEF RoutingStep, Request
<1>0. up
  BY StepRuns
<1>1. CASE Apply(r)
  <2>1. /\ request[r].pc \in {"apply", "new"} /\ Goto(r, "persist")
        /\ routing'.writer = routing.writer
    BY <1>1 DEF Apply, At, ConfigTypeOK
  <2>2. /\ request'[r].pc = "persist"
        /\ \A w \in Request \ {r} : request'[w] = request[w]
    BY <2>1, GotoFields
  <2>3. QED
    BY <2>1, <2>2 DEF Writer, Fresh
<1>2. CASE PersistRead(r)
  <2>1. /\ request[r].pc = "persist" /\ Goto(r, "persisting")
        /\ routing.writer = None /\ routing'.writer = r
        /\ routing'.writing = routing.active /\ routing'.active = routing.active
    BY <1>2 DEF PersistRead, At, ConfigTypeOK
  <2>2. /\ request'[r].pc = "persisting"
        /\ \A w \in Request \ {r} : request'[w] = request[w]
    BY <2>1, GotoFields
  <2>3. r # None
    BY DEF Request
  <2>4. QED
    BY <2>1, <2>2, <2>3 DEF Writer, Fresh, Request
<1>3. CASE PersistWrite(r)
  <2>1. /\ request[r].pc = "persisting" /\ Goto(r, IF r \in Put THEN "done" ELSE "commit")
        /\ routing'.writer = None /\ routing'.active = routing.active
        /\ routing'.unsaved \/ routing'.disk = routing.writing
    BY <1>3 DEF PersistWrite, At, ConfigTypeOK
  <2>2. /\ request'[r].pc \in {"done", "commit"}
        /\ \A w \in Request \ {r} : request'[w] = request[w]
    BY <2>1, GotoFields
  <2>3. routing.writer = r /\ r # None
    BY <2>1 DEF Writer, Request
  <2>4. Writer'
    BY <2>1, <2>2, <2>3 DEF Writer, Request
  <2>5. Fresh'
    <3>1. CASE \E w \in Request : request[w].pc = "persist"
      BY <2>1, <2>2, <3>1 DEF Fresh
    <3>2. CASE routing.writing = routing.active
      BY <2>1, <3>2 DEF Fresh
    <3>3. QED
      BY <1>0, <2>3, <3>1, <3>2 DEF Fresh
  <2>6. QED
    BY <2>4, <2>5
<1>4. QED
  BY <1>1, <1>2, <1>3

\* After a restart the store holds what the file holds.
LEMMA CrashPersists ==
    ASSUME PersistInv, Crash \/ Restart
    PROVE  (Writer /\ Fresh)'
<1> USE ConfigAssumption DEF PersistInv
<1>1. CASE Crash
  <2>1. up' = FALSE /\ routing'.writer = None
    BY <1>1 DEF Crash, ConfigTypeOK
  <2>2. \A r \in Request : request'[r].pc \in {"new", "done"}
    BY <1>1 DEF Crash, ConfigTypeOK, Record, Request
  <2>3. QED
    BY <2>1, <2>2 DEF Writer, Fresh, Request
<1>2. CASE Restart
  <2>1. /\ request' = request /\ routing'.writer = routing.writer
        /\ routing'.disk = routing'.active
    BY <1>2 DEF Restart, ConfigTypeOK
  <2>2. routing.writer = None
    BY <1>2 DEF Restart, Quiet
  <2>3. QED
    BY <2>1, <2>2 DEF Writer, Fresh
<1>3. QED
  BY <1>1, <1>2

\* Whatever saves and routing updates run at once: when every one has written
\* and the latest write worked, routing.json holds what the store holds.
THEOREM PersistedIsAlwaysActive == ConfigSpec => []PersistedIsActive
<1>1. ConfigInit => PersistInv
  <2> SUFFICES ASSUME ConfigInit PROVE PersistInv
    OBVIOUS
  <2>1. \A r \in Request : request[r].pc = "new"
    BY DEF ConfigInit, Request
  <2>2. routing.writer = None /\ routing.disk = routing.active
    BY DEF ConfigInit
  <2>3. QED
    BY <2>1, <2>2, ConfigInitTyped, ConfigAssumption DEF PersistInv, Writer, Fresh, Quiet, Request
<1>2. ASSUME PersistInv, [ConfigNext]_vars PROVE PersistInv'
  <2>1. CASE UNCHANGED vars
    BY <1>2, <2>1 DEF PersistInv, ConfigTypeOK, Writer, Fresh, Quiet, vars
  <2>2. CASE ConfigNext
    <3>1. ConfigTypeOK'
      BY <1>2, <2>2, CommitStepTyped, RoutingStepTyped, CrashTyped, RestartTyped
      DEF PersistInv, ConfigNext
    <3>2. Quiet'
      <4>1. CASE CommitStep \/ RoutingStep
        BY <4>1, StepRuns DEF Quiet
      <4>2. CASE Crash
        BY <1>2, <4>2 DEF Quiet, Crash, PersistInv, ConfigTypeOK
      <4>3. CASE Restart
        BY <4>3 DEF Quiet, Restart
      <4>4. QED
        BY <2>2, <4>1, <4>2, <4>3 DEF ConfigNext
    <3>3. QED
      BY <1>2, <2>2, <3>1, <3>2, CommitStepPersists, RoutingStepPersists, CrashPersists
      DEF PersistInv, ConfigNext
  <2>3. QED
    BY <1>2, <2>1, <2>2
<1>3. PersistInv => PersistedIsActive
  <2> SUFFICES ASSUME PersistInv, up, ~routing.unsaved,
                      \A r \in Request : request[r].pc \notin {"persist", "persisting"}
               PROVE  routing.disk = routing.active
    BY DEF PersistedIsActive, Request
  <2>1. routing.writer \in Request \cup {None}
    BY DEF PersistInv, ConfigTypeOK, Request
  <2>2. routing.writer = None
    BY <2>1 DEF PersistInv, Writer
  <2>3. QED
    BY <2>2 DEF PersistInv, Fresh
<1>4. QED
  BY <1>1, <1>2, <1>3, PTL DEF ConfigSpec

-----------------------------------------------------------------------------
\* What no request has set is strange to every one.
LEMMA FixedIsStrange ==
    \A u \in Update : /\ Stranger(u, None)
                      /\ Stranger(u, Torn)
                      /\ Stranger(u, Both(Initial))
                      /\ Stranger(u, Both(Default))
BY ConfigAssumption DEF Stranger, Torn, Both

\* A save under way spreads its own configuration, or puts back what is there:
\* what waits stays unseen.
LEMMA UnseenKept ==
    ASSUME ConfigTypeOK, Unseen, Own, NEW u \in Update, request[u].pc \in Held,
           request'[u].pc \in Held \cup {"done"}, request'[u].next = request[u].next,
           \A w \in Update \ {u} : request'[w] = request[w],
           global' \in {global, request[u].next},
           db' \in {db, request[u].next},
           \A place \in Place :
               \/ files'[place] \in {files[place], request[u].next, Torn, None}
               \/ committed # None /\ files'[place] = committed.content,
           committed' = committed \/ committed'.content = request[u].next
    PROVE  (Unseen /\ Own)'
<1>1. ASSUME NEW v \in Update, request'[v].pc \in {"new", "merged"}
      PROVE  /\ request[v].pc \in {"new", "merged"} /\ request'[v] = request[v] /\ v # u
             /\ Stranger(v, request[u].next)
  <2>1. v # u
    BY <1>1 DEF Held
  <2>2. QED
    BY <1>1, <2>1 DEF Unseen
<1>2. ASSUME NEW v \in Update, request'[v].pc \in {"new", "merged"}
      PROVE  /\ Stranger(v, global')
             /\ Stranger(v, db')
             /\ committed' # None => Stranger(v, committed'.content)
  BY <1>1, <1>2 DEF Unseen
<1>3. ASSUME NEW v \in Update, request'[v].pc \in {"new", "merged"}, NEW place \in Place
      PROVE  Stranger(v, files'[place])
  <2>1. CASE files'[place] = files[place]
    BY <1>1, <1>3, <2>1 DEF Unseen
  <2>2. CASE files'[place] = request[u].next
    BY <1>1, <1>3, <2>2
  <2>3. CASE files'[place] \in {Torn, None}
    BY <2>3, FixedIsStrange
  <2>4. CASE committed # None /\ files'[place] = committed.content
    BY <1>1, <1>3, <2>4 DEF Unseen
  <2>5. QED
    BY <2>1, <2>2, <2>3, <2>4
<1>4. ASSUME NEW v \in Update, request'[v].pc \in {"new", "merged"}, NEW w \in Update \ {v}
      PROVE  Stranger(v, request'[w].next)
  BY <1>1, <1>4 DEF Unseen
<1>5. Unseen'
  BY <1>2, <1>3, <1>4 DEF Unseen, Stranger
<1>6. Own'
  BY <1>1 DEF Own, Stranger
<1>7. QED
  BY <1>5, <1>6

\* A request that moves on and writes nothing that a start reads.
LEMMA AsideKeeps ==
    ASSUME CommitInv, RestartInv, NEW r \in Request,
           request'[r].kind = request[r].kind, request'[r].next = request[r].next,
           \A w \in Request \ {r} : request'[w] = request[w],
           r \in Update => request[r].pc \in Held /\ request'[r].pc \in Held,
           UNCHANGED <<mode, global, db, files, committed, log>>
    PROVE  RestartInv'
<1> USE DEF CommitInv, RestartInv
<1>1. \A u \in Update : /\ request'[u].kind = request[u].kind /\ request'[u].next = request[u].next
                        /\ request'[u].pc \in Held => request[u].pc \in Held
                        /\ request'[u].pc \in {"new", "merged"} => request'[u].pc = request[u].pc
  BY DEF Request, Held
<1>2. (Unseen /\ Own)'
  BY <1>1 DEF Unseen, Own, Stranger
<1>3. (Elsewhere /\ Underway)'
  BY <1>1 DEF Elsewhere, Underway, Path
<1>4. (Acknowledged /\ Recorded)'
  BY DEF Acknowledged, Recorded, Path
<1>5. QED
  BY <1>2, <1>3, <1>4

\* A request that merges sets its own part and no other's.
LEMMA MergeKeeps ==
    ASSUME CommitInv, RestartInv, NEW u \in Update, NEW kind \in {"core", "customer"}, Merge(u, kind)
    PROVE  RestartInv'
<1> USE DEF CommitInv, RestartInv
<1>1. /\ request[u].pc = "new" /\ request'[u].pc = "merged"
      /\ request'[u].next = [global EXCEPT ![kind] = u]
      /\ \A w \in Update \ {u} : request'[w] = request[w]
  BY DEF Merge, At, ConfigTypeOK
<1>2. UNCHANGED <<mode, up, global, boot, committed, lock, files, db, routing, log>>
  BY DEF Merge
<1>3. global \in Config
  BY DEF ConfigTypeOK
<1>4. request'[u].next \in Config /\ ~Stranger(u, request'[u].next)
  <2>1. request'[u].next \in Config
    BY <1>1, <1>3 DEF Config, Part
  <2>2. request'[u].next.core = u \/ request'[u].next.customer = u
    BY <1>1, <1>3 DEF Config
  <2>3. QED
    BY <2>1, <2>2, NoneAssumption DEF Stranger
<1>5. \A v \in Update \ {u} : Stranger(v, global) => Stranger(v, request'[u].next)
  <2>1. global # None
    BY <1>3, NoneAssumption
  <2>2. QED
    BY <1>1, <1>3, <2>1 DEF Stranger, Config
<1>6. Unseen'
  <2>1. ASSUME NEW v \in Update, request'[v].pc \in {"new", "merged"}, NEW w \in Update \ {v}
        PROVE  Stranger(v, request'[w].next)
    BY <1>1, <1>5, <2>1 DEF Unseen
  <2>2. ASSUME NEW v \in Update, request'[v].pc \in {"new", "merged"}
        PROVE  request[v].pc \in {"new", "merged"}
    BY <1>1, <2>2
  <2>3. QED
    BY <1>2, <2>1, <2>2 DEF Unseen, Stranger
<1>7. Own'
  BY <1>1, <1>4 DEF Own, Stranger
<1>8. (Elsewhere /\ Underway)'
  BY <1>1, <1>2 DEF Elsewhere, Underway, Path, Held
<1>9. (Acknowledged /\ Recorded)'
  BY <1>2 DEF Acknowledged, Recorded, Path
<1>10. QED
  BY <1>6, <1>7, <1>8, <1>9

\* What was unseen until now is in no other file.
LEMMA LockKeeps ==
    ASSUME CommitInv, RestartInv, NEW u \in Update, Lock(u)
    PROVE  RestartInv'
<1> USE DEF CommitInv, RestartInv
<1>u. u \in Request
  BY DEF Request
<1>1. /\ request[u].pc = "merged" /\ Goto(u, "file")
      /\ UNCHANGED <<mode, up, global, boot, committed, files, db, routing>>
  BY DEF Lock, At
<1>2. /\ request'[u].pc = "file" /\ request'[u].kind = request[u].kind /\ request'[u].next = request[u].next
      /\ \A w \in Update \ {u} : request'[w] = request[w]
  BY <1>u, <1>1, GotoFields DEF Request
<1>3. /\ log'.tried = log.tried \cup {request[u].next}
      /\ log'.path = log.path /\ log'.acked = log.acked
  BY DEF Lock, ConfigTypeOK
<1>4. (Unseen /\ Own)'
  BY <1>1, <1>2 DEF Unseen, Own, Stranger
<1>5. \A place \in Place : files[place] # request[u].next
  BY <1>1 DEF Unseen, Own
<1>6. Elsewhere'
  BY <1>1, <1>2, <1>5 DEF Elsewhere, Path
<1>7. Underway'
  BY <1>2, <1>3 DEF Underway
<1>8. (Acknowledged /\ Recorded)'
  BY <1>1, <1>3 DEF Acknowledged, Recorded, Path
<1>9. QED
  BY <1>4, <1>6, <1>7, <1>8

\* A save under way writes the file of its part, the database or memory.
LEMMA SaveKeeps ==
    ASSUME CommitInv, RestartInv, NEW u \in Update, SaveFile(u) \/ SaveDb(u) \/ SetGlobal(u)
    PROVE  RestartInv'
<1> USE DEF CommitInv, RestartInv
<1> DEFINE path == Path(request[u].kind)
           next == request[u].next
<1>u. u \in Request
  BY DEF Request
<1>1. PICK pc \in {"db", "global", "refresh"} : Goto(u, pc)
  BY DEF SaveFile, SaveDb, SetGlobal
<1>2. request[u].pc \in Held /\ UNCHANGED <<mode, committed, log>>
  BY DEF SaveFile, SaveDb, SetGlobal, At, Held
<1>3. /\ request'[u].pc = pc /\ request'[u].kind = request[u].kind /\ request'[u].next = next
      /\ \A w \in Update \ {u} : request'[w] = request[w]
  BY <1>u, <1>1, GotoFields DEF Request
<1>4. /\ files' \in {files, [files EXCEPT ![path] = next]}
      /\ db' \in {db, next}
      /\ global' \in {global, next}
  BY DEF SaveFile, SaveDb, SetGlobal
<1>5. \A place \in Place : /\ place # path => files'[place] = files[place]
                           /\ files'[place] \in {files[place], next}
  BY <1>4 DEF ConfigTypeOK
<1>6. (Unseen /\ Own)'
  BY <1>2, <1>3, <1>4, <1>5, UnseenKept DEF Held
<1>7. \A w \in Update \ {u} : request[w].pc \notin Held
  BY <1>2, ConfigAssumption DEF Holder
<1>8. Elsewhere'
  BY <1>2, <1>3, <1>5, <1>7 DEF Elsewhere, Path
<1>9. Underway'
  BY <1>2, <1>3 DEF Underway
<1>10. next \in log.tried
  BY <1>2 DEF Underway
<1>11. (Acknowledged /\ Recorded)'
  BY <1>2, <1>4, <1>5, <1>10 DEF Acknowledged, Recorded, Path
<1>12. QED
  BY <1>6, <1>8, <1>9, <1>11

\* A save that gives the mutex up leaves no save under way.
LEMMA LeavesKeeps ==
    ASSUME CommitInv, Elsewhere, Underway, NEW u \in Update, request[u].pc \in Held, Goto(u, "done")
    PROVE  (Elsewhere /\ Underway)'
<1>1. \A w \in Update : request'[w].pc \notin Held
  <2>1. \A w \in Update \ {u} : request[w].pc \notin Held
    BY ConfigAssumption DEF CommitInv, Holder
  <2>2. QED
    BY <2>1, GotoFields DEF CommitInv, Held, Request
<1>2. QED
  BY <1>1 DEF Elsewhere, Underway

\* A file that could not be written is the old one, the new one or torn.
LEMMA FileFailsKeeps ==
    ASSUME CommitInv, RestartInv, NEW u \in Update, FileFails(u)
    PROVE  RestartInv'
<1> USE DEF CommitInv, RestartInv
<1>u. u \in Request
  BY DEF Request
<1>1. /\ request[u].pc \in Held /\ Goto(u, "done")
      /\ UNCHANGED <<mode, up, global, boot, committed, db, routing>>
  BY DEF FileFails, At, Answer, Held
<1>2. /\ request'[u].pc = "done" /\ request'[u].next = request[u].next
      /\ \A w \in Update \ {u} : request'[w] = request[w]
  BY <1>u, <1>1, GotoFields DEF Request
<1>3. log'.path = log.path /\ log'.acked = log.acked /\ log'.tried = log.tried
  BY DEF FileFails, Answer, ConfigTypeOK
<1>4. \A place \in Place : files'[place] \in {files[place], request[u].next, Torn}
  BY DEF FileFails, ConfigTypeOK
<1>5. (Unseen /\ Own)'
  BY <1>1, <1>2, <1>4, UnseenKept
<1>6. request[u].next \in log.tried
  BY <1>1 DEF Underway
<1>7. (Acknowledged /\ Recorded)'
  BY <1>1, <1>3, <1>4, <1>6 DEF Acknowledged, Recorded, Path
<1>8. QED
  BY <1>1, <1>5, <1>7, LeavesKeeps

\* What is acknowledged has been written.
LEMMA CommitKeeps ==
    ASSUME CommitInv, RestartInv, NEW u \in Update, Commit(u)
    PROVE  RestartInv'
<1> USE DEF CommitInv, RestartInv
<1>u. u \in Request
  BY DEF Request
<1>1. /\ request[u].pc \in {"refresh", "commit"} /\ Goto(u, "done")
      /\ committed'.kind = request[u].kind /\ committed'.content = request[u].next
      /\ UNCHANGED <<mode, global, files, db>>
  BY DEF Commit, At, Answer
<1>2. /\ request'[u].pc = "done" /\ request'[u].next = request[u].next
      /\ \A w \in Update \ {u} : request'[w] = request[w]
  BY <1>u, <1>1, GotoFields DEF Request
<1>3. log'.path = Path(request[u].kind) /\ log'.acked = request[u].next
  BY DEF Commit, Answer, ConfigTypeOK
<1>4. (Unseen /\ Own)'
  BY <1>1, <1>2, UnseenKept DEF Held
<1>5. files[Path(request[u].kind)] = request[u].next
  BY <1>1 DEF Written, Held
<1>6. Acknowledged'
  BY <1>1, <1>3 DEF Acknowledged, Path
<1>7. Recorded'
  <2>1. log'.path \in Place
    BY <1>3, PathIsPlace
  <2>2. QED
    BY <1>1, <1>3, <1>5, <2>1 DEF Recorded, Place
<1>8. QED
  BY <1>1, <1>4, <1>6, <1>7, LeavesKeeps DEF Held

\* A rollback puts back what was acknowledged, or leaves the save on record.
LEMMA RollbackKeeps ==
    ASSUME CommitInv, RestartInv, NEW u \in Update, Rollback(u)
    PROVE  RestartInv'
<1> USE DEF CommitInv, RestartInv
<1>u. u \in Request
  BY DEF Request
<1>1. /\ request[u].pc \in Held /\ Goto(u, "done")
      /\ UNCHANGED <<mode, up, global, boot, committed, db, routing>>
  BY DEF Rollback, At, Answer, Held
<1>2. /\ request'[u].pc = "done" /\ request'[u].next = request[u].next
      /\ \A w \in Update \ {u} : request'[w] = request[w]
  BY <1>u, <1>1, GotoFields DEF Request
<1>3. PICK undo \in BOOLEAN, rest \in {"old", "torn"} :
         LET kind    == request[u].kind
             place   == IF committed # None THEN Path(committed.kind)
                        ELSE IF kind = "core" THEN "local" ELSE None
             content == IF undo THEN (IF committed = None THEN None ELSE committed.content)
                        ELSE IF rest = "torn" /\ committed # None THEN Torn ELSE files[place]
         IN  /\ files' = IF place = None THEN files ELSE [files EXCEPT ![place] = content]
             /\ Answer(u, IF undo /\ place = Path(kind) /\ db # request[u].next
                          THEN "undone" ELSE "refused")
  BY DEF Rollback
<1> DEFINE path == Path(request[u].kind)
           place == IF committed # None THEN Path(committed.kind)
                    ELSE IF request[u].kind = "core" THEN "local" ELSE None
<1>4. /\ log'.path = log.path /\ log'.acked = log.acked
      /\ \/ log'.tried = log.tried
         \/ /\ log'.tried = log.tried \ {request[u].next}
            /\ undo /\ place = path /\ db # request[u].next
  BY <1>3 DEF Answer, ConfigTypeOK
<1>5. \A q \in Place :
         \/ files'[q] = files[q] /\ ~(undo /\ place = q)
         \/ files'[q] \in {Torn, None}
         \/ committed # None /\ Path(committed.kind) = q /\ files'[q] = committed.content
  <2>1. ASSUME place = None
        PROVE  files' = files /\ \A q \in Place : place # q
    BY <1>3, <2>1, NoneAssumption
  <2>2. ASSUME place # None
        PROVE  files' = [files EXCEPT ![place] =
                   IF undo THEN (IF committed = None THEN None ELSE committed.content)
                   ELSE IF rest = "torn" /\ committed # None THEN Torn ELSE files[place]]
    BY <1>3, <2>2
  <2>3. committed # None => place = Path(committed.kind)
    OBVIOUS
  <2>4. DOMAIN files = Place
    BY DEF ConfigTypeOK
  <2> HIDE DEF place
  <2>5. QED
    BY <2>1, <2>2, <2>3, <2>4
<1>6. (Unseen /\ Own)'
  BY <1>1, <1>2, <1>5, UnseenKept
<1>7. Acknowledged'
  BY <1>1, <1>4 DEF Acknowledged, Path
<1>8. Recorded'
  <2>1. ASSUME log.path \in Place
        PROVE  files'[log.path] \in {log.acked, Torn, None} \cup log'.tried
    <3>1. CASE files'[log.path] \in {Torn, None}
      BY <3>1
    <3>2. CASE committed # None /\ files'[log.path] = committed.content
      BY <3>2 DEF Acknowledged
    <3>3. CASE files'[log.path] = files[log.path] /\ ~(undo /\ place = log.path)
      <4>1. files[log.path] \in {log.acked, Torn, None} \cup log.tried
        BY <2>1 DEF Recorded
      <4>2. place = path /\ undo => files[log.path] # request[u].next
        BY <1>1, <2>1, <3>3 DEF Elsewhere
      <4>3. QED
        BY <1>4, <3>3, <4>1, <4>2
    <3>4. QED
      BY <1>5, <2>1, <3>1, <3>2, <3>3
  <2>2. log.path = "database" => db \in {log.acked} \cup log'.tried
    BY <1>4 DEF Recorded
  <2>3. QED
    BY <1>1, <1>4, <2>1, <2>2 DEF Recorded
<1>9. QED
  BY <1>1, <1>6, <1>7, <1>8, LeavesKeeps

\* A crash tears at most the file that was being written.
LEMMA CrashKeeps ==
    ASSUME CommitInv, RestartInv, Crash
    PROVE  RestartInv'
<1> USE DEF CommitInv, RestartInv
<1>1. \A u \in Update : /\ request'[u].pc \in {"new", "done"}
                        /\ request'[u].next = request[u].next
                        /\ request'[u].pc = "new" => request[u].pc = "new"
  BY DEF Crash, ConfigTypeOK, Record
<1>2. committed' = None /\ UNCHANGED <<mode, global, db>>
  BY DEF Crash
<1>3. \A place \in Place : files'[place] \in {files[place], Torn}
  BY DEF Crash, ConfigTypeOK
<1>4. log'.path = log.path /\ log'.acked = log.acked /\ log'.tried = log.tried
  BY DEF Crash, ConfigTypeOK
<1>5. Unseen'
  <2>1. ASSUME NEW u \in Update, request'[u].pc \in {"new", "merged"}, NEW place \in Place
        PROVE  Stranger(u, files'[place])
    BY <1>1, <1>3, <2>1, FixedIsStrange DEF Unseen
  <2>2. QED
    BY <1>1, <1>2, <2>1 DEF Unseen, Stranger
<1>6. (Own /\ Elsewhere /\ Underway)'
  BY <1>1 DEF Own, Elsewhere, Underway, Held
<1>7. (Acknowledged /\ Recorded)'
  BY <1>2, <1>3, <1>4 DEF Acknowledged, Recorded
<1>8. QED
  BY <1>5, <1>6, <1>7

\* What a start finds is on record as acknowledged.
LEMMA StartKeeps ==
    ASSUME CommitInv, RestartInv, Restart
    PROVE  RestartInv'
<1> USE DEF CommitInv, RestartInv
<1>1. UNCHANGED <<mode, files, db, committed, lock, request>> /\ ~up
  BY DEF Restart
<1>2. /\ boot' = "database" => global' = db
      /\ boot' = "default" => global' = Both(Default)
      /\ boot' \in Place => global' = files[boot']
      /\ boot' \in Place \cup {"database", "default"}
  <2>1. Source' \in Place \cup {"database", "default"}
    BY <1>1, SourceHasFile DEF Restart, Source, Path, Place
  <2>2. QED
    BY <1>1, <2>1 DEF Restart, Load, Place
<1>3. log'.path = boot' /\ log'.acked = global'
  BY DEF Restart, ConfigTypeOK
<1>4. committed = None /\ \A u \in Update : request[u].pc \notin Held
  BY <1>1, ConfigAssumption DEF DownIsFree, Holder
<1>5. Unseen'
  <2>1. ASSUME NEW u \in Update, request[u].pc \in {"new", "merged"}
        PROVE  Stranger(u, global')
    BY <1>2, <2>1, FixedIsStrange DEF Unseen
  <2>2. QED
    BY <1>1, <2>1 DEF Unseen, Stranger
<1>6. (Own /\ Elsewhere /\ Underway)'
  BY <1>1, <1>4 DEF Own, Elsewhere, Underway, Stranger
<1>7. Recorded'
  BY <1>1, <1>2, <1>3 DEF Recorded, Place
<1>8. QED
  BY <1>1, <1>4, <1>5, <1>6, <1>7 DEF Acknowledged

\* Whatever saves are refused or lost in a crash: a start from the file last
\* saved runs what was acknowledged, or what was under way or not undone.
THEOREM RestartAlwaysKeepsAcked == ConfigSpec => RestartKeepsAcked
<1>1. ConfigInit => RestartInv
  <2> SUFFICES ASSUME ConfigInit PROVE RestartInv
    OBVIOUS
  <2>1. \A u \in Update : request[u].pc = "new" /\ request[u].next = None
    BY DEF ConfigInit
  <2>2. db = None /\ committed = None /\ log.path = boot /\ log.acked = global /\ boot = Source
    BY DEF ConfigInit
  <2>3. \A place \in Place : files[place] \in {None, Both(Initial)}
    BY DEF ConfigInit
  <2>4. /\ boot = "default" => global = Both(Default)
        /\ boot # "default" => global = files[boot]
    BY DEF ConfigInit
  <2>5. boot \in Place \cup {"default"}
    BY <2>2, SourceHasFile
  <2>6. Unseen
    BY <2>1, <2>2, <2>3, <2>4, <2>5, FixedIsStrange DEF Unseen
  <2>7. Own /\ Elsewhere /\ Underway
    BY <2>1 DEF Own, Elsewhere, Underway, Held
  <2>8. Acknowledged /\ Recorded
    BY <2>2, <2>4, <2>5 DEF Acknowledged, Recorded, Place
  <2>9. QED
    BY <2>6, <2>7, <2>8 DEF RestartInv
<1>2. ASSUME CommitInv, RestartInv, [ConfigNext]_vars PROVE RestartInv'
  <2>1. CASE UNCHANGED vars
    BY <1>2, <2>1 DEF RestartInv, Unseen, Stranger, Own, Elsewhere, Underway, Acknowledged,
                      Recorded, Path, vars
  <2>2. CASE CommitStep
    <3>1. PICK u \in Update : \/ \E kind \in {"core", "customer"} : Merge(u, kind)
                             \/ Lock(u) \/ SaveFile(u) \/ FileFails(u) \/ SaveDb(u) \/ DbFails(u)
                             \/ SetGlobal(u) \/ RefreshFails(u) \/ ReadSwitch(u) \/ Commit(u)
                             \/ Rollback(u)
      BY <2>2 DEF CommitStep
    <3>2. CASE DbFails(u) \/ RefreshFails(u)
      <4>1. /\ request[u].pc \in Held /\ Goto(u, "rollback")
            /\ UNCHANGED <<mode, global, db, files, committed, log>>
        BY <3>2 DEF DbFails, RefreshFails, At, Held
      <4>2. QED
        BY <1>2, <4>1, GotoFields, AsideKeeps DEF CommitInv, Request, Held
    <3>3. CASE ReadSwitch(u)
      <4>1. /\ request[u].pc = "refresh" /\ request'[u].pc = "apply"
            /\ request'[u].kind = request[u].kind /\ request'[u].next = request[u].next
            /\ \A w \in Request \ {u} : request'[w] = request[w]
        BY <1>2, <3>3 DEF ReadSwitch, At, CommitInv, ConfigTypeOK, Record, Request
      <4>2. UNCHANGED <<mode, global, db, files, committed, log>>
        BY <3>3 DEF ReadSwitch
      <4>3. QED
        BY <1>2, <4>1, <4>2, AsideKeeps DEF Request, Held
    <3>4. QED
      BY <1>2, <3>1, <3>2, <3>3, MergeKeeps, LockKeeps, SaveKeeps, FileFailsKeeps, CommitKeeps,
         RollbackKeeps
  <2>3. CASE RoutingStep
    <3>1. PICK r \in Request : Apply(r) \/ PersistRead(r) \/ PersistWrite(r)
      BY <2>3 DEF RoutingStep, Request
    <3>2. PICK pc \in {"persist", "persisting", "commit", "done"} :
             /\ Goto(r, pc)
             /\ r \in Update => pc # "done" /\ request[r].pc \in {"apply", "persist", "persisting"}
      BY <3>1, ConfigAssumption DEF Apply, PersistRead, PersistWrite, At, Request
    <3>3. UNCHANGED <<mode, global, db, files, committed, log>>
      BY <3>1 DEF Apply, PersistRead, PersistWrite
    <3>4. QED
      BY <1>2, <3>2, <3>3, GotoFields, AsideKeeps DEF CommitInv, Held
  <2>4. QED
    BY <1>2, <2>1, <2>2, <2>3, CrashKeeps, StartKeeps DEF ConfigNext
<1>3. ASSUME CommitInv, RestartInv, [ConfigNext]_vars
      PROVE  (~up /\ up' /\ boot' = log.path) => global' \in {log.acked} \cup log.tried
  <2> SUFFICES ASSUME ~up, up', boot' = log.path
               PROVE  global' \in {log.acked} \cup log.tried
    OBVIOUS
  <2>1. Restart
    BY <1>3, StepRuns DEF ConfigNext, Crash, vars
  <2>2. /\ UNCHANGED <<mode, files, db>> /\ global' # Torn
        /\ boot' = "database" => global' = db
        /\ boot' = "default" => global' = Both(Default)
        /\ boot' \in Place => global' = files[boot']
    BY <2>1 DEF Restart, Load, Place
  <2>3. boot' \in Place \cup {"database", "default"} /\ (boot' \in Place => files[boot'] # None)
    BY <2>1, <2>2, SourceHasFile DEF Restart, Load, Source, Path, Place
  <2>4. CASE boot' \in Place
    BY <1>3, <2>2, <2>3, <2>4 DEF RestartInv, Recorded
  <2>5. CASE boot' = "database"
    BY <1>3, <2>2, <2>5 DEF RestartInv, Recorded
  <2>6. CASE boot' = "default"
    BY <1>3, <2>2, <2>6 DEF RestartInv, Recorded
  <2>7. QED
    BY <2>3, <2>4, <2>5, <2>6
<1>4. QED
  BY <1>1, <1>2, <1>3, CommitInvariance, PTL DEF ConfigSpec, RestartKeepsAcked
=============================================================================
