----------------------------- MODULE ConfigCommit -----------------------------
(***************************************************************************)
(* Saving the configuration: the core and the customer service             *)
(* (src/app/http/services/core_config_service.go,                          *)
(* customer_config_service.go) merge their part into the running           *)
(* configuration, outside any lock, and commit it under the one mutex of   *)
(* the coordinator (src/processor/config/runtime_commit_coordinator.go):   *)
(* file, database, memory, and for the customer part the routing store     *)
(* (routing_apply_state.go), which the page also writes by itself.  Every  *)
(* write may fail and the process may crash between any two steps; it then *)
(* starts from what it finds (src/cmd/config.go).                          *)
(*                                                                         *)
(* A part of the configuration is named by the request that set it.  The   *)
(* coordinator's active snapshot and version, which nothing else reads, an *)
(* explicit --config path, the third service, which commits the files of   *)
(* other programs, and the ingress mode, which is a part of the routing    *)
(* schema set as a Put sets it, are left out.                              *)
(***************************************************************************)
EXTENDS Naturals

CONSTANTS
    Update,         \* requests that change a part of the configuration
    Put,            \* requests of the page that replace the routing schema
    None,           \* nothing
    Initial,        \* set both parts of a file found at first
    Default,        \* set the embedded configuration, and the switch at first
    MaxCrashes      \* bound: crashes

ASSUME ConfigAssumption ==
    /\ Update \cap Put = {}
    /\ {None, Initial, Default} \cap (Update \cup Put) = {}
    /\ MaxCrashes \in Nat

Part == Update \cup {None, Initial, Default}

Config == [core : Part, customer : Part]

Place == {"local", "home", "runtime"}

\* Nothing is neither a configuration nor a place.
ASSUME NoneAssumption == None \notin Config \cup Place

VARIABLES
    mode,       \* RuntimeMode of the process
    up,         \* whether the process runs
    global,     \* the running configuration
    boot,       \* where the running process loaded it from
    committed,  \* the coordinator's committed snapshot
    lock,       \* the update that holds the coordinator's mutex
    request,    \* per request: its place, the part it changes and its value
    files,      \* the configuration files
    db,         \* the latest snapshot in the database
    routing,    \* the routing store, routing.json and the mutex of its writers
    log         \* what was acknowledged, what was tried since, and the crashes

vars == <<mode, up, global, boot, committed, lock, request, files, db, routing, log>>

Both(who) == [core |-> who, customer |-> who]

\* A file that was being written at a crash or when the disk was full.
Torn == Both(None)

\* Where a part is written: the daemon keeps both in its runtime directory.
Path(kind) ==
    IF mode = "daemon" THEN "runtime" ELSE IF kind = "core" THEN "local" ELSE "home"

\* Where the process starts from.
Source ==
    IF files["local"] # None THEN "local"
    ELSE IF files[Path("customer")] # None THEN Path("customer")
    ELSE IF db # None THEN "database" ELSE "default"

Load ==
    /\ boot' = Source'
    /\ global' = CASE boot' = "database" -> db'
                   [] boot' = "default"  -> Both(Default)
                   [] OTHER              -> files'[boot']

-----------------------------------------------------------------------------
ConfigInit ==
    /\ mode \in {"interactive", "daemon"}
    /\ files \in {[p \in Place |-> IF p \in found THEN Both(Initial) ELSE None] :
                      found \in SUBSET {"local", Path("customer")}}
    /\ up = TRUE
    /\ db = None
    /\ boot = Source
    /\ global = IF boot = "default" THEN Both(Default) ELSE files[boot]
    /\ committed = None
    /\ lock = None
    /\ request = [r \in Update \cup Put |->
                     [pc |-> "new", kind |-> None, next |-> None, switch |-> None]]
    /\ routing = [active |-> None, disk |-> None, writer |-> None, writing |-> None, unsaved |-> FALSE]
    /\ log = [path |-> boot, acked |-> global, tried |-> {}, last |-> "none", crashes |-> 0]

-----------------------------------------------------------------------------
At(r, pc) == up /\ request[r].pc = pc

Goto(r, pc) == request' = [request EXCEPT ![r].pc = pc]

\* The update gives the mutex up with its answer.
Answer(u, answer) ==
    /\ lock' = None
    /\ Goto(u, "done")
    /\ log' = CASE answer = "ok" ->
                     [log EXCEPT !.path = Path(request[u].kind), !.acked = request[u].next,
                                 !.tried = {}, !.last = "ok"]
                [] answer = "undone" ->
                     [log EXCEPT !.tried = @ \ {request[u].next}, !.last = "refused"]
                [] answer = "refused" -> [log EXCEPT !.last = "refused"]

\* The request merges its part into the configuration that runs now.
Merge(u, kind) ==
    /\ At(u, "new")
    /\ request' = [request EXCEPT ![u] = [pc |-> "merged", kind |-> kind, switch |-> None,
                                          next |-> [global EXCEPT ![kind] = u]]]
    /\ UNCHANGED <<mode, up, global, boot, committed, lock, files, db, routing, log>>

\* Mutant: the save does not wait for the mutex.
Lock_Free(u) ==
    /\ At(u, "merged")
    /\ lock' = u
    /\ Goto(u, "file")
    /\ log' = [log EXCEPT !.tried = @ \cup {request[u].next}]
    /\ UNCHANGED <<mode, up, global, boot, committed, files, db, routing>>

Lock(u) ==
    /\ At(u, "merged")
    /\ lock = None
    /\ lock' = u
    /\ Goto(u, "file")
    /\ log' = [log EXCEPT !.tried = @ \cup {request[u].next}]
    /\ UNCHANGED <<mode, up, global, boot, committed, files, db, routing>>

\* Mutant: the snapshot counts as committed when its file is written.
SaveFile_Commits(u) ==
    /\ At(u, "file")
    /\ files' = [files EXCEPT ![Path(request[u].kind)] = request[u].next]
    /\ committed' = [kind |-> request[u].kind, content |-> request[u].next]
    /\ Goto(u, "db")
    /\ UNCHANGED <<mode, up, global, boot, lock, db, routing, log>>

SaveFile(u) ==
    /\ At(u, "file")
    /\ files' = [files EXCEPT ![Path(request[u].kind)] = request[u].next]
    /\ Goto(u, "db")
    /\ UNCHANGED <<mode, up, global, boot, committed, lock, db, routing, log>>

\* A failed write leaves the old file, the new one or a part of it; nothing
\* is rolled back.
FileFails(u) ==
    /\ At(u, "file")
    /\ \E content \in {files[Path(request[u].kind)], request[u].next, Torn} :
          files' = [files EXCEPT ![Path(request[u].kind)] = content]
    /\ Answer(u, "refused")
    /\ UNCHANGED <<mode, up, global, boot, committed, db, routing>>

SaveDb(u) ==
    /\ At(u, "db")
    /\ db' = request[u].next
    /\ Goto(u, "global")
    /\ UNCHANGED <<mode, up, global, boot, committed, lock, files, routing, log>>

DbFails(u) ==
    /\ At(u, "db")
    /\ Goto(u, "rollback")
    /\ UNCHANGED <<mode, up, global, boot, committed, lock, files, db, routing, log>>

SetGlobal(u) ==
    /\ At(u, "global")
    /\ global' = request[u].next
    /\ Goto(u, "refresh")
    /\ UNCHANGED <<mode, up, boot, committed, lock, files, db, routing, log>>

\* The outbound, the customer's proxy or the routing refuses the configuration.
RefreshFails(u) ==
    /\ At(u, "refresh")
    /\ Goto(u, "rollback")
    /\ UNCHANGED <<mode, up, global, boot, committed, lock, files, db, routing, log>>

\* The customer's routing keeps the switches the store has now.
ReadSwitch(u) ==
    /\ At(u, "refresh")
    /\ request[u].kind = "customer"
    /\ request' = [request EXCEPT ![u] = [@ EXCEPT !.pc = "apply", !.switch =
                      IF routing.active = None THEN Default ELSE routing.active.switch]]
    /\ UNCHANGED <<mode, up, global, boot, committed, lock, files, db, routing, log>>

\* apply, of a commit or of the page.
Apply(r) ==
    /\ \/ r \in Update /\ At(r, "apply")
       \/ r \in Put /\ At(r, "new")
    /\ routing' = [routing EXCEPT !.active =
                      [rules |-> r, switch |-> IF r \in Put THEN r ELSE request[r].switch]]
    /\ Goto(r, "persist")
    /\ UNCHANGED <<mode, up, global, boot, committed, lock, files, db, log>>

\* Mutant: the writer saves the schema it applied.
PersistRead_Own(r) ==
    /\ At(r, "persist")
    /\ routing.writer = None
    /\ routing' = [routing EXCEPT !.writer = r, !.writing =
                      [rules |-> r, switch |-> IF r \in Put THEN r ELSE request[r].switch]]
    /\ Goto(r, "persisting")
    /\ UNCHANGED <<mode, up, global, boot, committed, lock, files, db, log>>

\* persistActiveCanonical: the writer reads the store again under its mutex.
PersistRead(r) ==
    /\ At(r, "persist")
    /\ routing.writer = None
    /\ routing' = [routing EXCEPT !.writer = r, !.writing = routing.active]
    /\ Goto(r, "persisting")
    /\ UNCHANGED <<mode, up, global, boot, committed, lock, files, db, log>>

\* tmp and rename: the old file or the new one.
PersistWrite(r) ==
    /\ At(r, "persisting")
    /\ \E saved \in BOOLEAN :
          routing' = [routing EXCEPT !.writer = None, !.writing = None, !.unsaved = ~saved,
                                     !.disk = IF saved THEN routing.writing ELSE @]
    /\ Goto(r, IF r \in Put THEN "done" ELSE "commit")
    /\ UNCHANGED <<mode, up, global, boot, committed, lock, files, db, log>>

Commit(u) ==
    /\ \/ At(u, "refresh") /\ request[u].kind = "core"
       \/ At(u, "commit")
    /\ committed' = [kind |-> request[u].kind, content |-> request[u].next]
    /\ Answer(u, "ok")
    /\ UNCHANGED <<mode, up, global, boot, files, db, routing>>

\* rollbackFileToCommittedSnapshot: the committed snapshot to its own file, or,
\* before any commit, the removal of the file by its unresolved name, which is
\* a file's name for the core part only.  The removal and the write may fail.
Rollback(u) ==
    /\ At(u, "rollback")
    /\ \E undo \in BOOLEAN, rest \in {"old", "torn"} :
          LET kind    == request[u].kind
              place   == IF committed # None THEN Path(committed.kind)
                         ELSE IF kind = "core" THEN "local" ELSE None
              content == IF undo THEN (IF committed = None THEN None ELSE committed.content)
                         ELSE IF rest = "torn" /\ committed # None THEN Torn ELSE files[place]
          IN /\ files' = IF place = None THEN files ELSE [files EXCEPT ![place] = content]
             /\ Answer(u, IF undo /\ place = Path(kind) /\ db # request[u].next
                          THEN "undone" ELSE "refused")
    /\ UNCHANGED <<mode, up, global, boot, committed, db, routing>>

\* Memory is lost; the file that was being written may be a part of itself.
Crash ==
    /\ up
    /\ log.crashes < MaxCrashes
    /\ up' = FALSE
    /\ committed' = None /\ lock' = None
    /\ request' = [r \in DOMAIN request |->
                      IF request[r].pc = "new" THEN request[r] ELSE [request[r] EXCEPT !.pc = "done"]]
    /\ files' \in {files} \cup {[files EXCEPT ![Path(request[u].kind)] = Torn] :
                                    u \in {w \in Update : At(w, "file")}}
    /\ routing' = [routing EXCEPT !.active = None, !.writer = None, !.writing = None, !.unsaved = FALSE]
    /\ log' = [log EXCEPT !.crashes = @ + 1]
    /\ UNCHANGED <<mode, global, boot, db>>

\* A torn file stops the start (fail-fast, no fallback).
Restart ==
    /\ ~up
    /\ UNCHANGED <<mode, files, db, committed, lock, request>>
    /\ Load
    /\ global' # Torn
    /\ up' = TRUE
    /\ routing' = [routing EXCEPT !.active = routing.disk]
    /\ log' = [log EXCEPT !.path = boot', !.acked = global', !.tried = {}, !.last = "none"]

CommitStep ==
    \E u \in Update :
        \/ \E kind \in {"core", "customer"} : Merge(u, kind)
        \/ Lock(u) \/ SaveFile(u) \/ FileFails(u) \/ SaveDb(u) \/ DbFails(u)
        \/ SetGlobal(u) \/ RefreshFails(u) \/ ReadSwitch(u) \/ Commit(u) \/ Rollback(u)

RoutingStep == \E r \in Update \cup Put : Apply(r) \/ PersistRead(r) \/ PersistWrite(r)

ConfigNext == CommitStep \/ RoutingStep \/ Crash \/ Restart

ConfigSpec == ConfigInit /\ [][ConfigNext]_vars

-----------------------------------------------------------------------------
Schema == [rules : Update \cup Put, switch : Put \cup {Default, None}]

Record == [pc : {"new", "merged", "file", "db", "global", "refresh", "apply", "persist",
                 "persisting", "commit", "rollback", "done"},
           kind : {"core", "customer", None}, next : Config \cup {None},
           switch : Put \cup {Default, None}]

\* Every variable has its type; a merged request has a part and a value
\* (EffectiveConfigSnapshot, RoutingApplyStore).
ConfigTypeOK ==
    /\ mode \in {"interactive", "daemon"}
    /\ up \in BOOLEAN
    /\ global \in Config
    /\ boot \in Place \cup {"database", "default"}
    /\ committed \in [kind : {"core", "customer"}, content : Config] \cup {None}
    /\ lock \in Update \cup {None}
    /\ request \in [Update \cup Put -> Record]
    /\ \A u \in Update : request[u].pc \notin {"new", "done"} =>
           request[u].kind \in {"core", "customer"} /\ request[u].next \in Config
    /\ files \in [Place -> Config \cup {None}]
    /\ db \in Config \cup {None}
    /\ routing \in [active : Schema \cup {None}, disk : Schema \cup {None},
                    writer : Update \cup Put \cup {None}, writing : Schema \cup {None},
                    unsaved : BOOLEAN]
    /\ log \in [path : Place \cup {"database", "default"}, acked : Config,
                tried : SUBSET Config, last : {"none", "ok", "refused"}, crashes : Nat]

\* When the latest save was acknowledged and none is under way, the running
\* configuration, the committed snapshot, the file and the database agree,
\* whatever saves came before or were refused (EffectiveConfigCommitCoordinator
\* .Commit: one mutex over the file, the database and SetGlobalConfig).
SettledAgrees ==
    (up /\ lock = None /\ log.last = "ok") =>
        LET cfg == committed.content IN
        /\ global = cfg
        /\ db = cfg
        /\ files[Path(committed.kind)] = cfg

\* A process that starts again from the file it last saved runs what was last
\* acknowledged, or a save that was under way or could not be undone: never a
\* save that was refused and rolled back, nor an older one
\* (rollbackFileToCommittedSnapshot, runtime_commit_coordinator.go:95-113).
RestartKeepsAcked ==
    [][(~up /\ up' /\ boot' = log.path) => global' \in {log.acked} \cup log.tried]_vars

\* When every Apply has written, and the latest write worked, routing.json
\* holds what the store holds: the switches survive the next start
\* (persistMu, routing_apply_state.go:51-53).
PersistedIsActive ==
    (up /\ ~routing.unsaved /\ \A r \in Update \cup Put : request[r].pc \notin {"persist", "persisting"}) =>
        routing.disk = routing.active
=============================================================================
