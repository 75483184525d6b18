------------------------ MODULE SessionLifecycleProofs ------------------------
(***************************************************************************)
(* Proofs about SessionLifecycle for any number of jobs, tokens and        *)
(* transitions.                                                            *)
(*                                                                         *)
(* The invariant has four layers, each resting on the ones before it:      *)
(* the places a job may be in (Shape), the life of the session             *)
(* (SessionSide), the two copies of the credentials (StoreSide), and the   *)
(* tokens the cloud has replaced (TokenSide).                              *)
(***************************************************************************)
EXTENDS SessionLifecycle, SessionAuthorityProofs

\* What a job at a place is: who can be there, with what.
Shaped(j) ==
  /\ j.at = "idle" => j = IdleJob
  /\ j.at \in {"get", "load", "loaded"} =>
       j.kind \in {"refresh", "restore", "logout", "profile", "reader"}
  /\ j.at \in {"wait", "decide", "rejected"} => j.kind = "refresh"
  /\ j.at \in {"send", "answered"} => j.kind \in {"login", "refresh"}
  /\ j.at = "restored" => j.kind = "restore"
  /\ j.at \in {"notify", "stop", "delete", "forget"} => j.kind \in {"logout", "refresh"}
  /\ j.at \in {"loaded", "answered"} => j.token # NoUser
  /\ j.at = "send" => (j.token = NoUser <=> j.kind = "login")
  /\ j.holds => j.kind = "refresh" /\ j.first # NoUser
  /\ j.kind = "refresh" /\ j.at \in {"decide", "send", "answered", "rejected"} => j.holds
  /\ j.at \in {"idle", "wait", "done"} => ~ j.holds

Shape == \A o \in Ops : Shaped(job[o])

-------------------------------------------------------------------------------
(* The life of the session. *)

\* The first snapshot is the one of the start, and a restore works on no other.
Beginning ==
  /\ snapshot.generation # 0
  /\ snapshot.state = "restoring" <=> snapshot.generation = 1
  /\ (\A o \in Ops : At(o, "idle")) => snapshot.generation = 1
  /\ snapshot.generation = 1 => Torn /\ ~ refresher
  /\ \A o \in operations : job[o].kind = "restore" => snapshot.generation = 1

NoTeardown == snapshot.user # NoUser /\ "late_teardown" \notin diverged => Torn

SessionSide == Beginning /\ NoTeardown /\ RefresherFollowsSession

-------------------------------------------------------------------------------
(* Memory and the record. *)

HasRead(j) == j.at \in {"wait", "restored", "notify"} \/ j.holds

\* Before the first transition nobody writes but those who load.
AtFirst ==
  snapshot.generation = 1 /\ diverged = {} =>
    /\ memory \in {NoUser, disk}
    /\ \A o \in Ops : /\ HasRead(job[o]) => memory = disk
                      /\ job[o].at \in {"wait", "restored"} => job[o].token = disk
                      /\ job[o].holds => job[o].first = disk

Deleted == diverged = {} /\ (\E o \in Ops : At(o, "forget")) => disk = NoUser
Emptied == Ended /\ diverged = {} /\ memory = NoUser => disk = NoUser

\* A refresh that began after the session ended finds nothing.
Vain ==
  Ended /\ diverged = {} =>
    \A o \in operations : job[o].kind = "refresh" =>
      /\ ~ job[o].holds /\ job[o].at \in {"get", "load", "wait", "close"}
      /\ At(o, "load") => disk = NoUser
      /\ At(o, "wait") => job[o].token = NoUser

\* A current refresh that has read again under the mutex has found a token.
Found ==
  diverged = {} => \A o \in operations : At(o, "decide") => job[o].token # NoUser

StoreSide == SessionIsBacked /\ EndedIsCleared /\ AtFirst /\ Deleted /\ Emptied /\ Vain /\ Found

-------------------------------------------------------------------------------
(* The tokens. *)

Clean == ~ lost /\ ~ dropped /\ diverged = {}

\* Tokens that were replaced, not withdrawn.
Spent == issued \ (accepted \cup revoked)

Tokens ==
  /\ accepted \cap revoked = {}
  /\ {memory, disk} \subseteq issued \cup {NoUser}
  /\ \A o \in Ops : {job[o].token, job[o].first} \subseteq issued \cup {NoUser}

\* A token just handed out is known to the job that got it alone.
Private ==
  \A o \in Ops : At(o, "answered") =>
    /\ job[o].token \notin {memory, disk}
    /\ \A p \in Ops \ {o} : job[o].token \notin {job[p].token, job[p].first}

Unspent ==
  Clean => \A o \in Ops :
    At(o, "answered") \/ (job[o].holds /\ job[o].at \in {"loaded", "decide", "send"})
      => job[o].token \notin Spent

\* A refresh between the renewal and the save of the new token, or wiping.
Midway(j) == j.holds /\ j.at \in {"answered", "notify", "stop", "delete", "forget"}

\* Only then is a replaced token still in memory or in the record.
Replacing ==
  Clean /\ {memory, disk} \cap Spent # {} => \E o \in Ops : Midway(job[o])

TokenSide == Tokens /\ Private /\ Unspent /\ Replacing /\ RejectedForAReason

LifecycleInv ==
  IInv /\ LifecycleTypeOK /\ Shape /\ SessionSide /\ StoreSide /\ TokenSide

-------------------------------------------------------------------------------
(* What a step does to the jobs. *)

\* One job changes into a well-formed one.  The mutex is taken when it is free.
Becomes(o, j) ==
  /\ j \in JobType /\ Shaped(j)
  /\ j.holds => job[o].holds \/ \A p \in Ops : ~ job[p].holds
  /\ job' = [job EXCEPT ![o] = j]

\* The jobs stay well formed.
LEMMA BecomesKeeps ==
  ASSUME LifecycleTypeOK, Shape, NEW o \in Ops, NEW j, Becomes(o, j)
  PROVE  /\ job' \in [Ops -> JobType] /\ Shape'
         /\ \A p, q \in Ops : job'[p].holds /\ job'[q].holds => p = q
         /\ job'[o] = j /\ \A p \in Ops \ {o} : job'[p] = job[p]
<1>1. job \in [Ops -> JobType] /\ \A p, q \in Ops : job[p].holds /\ job[q].holds => p = q
  BY DEF LifecycleTypeOK
<1>2. job'[o] = j /\ (\A p \in Ops \ {o} : job'[p] = job[p]) /\ job' \in [Ops -> JobType]
  BY <1>1 DEF Becomes
<1>3. \A p, q \in Ops : job'[p].holds /\ job'[q].holds => p = q
  BY <1>1, <1>2 DEF Becomes
<1>4. Shape'
  BY <1>2 DEF Shape, Becomes
<1> QED
  BY <1>2, <1>3, <1>4

\* A job that only moves on.
LEMMA MovesOn ==
  ASSUME LifecycleTypeOK, NEW o \in Ops, NEW place \in Places, Goto(o, place),
         Shaped([job[o] EXCEPT !.at = place])
  PROVE  Becomes(o, [job[o] EXCEPT !.at = place])
<1>1. job \in [Ops -> JobType]
  BY DEF LifecycleTypeOK
<1>2. job[o] \in JobType
  BY <1>1
<1>3. /\ [job[o] EXCEPT !.at = place] \in JobType
      /\ [job[o] EXCEPT !.at = place].holds = job[o].holds
  BY <1>2 DEF JobType
<1>4. job' = [job EXCEPT ![o] = [job[o] EXCEPT !.at = place]]
  BY <1>1 DEF Goto
<1> QED
  BY <1>3, <1>4 DEF Becomes

\* A job that is over.
LEMMA Finishes ==
  ASSUME LifecycleTypeOK, NEW o \in Ops, Finish(o)
  PROVE  Becomes(o, [IdleJob EXCEPT !.at = "done"])
BY DEF Finish, Becomes, IdleJob, JobType, Kinds, Places, Shaped

\* What a job becomes that has got its credentials.
LEMMA GotResult ==
  ASSUME LifecycleTypeOK, Shape, NEW o \in Ops, NEW token \in Users \cup {NoUser},
         job[o].at \in {"get", "load", "loaded"}, Got(o, token)
  PROVE  /\ Becomes(o, job'[o])
         /\ job[o].kind = "reader" => job'[o] = [IdleJob EXCEPT !.at = "done"]
         /\ job[o].kind # "reader" =>
              /\ job'[o].kind = job[o].kind /\ job'[o].token = token
              /\ job'[o].holds = job[o].holds /\ job'[o].first = job[o].first
              /\ job'[o].at = Onward(o)
         /\ job[o].kind = "refresh" => Onward(o) = IF job[o].holds THEN "decide" ELSE "wait"
         /\ job[o].kind = "restore" => Onward(o) = "restored"
         /\ job[o].kind = "logout"  => Onward(o) = "notify"
         /\ job[o].kind = "profile" => Onward(o) = "save"
         /\ job[o].kind \in {"refresh", "restore", "logout", "profile", "reader"}
<1>1. job \in [Ops -> JobType]
  BY DEF LifecycleTypeOK
<1>2. job[o] \in JobType /\ Shaped(job[o])
  BY <1>1 DEF Shape
<1>3. job[o].kind \in {"refresh", "restore", "logout", "profile", "reader"}
  BY <1>2 DEF Shaped
<1>4. /\ job[o].kind = "refresh" => Onward(o) = IF job[o].holds THEN "decide" ELSE "wait"
      /\ job[o].kind = "restore" => Onward(o) = "restored"
      /\ job[o].kind = "logout"  => Onward(o) = "notify"
      /\ job[o].kind = "profile" => Onward(o) = "save"
  BY <1>3 DEF Onward
<1>5. CASE job[o].kind = "reader"
  <2>1. Finish(o)
    BY <1>1, <1>5 DEF Got, Finish
  <2>2. job'[o] = [IdleJob EXCEPT !.at = "done"]
    BY <1>1, <2>1 DEF Finish
  <2> QED
    BY <1>4, <1>5, <2>1, <2>2, Finishes
<1>6. CASE job[o].kind # "reader"
  <2> DEFINE j == [job[o] EXCEPT !.token = token, !.at = Onward(o)]
  <2>1. job' = [job EXCEPT ![o] = j] /\ job'[o] = j
    BY <1>1, <1>6 DEF Got
  <2>2. /\ j.kind = job[o].kind /\ j.token = token /\ j.holds = job[o].holds
        /\ j.first = job[o].first /\ j.at = Onward(o)
    BY <1>2 DEF JobType
  <2>3. j \in JobType
    BY <1>2, <1>3, <1>4, <1>6 DEF JobType, Places
  <2>4. Shaped(j)
    BY <1>2, <1>3, <1>4, <1>6, <2>2 DEF Shaped
  <2> HIDE DEF j
  <2>5. Becomes(o, j)
    BY <2>1, <2>2, <2>3, <2>4 DEF Becomes
  <2> QED
    BY <1>3, <1>4, <1>6, <2>1, <2>2, <2>5
<1> QED
  BY <1>5, <1>6

\* Every step of a job makes it become something well formed.
LEMMA JobStepBecomes ==
  ASSUME LifecycleTypeOK, Shape, NEW o \in Ops, JobStep(o)
  PROVE  Becomes(o, job'[o])
<1>1. /\ job \in [Ops -> JobType] /\ memory \in Users \cup {NoUser}
      /\ disk \in Users \cup {NoUser} /\ issued \subseteq Users
  BY DEF LifecycleTypeOK
<1>2. job[o] \in JobType /\ Shaped(job[o])
  BY <1>1 DEF Shape
<1>3. ASSUME NEW j, Becomes(o, j) PROVE Becomes(o, job'[o])
  BY <1>3, BecomesKeeps
<1>4. CASE BeginLogin(o) \/ BeginRefresh(o) \/ BeginRestore(o) \/ BeginOther(o)
  <2>1. PICK kind \in Kinds, place \in Places :
          /\ BeginJob(o, kind, place)
          /\ \/ kind = "login" /\ place = "send"
             \/ kind \in {"refresh", "logout", "profile", "reader"} /\ place = "get"
             \/ kind = "restore" /\ place = "load"
    BY <1>4 DEF BeginLogin, BeginRefresh, BeginRestore, BeginOther, Kinds, Places
  <2>2. job[o] = IdleJob
    BY <1>2, <2>1 DEF BeginJob, At, Shaped
  <2> DEFINE j == [IdleJob EXCEPT !.kind = kind, !.at = place]
  <2>3. job' = [job EXCEPT ![o] = j]
    BY <1>1, <2>1, <2>2 DEF BeginJob
  <2>4. j \in JobType /\ Shaped(j) /\ ~ j.holds
    BY <2>1 DEF IdleJob, JobType, Shaped
  <2> QED
    BY <1>3, <2>3, <2>4 DEF Becomes
<1>5. CASE Get(o) \/ ReadRecord(o) \/ SetMemory(o)
  <2>1. CASE \E token \in Users \cup {NoUser} : Got(o, token)
    BY <1>5, <2>1, GotResult DEF Get, ReadRecord, SetMemory, At
  <2>2. CASE Finish(o)
    BY <1>3, <2>2, Finishes
  <2>3. CASE Goto(o, "load") /\ At(o, "get")
    BY <1>2, <1>3, <2>3, MovesOn DEF At, Shaped, JobType, Places, IdleJob
  <2>4. CASE ReadRecord(o) /\ disk # NoUser
    <3> DEFINE j == [job[o] EXCEPT !.token = disk, !.at = "loaded"]
    <3>1. job' = [job EXCEPT ![o] = j]
      BY <1>1, <2>4 DEF ReadRecord
    <3>2. j \in JobType /\ Shaped(j) /\ j.holds = job[o].holds
      BY <1>1, <1>2, <2>4 DEF ReadRecord, At, Shaped, JobType, Places
    <3> QED
      BY <1>3, <3>1, <3>2 DEF Becomes
  <2> QED
    BY <1>1, <1>2, <1>5, <2>1, <2>2, <2>3, <2>4 DEF Get, ReadRecord, SetMemory, JobType
<1>6. CASE WaitForRefreshMutex(o)
  <2>1. CASE job[o].token = NoUser
    BY <1>2, <1>3, <1>6, <2>1, MovesOn DEF WaitForRefreshMutex, At, Shaped, JobType, Places
  <2>2. CASE job[o].token # NoUser
    <3> DEFINE j == [job[o] EXCEPT !.at = "get", !.holds = TRUE, !.first = job[o].token]
    <3>1. job' = [job EXCEPT ![o] = j] /\ \A p \in Ops : ~ job[p].holds
      BY <1>1, <1>6, <2>2 DEF WaitForRefreshMutex
    <3>2. j \in JobType /\ Shaped(j)
      BY <1>2, <1>6, <2>2 DEF WaitForRefreshMutex, At, Shaped, JobType, Places
    <3> QED
      BY <1>3, <3>1, <3>2 DEF Becomes
  <2> QED
    BY <2>1, <2>2
<1>7. CASE Decide(o)
  <2> DEFINE place == IF Rotated(o) \/ ~ OperationCurrent(o) THEN "close" ELSE "send"
             j == [job[o] EXCEPT !.at = place, !.token = ToSend(o)]
  <2>1. job' = [job EXCEPT ![o] = j]
    BY <1>1, <1>7 DEF Decide
  <2>2. place \in {"close", "send"}
    OBVIOUS
  <2> HIDE DEF place
  <2>3. j \in JobType /\ Shaped(j) /\ j.holds = job[o].holds
    BY <1>2, <1>7, <2>2 DEF Decide, At, Shaped, JobType, Places, ToSend
  <2> QED
    BY <1>3, <2>1, <2>3 DEF Becomes
<1>8. CASE CloudRenews(o)
  <2>1. CASE Goto(o, "close")
    BY <1>2, <1>3, <1>8, <2>1, MovesOn DEF CloudRenews, At, Shaped, JobType, Places
  <2>2. CASE ~ Goto(o, "close")
    <3>1. PICK t \in Users : job' = [job EXCEPT ![o].at = "answered", ![o].token = t]
      BY <1>8, <2>2 DEF CloudRenews, Fresh
    <3> DEFINE j == [job[o] EXCEPT !.at = "answered", !.token = t]
    <3>2. job' = [job EXCEPT ![o] = j]
      BY <1>1, <3>1
    <3>3. j \in JobType /\ Shaped(j) /\ j.holds = job[o].holds
      BY <1>2, <1>8, ConstantsAssumption DEF CloudRenews, At, Shaped, JobType, Places
    <3> QED
      BY <1>3, <3>2, <3>3 DEF Becomes
  <2> QED
    BY <2>1, <2>2
<1>9. CASE \/ CloudRejects(o) \/ CloudUnreachable(o) \/ DropAnswer(o) \/ RestoreOver(o)
           \/ CommitAnswer(o) \/ RestoreProfile(o) \/ StartTokenRefresh(o)
  <2>1. PICK place \in {"rejected", "close", "run"} :
          /\ Goto(o, place)
          /\ job[o].at \in {"send", "answered", "restored", "run"}
          /\ place = "rejected" => job[o].at = "send" /\ job[o].kind = "refresh"
    BY <1>9 DEF CloudRejects, CloudUnreachable, DropAnswer, RestoreOver, CommitAnswer,
                RestoreProfile, StartTokenRefresh, Commit, At
  <2>2. Shaped([job[o] EXCEPT !.at = place])
    BY <1>2, <2>1 DEF Shaped, JobType
  <2> QED
    BY <1>3, <2>1, <2>2, MovesOn DEF Places
<1>10. CASE \/ AnswerRejected(o) \/ Notify(o) \/ StopTokenRefresh(o) \/ DeleteRecord(o)
            \/ Forget(o)
  <2>1. PICK place \in {"notify", "close", "stop", "delete", "forget", "revoke"} :
          /\ Goto(o, place)
          /\ \/ job[o].at \in {"rejected", "notify", "stop", "delete"}
             \/ job[o].at = "answered" /\ job[o].kind = "refresh"
             \/ job[o].at = "forget" /\ place \in {"close", "revoke"}
    BY <1>10 DEF AnswerRejected, Notify, StopTokenRefresh, DeleteRecord, Forget, At
  <2>2. Shaped([job[o] EXCEPT !.at = place])
    BY <1>2, <2>1 DEF Shaped, JobType
  <2> QED
    BY <1>3, <2>1, <2>2, MovesOn DEF Places
<1>11. CASE \/ CloseJob(o) \/ RestoreNothing(o) \/ RestoreLater(o) \/ RevokeRemotely(o)
            \/ SaveProfile(o)
  BY <1>3, <1>11, Finishes DEF CloseJob, RestoreNothing, RestoreLater, RevokeRemotely, SaveProfile
<1> QED
  BY <1>4, <1>5, <1>6, <1>7, <1>8, <1>9, <1>10, <1>11 DEF JobStep

\* What a job commits is a token.
LEMMA CommitsToken ==
  ASSUME LifecycleTypeOK, Shape, NEW o \in Ops,
         CommitAnswer(o) \/ RestoreProfile(o) \/ RestoreLater(o)
  PROVE  job[o].token \in Users
<1>1. job[o] \in JobType /\ Shaped(job[o])
  BY DEF Shape, LifecycleTypeOK
<1>2. job[o].token \in Users \cup {NoUser}
  BY <1>1 DEF JobType
<1> QED
  BY <1>1, <1>2 DEF CommitAnswer, RestoreProfile, RestoreLater, At, Shaped, LifecycleTypeOK

\* What jobs and the cloud do to the authority are steps of its specification.
LEMMA AuthorityStep ==
  ASSUME LifecycleTypeOK, Shape, [LifecycleNext]_allVars
  PROVE  [Next]_vars
<1>1. ASSUME NEW o \in Ops, JobStep(o) PROVE [Next]_vars
  <2>1. CASE BeginLogin(o) \/ BeginRefresh(o) \/ BeginRestore(o)
    BY <2>1 DEF BeginLogin, BeginRefresh, BeginRestore, Next, OperationStep
  <2>2. CASE CommitAnswer(o) \/ RestoreProfile(o) \/ RestoreLater(o)
    BY <2>2, CommitsToken
       DEF CommitAnswer, RestoreProfile, RestoreLater, Commit, Next, OperationStep,
           CommitAuthenticatedSnapshot, CommitSoftExpired
  <2>3. CASE RestoreNothing(o) \/ StartTokenRefresh(o) \/ CloseJob(o)
    BY <2>3 DEF RestoreNothing, StartTokenRefresh, CloseJob, Next, OperationStep
  <2>4. CASE Notify(o)
    BY <2>4 DEF Notify, Next
  <2>5. CASE UNCHANGED vars
    BY <2>5
  <2> QED
    BY <1>1, <2>1, <2>2, <2>3, <2>4, <2>5
       DEF JobStep, BeginOther, Get, ReadRecord, SetMemory, WaitForRefreshMutex, Decide,
           CloudRenews, CloudRejects, CloudUnreachable, DropAnswer, AnswerRejected, RestoreOver,
           StopTokenRefresh, DeleteRecord, Forget, RevokeRemotely, SaveProfile
<1>2. CASE AccessRejected
  BY <1>2 DEF AccessRejected, Next
<1>3. CASE CloudRevokes \/ UNCHANGED allVars
  BY <1>3 DEF CloudRevokes, allVars
<1> QED
  BY <1>1, <1>2, <1>3 DEF LifecycleNext

\* Types and shapes are kept.
LEMMA StepKeepsTypes ==
  ASSUME LifecycleTypeOK, Shape, IInv, [LifecycleNext]_allVars
  PROVE  IInv' /\ LifecycleTypeOK' /\ Shape'
<1>1. IInv' /\ TypeOK'
  BY AuthorityStep, NextIInv DEF IInv
<1>2. /\ job \in [Ops -> JobType] /\ memory \in Users \cup {NoUser} /\ disk \in Users \cup {NoUser}
      /\ issued \subseteq Users /\ accepted \subseteq issued /\ revoked \subseteq issued
      /\ refresher \in BOOLEAN /\ lost \in BOOLEAN /\ dropped \in BOOLEAN /\ diverged \subseteq Ways
  BY DEF LifecycleTypeOK
<1>3. ASSUME NEW o \in Ops, JobStep(o)
      PROVE  LifecycleTypeOK' /\ Shape'
  <2>1. /\ job' \in [Ops -> JobType] /\ Shape'
        /\ \A p, q \in Ops : job'[p].holds /\ job'[q].holds => p = q
    BY <1>3, JobStepBecomes, BecomesKeeps
  <2>2. job[o].token \in Users \cup {NoUser} /\ job[o].kind \in Kinds
    BY <1>2 DEF JobType
  <2> USE DEF JobStep, BeginLogin, BeginRefresh, BeginRestore, BeginOther, BeginJob, Get, ReadRecord,
              SetMemory, WaitForRefreshMutex, Decide, CloudRenews, CloudRejects, CloudUnreachable,
              CommitAnswer, DropAnswer, AnswerRejected, StartTokenRefresh, CloseJob, RestoreNothing,
              RestoreProfile, RestoreLater, RestoreOver, Notify, StopTokenRefresh, DeleteRecord,
              Forget, RevokeRemotely, SaveProfile, Commit
  <2>3. memory' \in Users \cup {NoUser} /\ disk' \in Users \cup {NoUser}
    BY <1>2, <1>3, <2>2 DEF SaveUserInfo, storeVars
  <2>4. refresher' \in BOOLEAN
    BY <1>2, <1>3 DEF GenerationActive
  <2>5. diverged' \subseteq Ways
    BY <1>2, <1>3 DEF Note, Ways
  <2>6. /\ issued' \subseteq Users /\ accepted' \subseteq issued' /\ revoked' \subseteq issued'
        /\ lost' \in BOOLEAN /\ dropped' \in BOOLEAN
    BY <1>2, <1>3 DEF cloudVars, Fresh
  <2> QED
    BY <1>1, <2>1, <2>3, <2>4, <2>5, <2>6 DEF LifecycleTypeOK
<1>4. CASE AccessRejected
  BY <1>1, <1>2, <1>4 DEF AccessRejected, LifecycleTypeOK, Shape, storeVars, cloudVars
<1>5. CASE CloudRevokes
  BY <1>1, <1>2, <1>5 DEF CloudRevokes, LifecycleTypeOK, Shape, storeVars
<1>6. CASE UNCHANGED allVars
  BY <1>1, <1>2, <1>6 DEF allVars, LifecycleTypeOK, Shape, storeVars, cloudVars
<1> QED
  BY <1>1, <1>3, <1>4, <1>5, <1>6 DEF LifecycleNext


-------------------------------------------------------------------------------
(* The life of the session. *)

\* A step of a job that the session and the refresher do not notice.
Aside(o) ==
  /\ UNCHANGED <<snapshot, refresher, published>>
  /\ operations' \subseteq operations /\ diverged \subseteq diverged'
  /\ job[o].at \notin {"idle", "run", "stop"} /\ job'[o].at \notin {"idle", "stop"}
  /\ job'[o].at \in {"delete", "forget"} => TearingDown(o)
  /\ job'[o].kind \in {job[o].kind, "none"}

\* Such a step keeps what is known of the session.
LEMMA AsideKeepsSession ==
  ASSUME SessionSide, NEW o \in Ops, Aside(o), \A p \in Ops \ {o} : job'[p] = job[p],
         operations \subseteq Ops
  PROVE  SessionSide'
<1>1. \A p \in Ops : TearingDown(p)' => TearingDown(p)
  BY DEF Aside, TearingDown
<1>2. Torn => Torn'
  BY <1>1 DEF Torn
<1>3. Beginning'
  BY <1>2 DEF SessionSide, Beginning, Aside, At
<1>4. NoTeardown'
  BY <1>2 DEF SessionSide, NoTeardown, Aside
<1>5. RefresherFollowsSession'
  BY DEF SessionSide, RefresherFollowsSession, Aside, Ended, At
<1> QED
  BY <1>3, <1>4, <1>5 DEF SessionSide

\* Most steps of jobs are of that kind.
LEMMA AsideSteps ==
  ASSUME LifecycleTypeOK, Shape, NEW o \in Ops,
         \/ Get(o) \/ ReadRecord(o) \/ SetMemory(o) \/ WaitForRefreshMutex(o) \/ Decide(o)
         \/ CloudRenews(o) \/ CloudRejects(o) \/ CloudUnreachable(o)
         \/ DropAnswer(o) \/ AnswerRejected(o) \/ CloseJob(o) \/ RestoreOver(o)
         \/ DeleteRecord(o) \/ Forget(o) \/ RevokeRemotely(o) \/ SaveProfile(o)
  PROVE  Aside(o)
<1>1. job \in [Ops -> JobType] /\ memory \in Users \cup {NoUser} /\ disk \in Users \cup {NoUser}
  BY DEF LifecycleTypeOK
<1>2. job[o] \in JobType
  BY <1>1
<1>3. ASSUME UNCHANGED <<snapshot, refresher, published>>, operations' \subseteq operations,
             diverged \subseteq diverged',
             NEW place \in {"load", "close", "rejected", "notify", "forget", "revoke"},
             Goto(o, place), job[o].at \notin {"idle", "run", "stop"},
             place = "forget" => job[o].at = "delete"
      PROVE  Aside(o)
  <2>1. job'[o] = [job[o] EXCEPT !.at = place]
    BY <1>1, <1>3 DEF Goto
  <2>2. job'[o].at = place /\ job'[o].kind = job[o].kind
    BY <1>2, <2>1 DEF JobType
  <2> QED
    BY <1>3, <2>2 DEF Aside, TearingDown
<1>4. ASSUME UNCHANGED <<snapshot, refresher, published>>, operations' \subseteq operations,
             diverged \subseteq diverged', Finish(o), job[o].at \notin {"idle", "run", "stop"}
      PROVE  Aside(o)
  <2>1. job'[o] = [IdleJob EXCEPT !.at = "done"]
    BY <1>1, <1>4 DEF Finish
  <2> QED
    BY <1>4, <2>1 DEF Aside, IdleJob
<1>5. CASE Get(o) \/ ReadRecord(o) \/ SetMemory(o)
  <2>1. /\ UNCHANGED <<snapshot, refresher, published>> /\ operations' \subseteq operations
        /\ diverged \subseteq diverged' /\ job[o].at \in {"get", "load", "loaded"}
    BY <1>5 DEF Get, ReadRecord, SetMemory, vars, At
  <2>2. ASSUME NEW token \in Users \cup {NoUser}, Got(o, token) PROVE Aside(o)
    <3>1. /\ job'[o].at \in {"done", "decide", "wait", "restored", "notify", "save"}
          /\ job'[o].kind \in {job[o].kind, "none"}
      BY <2>1, <2>2, GotResult DEF IdleJob
    <3> QED
      BY <2>1, <3>1 DEF Aside
  <2>3. CASE ReadRecord(o) /\ disk # NoUser
    <3>1. job'[o] = [job[o] EXCEPT !.token = disk, !.at = "loaded"]
      BY <1>1, <2>3 DEF ReadRecord
    <3>2. job'[o].at = "loaded" /\ job'[o].kind = job[o].kind
      BY <1>2, <3>1 DEF JobType
    <3> QED
      BY <2>1, <3>2 DEF Aside
  <2>4. job[o].token \in Users \cup {NoUser}
    BY <1>2 DEF JobType
  <2> QED
    BY <1>1, <1>3, <1>4, <1>5, <2>1, <2>2, <2>3, <2>4 DEF Get, ReadRecord, SetMemory
<1>6. CASE WaitForRefreshMutex(o)
  <2>1. CASE job[o].token = NoUser
    BY <1>3, <1>6, <2>1 DEF WaitForRefreshMutex, vars, At
  <2>2. CASE job[o].token # NoUser
    <3>1. job'[o] = [job[o] EXCEPT !.at = "get", !.holds = TRUE, !.first = job[o].token]
      BY <1>1, <1>6, <2>2 DEF WaitForRefreshMutex
    <3>2. job'[o].at = "get" /\ job'[o].kind = job[o].kind
      BY <1>2, <3>1 DEF JobType
    <3> QED
      BY <1>6, <3>2 DEF Aside, WaitForRefreshMutex, vars, At
  <2> QED
    BY <2>1, <2>2
<1>7. CASE Decide(o)
  <2>1. PICK place \in {"close", "send"} :
          job'[o] = [job[o] EXCEPT !.at = place, !.token = ToSend(o)]
    BY <1>1, <1>7 DEF Decide
  <2>2. job'[o].at = place /\ job'[o].kind = job[o].kind
    BY <1>2, <2>1 DEF JobType
  <2> QED
    BY <1>7, <2>2 DEF Aside, Decide, vars, At
<1>8. CASE CloudRenews(o)
  <2>1. CASE Goto(o, "close")
    BY <1>3, <1>8, <2>1 DEF CloudRenews, vars, At
  <2>2. CASE ~ Goto(o, "close")
    <3>1. PICK t \in Users : job' = [job EXCEPT ![o].at = "answered", ![o].token = t]
      BY <1>8, <2>2 DEF CloudRenews, Fresh
    <3>2. job'[o] = [job[o] EXCEPT !.at = "answered", !.token = t]
      BY <1>1, <3>1
    <3>3. job'[o].at = "answered" /\ job'[o].kind = job[o].kind
      BY <1>2, <3>2 DEF JobType
    <3> QED
      BY <1>8, <3>3 DEF Aside, CloudRenews, vars, At
  <2> QED
    BY <2>1, <2>2
<1>9. CASE \/ CloudRejects(o) \/ CloudUnreachable(o) \/ DropAnswer(o) \/ AnswerRejected(o)
           \/ RestoreOver(o) \/ DeleteRecord(o) \/ Forget(o)
  BY <1>3, <1>9 DEF CloudRejects, CloudUnreachable, DropAnswer, AnswerRejected, RestoreOver,
                    DeleteRecord, Forget, vars, At
<1>10. CASE CloseJob(o) \/ RevokeRemotely(o) \/ SaveProfile(o)
  BY <1>4, <1>10 DEF CloseJob, CloseOperation, RevokeRemotely, SaveProfile, vars, At
<1> QED
  BY <1>5, <1>6, <1>7, <1>8, <1>9, <1>10

\* What a publication does to the snapshot and the registry.
LEMMA PublishFacts ==
  ASSUME NEW to, NEW user, Publish(to, user)
  PROVE  /\ snapshot'.state = to /\ snapshot'.user = user
         /\ snapshot'.generation = snapshot.generation + 1
         /\ operations' = {}
BY DEF Publish, OperationsKept

\* A job that moves on takes its tokens along.
LEMMA GoesTo ==
  ASSUME LifecycleTypeOK, NEW o \in Ops, NEW place \in Places, Goto(o, place)
  PROVE  /\ job'[o].at = place
         /\ job'[o].kind = job[o].kind /\ job'[o].token = job[o].token
         /\ job'[o].holds = job[o].holds /\ job'[o].first = job[o].first
         /\ \A p \in Ops : p # o => job'[p] = job[p]
<1>1. job \in [Ops -> JobType] /\ job[o] \in JobType
  BY DEF LifecycleTypeOK
<1>2. job'[o] = [job[o] EXCEPT !.at = place] /\ \A p \in Ops : p # o => job'[p] = job[p]
  BY <1>1 DEF Goto
<1> QED
  BY <1>1, <1>2 DEF JobType

\* A job that is over keeps nothing.
LEMMA IsOver ==
  ASSUME LifecycleTypeOK, NEW o \in Ops, Finish(o)
  PROVE  /\ job'[o].at = "done" /\ job'[o].kind = "none" /\ ~ job'[o].holds
         /\ job'[o].token = NoUser /\ job'[o].first = NoUser
         /\ \A p \in Ops : p # o => job'[p] = job[p]
<1>1. job'[o] = [IdleJob EXCEPT !.at = "done"] /\ \A p \in Ops : p # o => job'[p] = job[p]
  BY DEF LifecycleTypeOK, Finish
<1> QED
  BY <1>1 DEF IdleJob

\* A job that begins had nothing.
LEMMA Begins ==
  ASSUME LifecycleTypeOK, Shape, NEW o \in Ops, NEW kind \in Kinds, NEW place \in Places,
         BeginJob(o, kind, place)
  PROVE  /\ job[o].at = "idle" /\ job'[o].at = place /\ job'[o].kind = kind
         /\ job'[o].token = NoUser /\ job'[o].first = NoUser
         /\ ~ job'[o].holds /\ ~ job[o].holds
         /\ \A p \in Ops : p # o => job'[p] = job[p]
<1>1. job \in [Ops -> JobType] /\ Shaped(job[o])
  BY DEF LifecycleTypeOK, Shape
<1>2. job[o] = IdleJob
  BY <1>1 DEF BeginJob, At, Shaped
<1>3. /\ job'[o] = [IdleJob EXCEPT !.kind = kind, !.at = place]
      /\ \A p \in Ops : p # o => job'[p] = job[p]
  BY <1>1, <1>2 DEF BeginJob
<1> QED
  BY <1>2, <1>3 DEF IdleJob

\* A job that begins.
LEMMA BeginKeepsSession ==
  ASSUME IInv, LifecycleTypeOK, Shape, SessionSide, NEW o \in Ops,
         BeginLogin(o) \/ BeginRefresh(o) \/ BeginRestore(o) \/ BeginOther(o)
  PROVE  SessionSide'
<1>1. /\ UNCHANGED <<snapshot, refresher, published, diverged>>
      /\ operations' \subseteq operations \cup {o} /\ operations \subseteq Ops
  BY DEF BeginLogin, BeginRefresh, BeginRestore, BeginOther, BeginJob, BeginOperation, vars, IInv,
         TypeOK
<1>2. PICK kind \in Kinds, place \in {"send", "get", "load"} :
        /\ BeginJob(o, kind, place)
        /\ kind = "restore" => \A p \in Ops : At(p, "idle")
  BY DEF BeginLogin, BeginRefresh, BeginRestore, BeginOther, Kinds
<1>3. /\ job[o].at = "idle" /\ job'[o].at = place /\ job'[o].kind = kind
      /\ \A p \in Ops : p # o => job'[p] = job[p]
  <2>1. place \in Places
    BY DEF Places
  <2> QED
    BY <1>2, <2>1, Begins
<1>4. (\A p \in Ops : At(p, "idle")) => snapshot.generation = 1
  BY DEF SessionSide, Beginning
<1>5. Torn => Torn'
  BY <1>3 DEF Torn, TearingDown
<1>6. Beginning'
  <2>1. \A p \in operations' : job'[p].kind = "restore" => snapshot.generation = 1
    BY <1>1, <1>2, <1>3, <1>4 DEF SessionSide, Beginning
  <2>2. ~ At(o, "idle")'
    BY <1>3 DEF At
  <2> QED
    BY <1>1, <1>5, <2>1, <2>2 DEF SessionSide, Beginning
<1>7. NoTeardown'
  BY <1>1, <1>5 DEF SessionSide, NoTeardown
<1>8. RefresherFollowsSession'
  BY <1>1, <1>3 DEF SessionSide, RefresherFollowsSession, Ended, At
<1> QED
  BY <1>6, <1>7, <1>8 DEF SessionSide

\* A publication by a job, or of a rejected access.
LEMMA PublicationKeepsSession ==
  ASSUME IInv, LifecycleTypeOK, Shape, SessionSide,
         \/ AccessRejected
         \/ \E o \in Ops : \/ CommitAnswer(o) \/ RestoreProfile(o) \/ RestoreNothing(o)
                           \/ RestoreLater(o) \/ Notify(o)
  PROVE  SessionSide'
<1>1. /\ snapshot.generation \in Nat /\ operations \subseteq Ops
      /\ snapshot.user # NoUser <=> snapshot.state \in {"active", "soft_expired"}
      /\ published \in [Ops -> Nat]
  BY DEF IInv, TypeOK, SnapshotType
<1>2. ASSUME NEW o \in Ops, CommitAnswer(o) \/ RestoreProfile(o)
      PROVE  SessionSide'
    <2>1. /\ Commit(o) /\ CommitOperation(o, "active", job[o].token) /\ Goto(o, "run")
          /\ ~ TearingDown(o)
      BY <1>2 DEF CommitAnswer, RestoreProfile, Commit, At, TearingDown
    <2>2. /\ snapshot'.state = "active" /\ snapshot'.generation = snapshot.generation + 1
          /\ operations' = {}
      BY <2>1, PublishFacts DEF CommitOperation
    <2>3. published'[o] = snapshot'.generation
      BY <1>1, <2>1, <2>2 DEF CommitOperation
    <2>4. job'[o].at = "run" /\ \A p \in Ops : p # o => job'[p] = job[p]
      BY <2>1, GoesTo DEF Places
    <2>5. "late_teardown" \notin diverged' => Torn
      BY <2>1 DEF Commit, Note, Torn
    <2>6. Torn => Torn'
      BY <2>4 DEF Torn, TearingDown
    <2> QED
      BY <1>1, <2>2, <2>3, <2>4, <2>5, <2>6
         DEF SessionSide, Beginning, NoTeardown, RefresherFollowsSession, Ended, At
<1>3. ASSUME NEW o \in Ops, RestoreNothing(o) \/ RestoreLater(o)
      PROVE  SessionSide'
    <2>1. Shaped(job[o]) /\ At(o, "restored") /\ o \in operations /\ Finish(o)
      BY <1>3 DEF Shape, RestoreNothing, RestoreLater, CommitUnauthenticated, CommitOperation,
                  OperationCurrent
    <2>2. snapshot.generation = 1 /\ Torn /\ ~ refresher
      BY <2>1 DEF Shaped, At, SessionSide, Beginning
    <2>3. /\ snapshot'.state \in {"unauthenticated", "soft_expired"}
          /\ snapshot'.generation = snapshot.generation + 1
          /\ operations' = {}
      BY <1>3, PublishFacts DEF RestoreNothing, RestoreLater, CommitUnauthenticated,
                                CommitOperation
    <2>4. refresher' = refresher
      BY <1>3 DEF RestoreNothing, RestoreLater
    <2>5. job'[o].at = "done" /\ \A p \in Ops : p # o => job'[p] = job[p]
      BY <2>1, IsOver
    <2>6. Torn'
      BY <2>2, <2>5 DEF Torn, TearingDown
    <2> QED
      BY <2>2, <2>3, <2>4, <2>5, <2>6
         DEF SessionSide, Beginning, NoTeardown, RefresherFollowsSession, Ended, At
<1>4. ASSUME NEW o \in Ops, Notify(o)
      PROVE  SessionSide'
    <2>1. /\ snapshot'.state \in {"unauthenticated", "hard_invalid"} /\ snapshot'.user = NoUser
          /\ snapshot'.generation = snapshot.generation + 1
          /\ operations' = {}
      BY <1>4, PublishFacts DEF Notify, NotifyLoggedOut, NotifyRefreshFailed, ForceTerminal
    <2>2. job'[o].at = "stop"
      BY <1>4, GoesTo DEF Notify, Places
    <2> QED
      BY <1>1, <2>1, <2>2
         DEF SessionSide, Beginning, NoTeardown, RefresherFollowsSession, Ended, At
<1>5. CASE AccessRejected
    <2>1. /\ snapshot'.state = "soft_expired" /\ snapshot'.generation = snapshot.generation + 1
          /\ operations' = {} /\ snapshot.state = "active"
          /\ UNCHANGED <<job, diverged, refresher>>
      BY <1>5, PublishFacts DEF AccessRejected, NotifyAccessRejected
    <2> QED
      BY <1>1, <2>1
         DEF SessionSide, Beginning, NoTeardown, RefresherFollowsSession, Ended, At, Torn,
             TearingDown
<1> QED
  BY <1>2, <1>3, <1>4, <1>5

\* The refresher is started and stopped.
LEMMA RefresherKeepsSession ==
  ASSUME IInv, LifecycleTypeOK, Shape, SessionSide, NEW o \in Ops,
         StartTokenRefresh(o) \/ StopTokenRefresh(o)
  PROVE  SessionSide'
<1>1. /\ UNCHANGED <<snapshot, operations, published, diverged>>
      /\ operations \subseteq Ops
      /\ snapshot.user # NoUser <=> snapshot.state \in {"active", "soft_expired"}
  BY DEF StartTokenRefresh, StopTokenRefresh, RunIfGenerationActive, vars, IInv, TypeOK
<1>2. CASE StartTokenRefresh(o)
  <2>1. /\ job[o].at = "run" /\ job'[o].at = "close" /\ job'[o].kind = job[o].kind
        /\ \A p \in Ops : p # o => job'[p] = job[p]
    BY <1>2, GoesTo DEF StartTokenRefresh, At, Places
  <2>2. refresher' = (refresher \/ GenerationActive(published[o]))
    BY <1>2 DEF StartTokenRefresh
  <2>3. Torn => Torn'
    BY <2>1 DEF Torn, TearingDown
  <2>4. Beginning'
    BY <1>1, <2>1, <2>2, <2>3 DEF SessionSide, Beginning, At, GenerationActive
  <2>5. RefresherFollowsSession'
    BY <1>1, <2>1, <2>2 DEF SessionSide, RefresherFollowsSession, At, Ended, GenerationActive
  <2> QED
    BY <1>1, <2>3, <2>4, <2>5 DEF SessionSide, NoTeardown
<1>3. CASE StopTokenRefresh(o)
  <2>1. /\ job[o].at = "stop" /\ job'[o].at = "delete" /\ job'[o].kind = job[o].kind
        /\ \A p \in Ops : p # o => job'[p] = job[p]
    BY <1>3, GoesTo DEF StopTokenRefresh, At, Places
  <2>2. refresher' = FALSE
    BY <1>3 DEF StopTokenRefresh
  <2>3. ~ Torn
    BY <2>1 DEF Torn, TearingDown
  <2> QED
    BY <1>1, <2>1, <2>2, <2>3
       DEF SessionSide, Beginning, NoTeardown, RefresherFollowsSession, At, Ended
<1> QED
  BY <1>2, <1>3

\* Every step keeps what is known of the session.
LEMMA StepKeepsSession ==
  ASSUME IInv, LifecycleTypeOK, Shape, SessionSide, [LifecycleNext]_allVars
  PROVE  SessionSide'
<1>1. ASSUME NEW o \in Ops, JobStep(o) PROVE SessionSide'
  <2>1. operations \subseteq Ops /\ \A p \in Ops \ {o} : job'[p] = job[p]
    BY <1>1, JobStepBecomes, BecomesKeeps DEF IInv, TypeOK
  <2> QED
    BY <1>1, <2>1, AsideSteps, AsideKeepsSession, BeginKeepsSession, PublicationKeepsSession,
       RefresherKeepsSession DEF JobStep
<1>2. CASE AccessRejected
  BY <1>2, PublicationKeepsSession
<1>3. CASE CloudRevokes \/ UNCHANGED allVars
  BY <1>3 DEF CloudRevokes, allVars, vars, SessionSide, Beginning, NoTeardown,
              RefresherFollowsSession, At, Ended, Torn, TearingDown
<1> QED
  BY <1>1, <1>2, <1>3 DEF LifecycleNext

-------------------------------------------------------------------------------
(* Memory and the record. *)

\* Nothing is claimed of copies that went astray.
LEMMA AstrayClaimsNothing == ASSUME diverged' # {} PROVE StoreSide'
BY DEF StoreSide, SessionIsBacked, EndedIsCleared, AtFirst, Deleted, Emptied, Vain, Found

\* A step of a job that has read, or does not read, and writes nothing.
Advances(o) ==
  /\ UNCHANGED <<snapshot, memory, disk, diverged>> /\ operations' \subseteq operations
  /\ TearingDown(o) <=> job'[o].at \in {"stop", "delete", "forget"}
  /\ job'[o].at \notin {"wait", "restored", "decide", "forget"}
  /\ HasRead(job'[o]) => HasRead(job[o])
  /\ job'[o].holds => job[o].holds /\ job'[o].first = job[o].first
  /\ job'[o].kind = "refresh" =>
       job[o].kind = "refresh" /\ job[o].at \notin {"get", "load", "wait", "close"}

\* Such a step keeps what is known of the copies.
LEMMA AdvanceKeepsStore ==
  ASSUME StoreSide, operations \subseteq Ops, NEW o \in Ops, Advances(o),
         \A p \in Ops : p # o => job'[p] = job[p]
  PROVE  StoreSide'
<1>1. Torn' => Torn
  BY DEF Torn, TearingDown, Advances
<1>2. SessionIsBacked' /\ EndedIsCleared' /\ Emptied'
  BY <1>1 DEF StoreSide, SessionIsBacked, EndedIsCleared, Emptied, Advances, Ended
<1>3. Deleted'
  BY DEF StoreSide, Deleted, Advances, At
<1>4. AtFirst'
  BY DEF StoreSide, AtFirst, Advances
<1>5. Vain'
  <2> SUFFICES ASSUME Ended, diverged = {}, NEW p \in operations', job'[p].kind = "refresh"
               PROVE  /\ ~ job'[p].holds /\ job'[p].at \in {"get", "load", "wait", "close"}
                      /\ job'[p].at = "load" => disk = NoUser
                      /\ job'[p].at = "wait" => job'[p].token = NoUser
    BY DEF Vain, Advances, Ended, At
  <2>1. p \in operations /\ p \in Ops
    BY DEF Advances
  <2>2. CASE p = o
    BY <2>1, <2>2 DEF StoreSide, Vain, Advances
  <2>3. CASE p # o
    BY <2>1, <2>3 DEF StoreSide, Vain, At
  <2> QED
    BY <2>2, <2>3
<1>6. Found'
  BY DEF StoreSide, Found, Advances, At
<1> QED
  BY <1>2, <1>3, <1>4, <1>5, <1>6 DEF StoreSide

\* Steps of that kind.
LEMMA AdvanceSteps ==
  ASSUME LifecycleTypeOK, Shape, NEW o \in Ops,
         \/ Decide(o) \/ CloudRenews(o) \/ CloudRejects(o) \/ CloudUnreachable(o)
         \/ DropAnswer(o) \/ AnswerRejected(o) \/ StartTokenRefresh(o) \/ StopTokenRefresh(o)
         \/ CloseJob(o) \/ RestoreOver(o) \/ RevokeRemotely(o)
  PROVE  Advances(o)
<1>1. job \in [Ops -> JobType] /\ job[o] \in JobType /\ Shaped(job[o])
  BY DEF LifecycleTypeOK, Shape
<1>2. UNCHANGED <<snapshot, memory, disk, diverged>> /\ operations' \subseteq operations
  BY DEF Decide, CloudRenews, CloudRejects, CloudUnreachable, DropAnswer, AnswerRejected,
         StartTokenRefresh, StopTokenRefresh, CloseJob, RestoreOver, RevokeRemotely, vars,
         storeVars, RunIfGenerationActive, CloseOperation
<1>3. CASE Decide(o)
  <2>1. PICK place \in {"close", "send"} :
          job'[o] = [job[o] EXCEPT !.at = place, !.token = ToSend(o)]
    BY <1>1, <1>3 DEF Decide
  <2>2. /\ job'[o].at = place /\ job'[o].kind = job[o].kind
        /\ job'[o].holds = job[o].holds /\ job'[o].first = job[o].first
    BY <1>1, <2>1 DEF JobType
  <2> QED
    BY <1>2, <1>3, <2>2, <1>1 DEF Advances, Decide, At, TearingDown, HasRead, Shaped
<1>4. CASE CloudRenews(o)
  <2>1. PICK t \in Users, place \in {"answered", "close"} :
          \/ job'[o] = [job[o] EXCEPT !.at = place, !.token = t]
          \/ job'[o] = [job[o] EXCEPT !.at = place]
    BY <1>1, <1>4 DEF CloudRenews, Fresh, Goto, LifecycleTypeOK
  <2>2. /\ job'[o].at = place /\ job'[o].kind = job[o].kind
        /\ job'[o].holds = job[o].holds /\ job'[o].first = job[o].first
    BY <1>1, <2>1 DEF JobType
  <2> QED
    BY <1>2, <1>4, <2>2, <1>1 DEF Advances, CloudRenews, At, TearingDown, HasRead, Shaped
<1>5. CASE \/ CloudRejects(o) \/ CloudUnreachable(o) \/ DropAnswer(o) \/ AnswerRejected(o)
           \/ StartTokenRefresh(o) \/ StopTokenRefresh(o) \/ RestoreOver(o)
  <2>1. PICK place \in {"rejected", "close", "notify", "delete"} :
          /\ Goto(o, place)
          /\ job[o].at \in {"send", "answered", "rejected", "run", "stop", "restored"}
          /\ place = "delete" <=> job[o].at = "stop"
          /\ place = "notify" => job[o].at \in {"rejected", "answered"} /\
                                 (job[o].at = "answered" => job[o].kind = "refresh")
    BY <1>5 DEF CloudRejects, CloudUnreachable, DropAnswer, AnswerRejected, StartTokenRefresh,
                StopTokenRefresh, RestoreOver, At
  <2>2. /\ job'[o].at = place /\ job'[o].kind = job[o].kind
        /\ job'[o].holds = job[o].holds /\ job'[o].first = job[o].first
    BY <2>1, GoesTo DEF Places
  <2> QED
    BY <1>2, <2>1, <2>2, <1>1 DEF Advances, TearingDown, HasRead, Shaped
<1>6. CASE CloseJob(o) \/ RevokeRemotely(o)
  <2>1. job[o].at \in {"close", "revoke"} /\ Finish(o)
    BY <1>6 DEF CloseJob, RevokeRemotely, At
  <2> QED
    BY <1>2, <2>1, IsOver DEF Advances, TearingDown, HasRead
<1> QED
  BY <1>3, <1>4, <1>5, <1>6

\* A job that begins has read nothing yet.
LEMMA BeginKeepsStore ==
  ASSUME IInv, LifecycleTypeOK, Shape, StoreSide, NEW o \in Ops,
         BeginLogin(o) \/ BeginRefresh(o) \/ BeginRestore(o) \/ BeginOther(o)
  PROVE  StoreSide'
<1>1. /\ UNCHANGED <<snapshot, memory, disk, diverged>>
      /\ operations' \subseteq operations \cup {o} /\ operations \subseteq Ops
  BY DEF BeginLogin, BeginRefresh, BeginRestore, BeginOther, BeginJob, BeginOperation, vars, IInv,
         TypeOK, storeVars
<1>2. PICK kind \in Kinds, place \in {"send", "get", "load"} :
        BeginJob(o, kind, place) /\ (kind = "refresh" => place = "get")
  BY DEF BeginLogin, BeginRefresh, BeginRestore, BeginOther, Kinds
<1>3. /\ job[o].at = "idle" /\ job'[o].at = place /\ job'[o].kind = kind /\ ~ job'[o].holds
      /\ \A p \in Ops : p # o => job'[p] = job[p]
  <2>1. place \in Places
    BY DEF Places
  <2> QED
    BY <1>2, <2>1, Begins
<1>4. Torn' => Torn
  BY <1>3 DEF Torn, TearingDown
<1>5. SessionIsBacked' /\ EndedIsCleared' /\ Emptied'
  BY <1>1, <1>4 DEF StoreSide, SessionIsBacked, EndedIsCleared, Emptied, Ended
<1>6. Deleted' /\ Found'
  BY <1>1, <1>3 DEF StoreSide, Deleted, Found, At
<1>7. AtFirst'
  BY <1>1, <1>3 DEF StoreSide, AtFirst, HasRead
<1>8. Vain'
  <2> SUFFICES ASSUME Ended, diverged = {}, NEW p \in operations', job'[p].kind = "refresh"
               PROVE  /\ ~ job'[p].holds /\ job'[p].at \in {"get", "load", "wait", "close"}
                      /\ job'[p].at = "load" => disk = NoUser
                      /\ job'[p].at = "wait" => job'[p].token = NoUser
    BY <1>1 DEF Vain, Ended, At
  <2>1. CASE p = o
    BY <1>2, <1>3, <2>1
  <2>2. CASE p # o
    BY <1>1, <1>3, <2>2 DEF StoreSide, Vain, At
  <2> QED
    BY <2>1, <2>2
<1> QED
  BY <1>5, <1>6, <1>7, <1>8 DEF StoreSide

\* Reading the credentials and taking the mutex.
LEMMA ReadingKeepsStore ==
  ASSUME IInv, LifecycleTypeOK, Shape, SessionSide, StoreSide, NEW o \in Ops,
         Get(o) \/ ReadRecord(o) \/ SetMemory(o) \/ WaitForRefreshMutex(o)
  PROVE  StoreSide'
<1>1. /\ job \in [Ops -> JobType] /\ job[o] \in JobType /\ Shaped(job[o])
      /\ memory \in Users \cup {NoUser} /\ disk \in Users \cup {NoUser} /\ operations \subseteq Ops
      /\ snapshot.state \in States /\ snapshot.user \in Users \cup {NoUser}
      /\ snapshot.user # NoUser <=> snapshot.state \in {"active", "soft_expired"}
  BY DEF LifecycleTypeOK, Shape, IInv, TypeOK, SnapshotType
<1>2. job[o].token \in Users \cup {NoUser}
  BY <1>1 DEF JobType
<1>3. /\ UNCHANGED <<snapshot, operations, disk>> /\ diverged \subseteq diverged'
      /\ job[o].at \in {"get", "load", "loaded", "wait"}
  BY DEF Get, ReadRecord, SetMemory, WaitForRefreshMutex, vars, storeVars, At
<1>4. \A p \in Ops : p # o => job'[p] = job[p]
  BY JobStepBecomes, BecomesKeeps DEF JobStep
<1> SUFFICES ASSUME diverged' = {} PROVE StoreSide'
  BY AstrayClaimsNothing
<1>5. diverged = {}
  BY <1>3
\* What is left to show when memory stays, or becomes what the record holds.
<1>6. ASSUME memory' = memory \/ (memory' = disk /\ disk # NoUser /\ memory \in {NoUser, disk}),
             job'[o].at \in {"done", "decide", "wait", "restored", "notify", "save", "load",
                             "loaded", "get", "close"},
             snapshot.generation = 1 =>
               /\ HasRead(job'[o]) => memory' = disk
               /\ job'[o].at \in {"wait", "restored"} => job'[o].token = disk
               /\ job'[o].holds => job'[o].first = disk,
             Ended /\ o \in operations /\ job'[o].kind = "refresh" =>
               /\ ~ job'[o].holds /\ job'[o].at \in {"get", "load", "wait", "close"}
               /\ job'[o].at = "load" => disk = NoUser
               /\ job'[o].at = "wait" => job'[o].token = NoUser,
             o \in operations /\ job'[o].at = "decide" => job'[o].token # NoUser
      PROVE  StoreSide'
  <2>1. ~ TearingDown(o) /\ ~ TearingDown(o)' /\ job'[o].at # "forget"
    BY <1>3, <1>6 DEF TearingDown
  <2>2. Torn <=> Torn'
    BY <1>4, <2>1 DEF Torn, TearingDown
  <2>3. SessionIsBacked'
    BY <1>3, <1>5, <1>6 DEF StoreSide, SessionIsBacked
  <2>4. EndedIsCleared'
    BY <1>3, <1>5, <1>6, <2>2 DEF StoreSide, EndedIsCleared, Ended
  <2>5. Deleted'
    BY <1>3, <1>4, <1>5, <2>1 DEF StoreSide, Deleted, At
  <2>6. Emptied'
    BY <1>3, <1>5, <1>6 DEF StoreSide, Emptied, Ended
  <2>7. AtFirst'
    BY <1>3, <1>4, <1>5, <1>6 DEF StoreSide, AtFirst
  <2>8. Vain'
    <3> SUFFICES ASSUME Ended, NEW p \in operations, job'[p].kind = "refresh"
                 PROVE  /\ ~ job'[p].holds /\ job'[p].at \in {"get", "load", "wait", "close"}
                        /\ job'[p].at = "load" => disk = NoUser
                        /\ job'[p].at = "wait" => job'[p].token = NoUser
      BY <1>3 DEF Vain, Ended, At
    <3>1. CASE p = o
      BY <1>6, <3>1
    <3>2. CASE p # o
      BY <1>1, <1>4, <1>5, <3>2 DEF StoreSide, Vain, At
    <3> QED
      BY <3>1, <3>2
  <2>9. Found'
    BY <1>1, <1>3, <1>4, <1>5, <1>6 DEF StoreSide, Found, At
  <2> QED
    BY <2>3, <2>4, <2>5, <2>6, <2>7, <2>8, <2>9 DEF StoreSide
<1>7. ASSUME NEW token \in Users \cup {NoUser}, Got(o, token),
             job[o].at \in {"get", "load", "loaded"}, memory' = memory \/ memory' = disk,
             snapshot.generation = 1 => memory' = disk /\ token = disk
      PROVE  /\ job'[o].at \in {"done", "decide", "wait", "restored", "notify", "save"}
             /\ snapshot.generation = 1 =>
                  /\ HasRead(job'[o]) => memory' = disk
                  /\ job'[o].at \in {"wait", "restored"} => job'[o].token = disk
                  /\ job'[o].holds => job'[o].first = disk
             /\ job'[o].at = "wait" => job'[o].token = token /\ ~ job[o].holds /\ ~ job'[o].holds
             /\ job'[o].at = "decide" => job'[o].token = token /\ job[o].kind = "refresh"
             /\ job'[o].kind = "refresh" =>
                  job[o].kind = "refresh" /\ job'[o].at \in {"wait", "decide"}
                  /\ job'[o].holds = job[o].holds /\ (job'[o].at = "decide" => job[o].holds)
             /\ job'[o].at = "decide" => job[o].holds
  <2>1. CASE job[o].kind = "reader"
    <3>1. job'[o] = [IdleJob EXCEPT !.at = "done"]
      BY <1>7, <2>1, GotResult
    <3>2. job'[o].at = "done" /\ job'[o].kind = "none" /\ ~ job'[o].holds
      BY <3>1 DEF IdleJob
    <3> QED
      BY <3>2 DEF HasRead
  <2>2. CASE job[o].kind # "reader"
    <3>1. /\ job'[o].kind = job[o].kind /\ job'[o].token = token
          /\ job'[o].holds = job[o].holds /\ job'[o].first = job[o].first
          /\ job'[o].at = Onward(o)
          /\ job[o].kind = "refresh" => Onward(o) = IF job[o].holds THEN "decide" ELSE "wait"
          /\ job[o].kind = "restore" => Onward(o) = "restored"
          /\ job[o].kind = "logout"  => Onward(o) = "notify"
          /\ job[o].kind = "profile" => Onward(o) = "save"
          /\ job[o].kind \in {"refresh", "restore", "logout", "profile", "reader"}
      BY <1>7, <2>2, GotResult
    <3>2. job'[o].at \in {"decide", "wait", "restored", "notify", "save"}
      BY <2>2, <3>1
    <3>3. snapshot.generation = 1 /\ job'[o].holds => job'[o].first = disk
      BY <1>5, <3>1 DEF StoreSide, AtFirst
    <3> QED
      BY <1>7, <2>2, <3>1, <3>2, <3>3
  <2> QED
    BY <2>1, <2>2
<1>8. CASE Get(o)
  <2>1. /\ memory' = memory /\ job[o].at = "get"
        /\ ~ (job[o].kind = "refresh" /\ memory # NoUser /\ \E p \in Ops : TearingDown(p))
    BY <1>8 DEF Get, storeVars, Note, At
  <2>2. CASE memory # NoUser
    <3>1. Got(o, memory)
      BY <1>8, <2>2 DEF Get
    <3>2. snapshot.generation = 1 => memory = disk
      BY <1>5, <2>2 DEF StoreSide, AtFirst
    <3>3. ~ (Ended /\ job[o].kind = "refresh")
      BY <1>5, <2>1, <2>2 DEF StoreSide, EndedIsCleared, Torn
    <3> QED
      BY <1>1, <1>6, <1>7, <2>1, <2>2, <3>1, <3>2, <3>3
  <2>3. CASE memory = NoUser /\ Finish(o)
    BY <1>6, <2>1, <2>3, IsOver DEF HasRead
  <2>4. CASE memory = NoUser /\ Goto(o, "load")
    <3>1. /\ job'[o].at = "load" /\ job'[o].kind = job[o].kind /\ job'[o].holds = job[o].holds
          /\ job'[o].first = job[o].first
      BY <2>4, GoesTo DEF Places
    <3>2. Ended => disk = NoUser
      BY <1>5, <2>4 DEF StoreSide, Emptied
    <3> QED
      BY <1>5, <1>6, <2>1, <3>1, <3>2 DEF HasRead, StoreSide, AtFirst, Vain
  <2> QED
    BY <1>8, <2>2, <2>3, <2>4 DEF Get
<1>9. CASE ReadRecord(o)
  <2>1. memory' = memory /\ job[o].at = "load"
    BY <1>9 DEF ReadRecord, storeVars, At
  <2>2. CASE disk = NoUser
    <3>1. Got(o, NoUser)
      BY <1>9, <2>2 DEF ReadRecord
    <3>2. snapshot.generation = 1 => memory = disk
      BY <1>5, <2>2 DEF StoreSide, AtFirst
    <3>3. o \in operations => ~ job[o].holds
      <4>1. SUFFICES ASSUME o \in operations, job[o].holds PROVE FALSE
        OBVIOUS
      <4>2. job[o].kind = "refresh" /\ job[o].first # NoUser
        BY <1>1, <4>1 DEF Shaped
      <4>3. CASE Ended
        BY <1>5, <4>1, <4>2, <4>3 DEF StoreSide, Vain
      <4>4. CASE snapshot.user # NoUser
        BY <1>5, <2>2, <4>4 DEF StoreSide, SessionIsBacked
      <4>5. CASE snapshot.state = "restoring"
        BY <1>5, <2>2, <4>1, <4>2, <4>5 DEF StoreSide, AtFirst, SessionSide, Beginning
      <4> QED
        BY <1>1, <4>3, <4>4, <4>5 DEF States, Ended
    <3> QED
      BY <1>1, <1>6, <1>7, <2>1, <2>2, <3>1, <3>2, <3>3
  <2>3. CASE disk # NoUser
    <3>1. job'[o] = [job[o] EXCEPT !.token = disk, !.at = "loaded"]
      BY <1>1, <1>9, <2>3 DEF ReadRecord
    <3>2. /\ job'[o].at = "loaded" /\ job'[o].kind = job[o].kind /\ job'[o].holds = job[o].holds
          /\ job'[o].first = job[o].first
      BY <1>1, <3>1 DEF JobType
    <3> QED
      BY <1>5, <1>6, <2>1, <2>3, <3>2 DEF HasRead, StoreSide, AtFirst, Vain, At
  <2> QED
    BY <2>2, <2>3
<1>10. CASE SetMemory(o)
  <2>1. /\ memory' = disk /\ job[o].token = disk /\ job[o].at = "loaded"
        /\ memory \in {NoUser, disk} /\ Got(o, disk)
    BY <1>10 DEF SetMemory, Note, At
  <2>2. disk # NoUser
    BY <1>1, <2>1 DEF Shaped
  <2>3. ~ (Ended /\ o \in operations /\ job[o].kind = "refresh")
    BY <1>5, <2>1 DEF StoreSide, Vain
  <2> QED
    BY <1>1, <1>6, <1>7, <2>1, <2>2, <2>3
<1>11. CASE WaitForRefreshMutex(o)
  <2>1. memory' = memory /\ job[o].at = "wait"
    BY <1>11 DEF WaitForRefreshMutex, storeVars, At
  <2>2. CASE job[o].token = NoUser
    <3>1. /\ job'[o].at = "close" /\ job'[o].holds = job[o].holds
      BY <1>11, <2>2, GoesTo DEF WaitForRefreshMutex, Places
    <3>2. ~ job'[o].holds
      BY <1>1, <2>1, <3>1 DEF Shaped
    <3> QED
      BY <1>6, <2>1, <3>1, <3>2 DEF HasRead
  <2>3. CASE job[o].token # NoUser
    <3>1. job'[o] = [job[o] EXCEPT !.at = "get", !.holds = TRUE, !.first = job[o].token]
      BY <1>1, <1>11, <2>3 DEF WaitForRefreshMutex
    <3>2. /\ job'[o].at = "get" /\ job'[o].kind = job[o].kind /\ job'[o].first = job[o].token
      BY <1>1, <3>1 DEF JobType
    <3>3. ~ (Ended /\ o \in operations /\ job[o].kind = "refresh")
      BY <1>5, <2>1, <2>3 DEF StoreSide, Vain, At
    <3>4. snapshot.generation = 1 => memory = disk /\ job[o].token = disk
      BY <1>5, <2>1 DEF StoreSide, AtFirst, HasRead
    <3> QED
      BY <1>6, <2>1, <3>2, <3>3, <3>4
  <2> QED
    BY <2>2, <2>3
<1> QED
  BY <1>8, <1>9, <1>10, <1>11

\* A publication, with the save of a commit.
LEMMA PublicationKeepsStore ==
  ASSUME IInv, LifecycleTypeOK, Shape, SessionSide, StoreSide,
         \/ AccessRejected
         \/ \E o \in Ops : \/ CommitAnswer(o) \/ RestoreProfile(o) \/ RestoreNothing(o)
                           \/ RestoreLater(o) \/ Notify(o)
  PROVE  StoreSide'
<1> SUFFICES ASSUME diverged' = {} PROVE StoreSide'
  BY AstrayClaimsNothing
<1>1. /\ snapshot.generation \in Nat /\ snapshot.generation # 0 /\ snapshot.state \in States
      /\ snapshot.user # NoUser <=> snapshot.state \in {"active", "soft_expired"}
  BY DEF IInv, TypeOK, SnapshotType, SessionSide, Beginning
\* Only a snapshot that is the first, or has ended, claims more than its user.
<1>2. ASSUME snapshot'.generation = snapshot.generation + 1, operations' = {},
             SessionIsBacked', EndedIsCleared', Deleted', Emptied'
      PROVE  StoreSide'
  <2>1. snapshot'.generation # 1
    BY <1>1, <1>2
  <2> QED
    BY <1>2, <2>1 DEF StoreSide, AtFirst, Vain, Found
<1>3. ASSUME NEW o \in Ops, CommitAnswer(o) \/ RestoreProfile(o)
      PROVE  StoreSide'
  <2>1. /\ Commit(o) /\ CommitOperation(o, "active", job[o].token) /\ Goto(o, "run")
    BY <1>3 DEF CommitAnswer, RestoreProfile, Commit
  <2>2. /\ snapshot'.state = "active" /\ snapshot'.generation = snapshot.generation + 1
        /\ snapshot'.user = job[o].token /\ operations' = {}
    BY <2>1, PublishFacts DEF CommitOperation
  <2>3. job'[o].at = "run" /\ \A p \in Ops : p # o => job'[p] = job[p]
    BY <2>1, GoesTo DEF Places
  <2>4. /\ memory' = job[o].token /\ disk' = job[o].token
        /\ \A p \in Ops : ~ TearingDown(p)
    BY <2>1 DEF Commit, SaveUserInfo, Note
  <2>5. Deleted'
    BY <2>3, <2>4 DEF Deleted, At, TearingDown
  <2> QED
    BY <1>2, <2>2, <2>4, <2>5 DEF SessionIsBacked, EndedIsCleared, Emptied, Ended
<1>4. ASSUME NEW o \in Ops, RestoreNothing(o) \/ RestoreLater(o)
      PROVE  StoreSide'
  <2>1. /\ Shaped(job[o]) /\ job[o].at = "restored" /\ o \in operations /\ Finish(o)
        /\ UNCHANGED <<memory, disk, diverged>>
    BY <1>4 DEF Shape, RestoreNothing, RestoreLater, CommitUnauthenticated, CommitOperation,
                OperationCurrent, At, storeVars
  <2>2. snapshot.generation = 1 /\ Torn
    BY <2>1 DEF Shaped, SessionSide, Beginning
  <2>3. memory = job[o].token /\ disk = job[o].token
    BY <2>1, <2>2 DEF StoreSide, AtFirst, HasRead
  <2>4. /\ snapshot'.generation = snapshot.generation + 1 /\ operations' = {}
        /\ snapshot'.user = job[o].token
        /\ snapshot'.state = "unauthenticated" => job[o].token = NoUser
        /\ snapshot'.state \in {"unauthenticated", "soft_expired"}
    BY <1>4, PublishFacts DEF RestoreNothing, RestoreLater, CommitUnauthenticated, CommitOperation
  <2>5. job'[o].at = "done" /\ \A p \in Ops : p # o => job'[p] = job[p]
    BY <2>1, IsOver
  <2>6. Deleted'
    BY <2>2, <2>5 DEF Deleted, Torn, TearingDown, At
  <2> QED
    BY <1>2, <2>1, <2>3, <2>4, <2>6 DEF SessionIsBacked, EndedIsCleared, Emptied, Ended
<1>5. ASSUME NEW o \in Ops, Notify(o)
      PROVE  StoreSide'
  <2>1. /\ job[o].at = "notify" /\ Goto(o, "stop") /\ UNCHANGED <<memory, disk, diverged>>
    BY <1>5 DEF Notify, At, storeVars
  <2>2. /\ snapshot'.user = NoUser
        /\ snapshot'.generation = snapshot.generation + 1 /\ operations' = {}
    BY <1>5, PublishFacts DEF Notify, NotifyLoggedOut, NotifyRefreshFailed, ForceTerminal
  <2>3. job'[o].at = "stop" /\ \A p \in Ops : p # o => job'[p] = job[p]
    BY <2>1, GoesTo DEF Places
  <2>4. ~ Torn'
    BY <2>3 DEF Torn, TearingDown
  <2>5. Deleted'
    BY <2>1, <2>3 DEF StoreSide, Deleted, At
  <2>6. memory = NoUser => disk = NoUser
    <3>1. CASE Ended
      BY <2>1, <3>1 DEF StoreSide, Emptied
    <3>2. CASE snapshot.user # NoUser
      BY <2>1, <3>2 DEF StoreSide, SessionIsBacked
    <3>3. CASE snapshot.state = "restoring"
      BY <2>1, <3>3 DEF StoreSide, AtFirst, HasRead, SessionSide, Beginning
    <3> QED
      BY <1>1, <3>1, <3>2, <3>3 DEF States, Ended
  <2> QED
    BY <1>2, <2>1, <2>2, <2>4, <2>5, <2>6 DEF SessionIsBacked, EndedIsCleared, Emptied
<1>6. CASE AccessRejected
  <2>1. /\ snapshot'.state = "soft_expired" /\ snapshot'.generation = snapshot.generation + 1
        /\ snapshot'.user = snapshot.user /\ operations' = {} /\ snapshot.state = "active"
        /\ UNCHANGED <<job, diverged, memory, disk>>
    BY <1>6, PublishFacts DEF AccessRejected, NotifyAccessRejected, storeVars
  <2> QED
    BY <1>2, <2>1 DEF StoreSide, SessionIsBacked, EndedIsCleared, Deleted, Emptied, Ended, At
<1> QED
  BY <1>3, <1>4, <1>5, <1>6

\* The record is deleted, and then memory emptied.
LEMMA TeardownKeepsStore ==
  ASSUME IInv, LifecycleTypeOK, Shape, SessionSide, StoreSide, NEW o \in Ops,
         DeleteRecord(o) \/ Forget(o)
  PROVE  StoreSide'
<1> SUFFICES ASSUME diverged' = {} PROVE StoreSide'
  BY AstrayClaimsNothing
<1>1. /\ UNCHANGED <<snapshot, operations>> /\ operations \subseteq Ops /\ diverged = {}
      /\ job[o].at \in {"delete", "forget"}
  BY DEF DeleteRecord, Forget, vars, IInv, TypeOK, At
<1>2. ~ Torn
  BY <1>1 DEF Torn, TearingDown
<1>3. disk' = NoUser /\ memory' \in {memory, NoUser}
  BY <1>1 DEF DeleteRecord, Forget, Note, StoreSide, Deleted, At
<1>4. /\ job[o].at = "delete" => job'[o].at = "forget" /\ memory' = memory
      /\ job[o].at = "forget" => job'[o].at \in {"close", "revoke"} /\ memory' = NoUser
      /\ \A p \in Ops : p # o => job'[p] = job[p]
  BY GoesTo DEF DeleteRecord, Forget, At, Places
<1>5. snapshot.user = NoUser /\ snapshot.generation # 1
  BY <1>1, <1>2 DEF SessionSide, NoTeardown, Beginning
<1>6. SessionIsBacked' /\ AtFirst'
  BY <1>1, <1>5 DEF SessionIsBacked, AtFirst
<1>7. Torn' => memory' = NoUser
  BY <1>1, <1>4 DEF Torn, TearingDown
<1>8. EndedIsCleared' /\ Deleted' /\ Emptied'
  BY <1>3, <1>7 DEF EndedIsCleared, Deleted, Emptied
<1>9. Vain'
  <2> SUFFICES ASSUME Ended, NEW p \in operations, job'[p].kind = "refresh"
               PROVE  /\ ~ job'[p].holds /\ job'[p].at \in {"get", "load", "wait", "close"}
                      /\ job'[p].at = "wait" => job'[p].token = NoUser
    BY <1>1, <1>3 DEF Vain, Ended, At
  <2>1. p # o
    <3>1. job'[o].kind = job[o].kind
      BY GoesTo DEF DeleteRecord, Forget, Places
    <3> QED
      BY <1>1, <3>1 DEF StoreSide, Vain
  <2> QED
    BY <1>1, <1>4, <2>1 DEF StoreSide, Vain, At
<1>10. Found'
  BY <1>1, <1>4 DEF StoreSide, Found, At
<1> QED
  BY <1>6, <1>8, <1>9, <1>10 DEF StoreSide

\* A profile saved over the credentials it was read from changes neither copy.
LEMMA ProfileKeepsStore ==
  ASSUME IInv, LifecycleTypeOK, StoreSide, NEW o \in Ops, SaveProfile(o)
  PROVE  StoreSide'
<1> SUFFICES ASSUME diverged' = {} PROVE StoreSide'
  BY AstrayClaimsNothing
<1>1. memory' = memory /\ disk' = disk /\ diverged' = diverged
  BY DEF SaveProfile, SaveUserInfo, Note
<1>2. UNCHANGED vars /\ job[o].at = "save" /\ Finish(o) /\ operations \subseteq Ops
  BY DEF SaveProfile, At, IInv, TypeOK
<1>3. Advances(o) /\ \A p \in Ops : p # o => job'[p] = job[p]
  BY <1>1, <1>2, IsOver DEF Advances, TearingDown, HasRead, vars
<1> QED
  BY <1>2, <1>3, AdvanceKeepsStore

\* Every step keeps what is known of the copies.
LEMMA StepKeepsStore ==
  ASSUME IInv, LifecycleTypeOK, Shape, SessionSide, StoreSide, [LifecycleNext]_allVars
  PROVE  StoreSide'
<1>1. ASSUME NEW o \in Ops, JobStep(o) PROVE StoreSide'
  <2>1. operations \subseteq Ops /\ \A p \in Ops : p # o => job'[p] = job[p]
    BY <1>1, JobStepBecomes, BecomesKeeps DEF IInv, TypeOK
  <2> QED
    BY <1>1, <2>1, AdvanceSteps, AdvanceKeepsStore, BeginKeepsStore, ReadingKeepsStore,
       PublicationKeepsStore, TeardownKeepsStore, ProfileKeepsStore DEF JobStep
<1>2. CASE AccessRejected
  BY <1>2, PublicationKeepsStore
<1>3. CASE CloudRevokes \/ UNCHANGED allVars
  BY <1>3 DEF CloudRevokes, allVars, vars, storeVars, StoreSide, SessionIsBacked,
              EndedIsCleared, AtFirst, Deleted, Emptied, Vain, Found, At, Ended, Torn, TearingDown
<1> QED
  BY <1>1, <1>2, <1>3 DEF LifecycleNext

-------------------------------------------------------------------------------
(* The tokens. *)

\* A step of a job that has no token from the cloud but those already known.
Borrows(o) ==
  /\ issued' = issued /\ accepted' \cup revoked' = accepted \cup revoked
  /\ accepted' \cap revoked' = {} /\ revoked \subseteq revoked'
  /\ (lost => lost') /\ (dropped => dropped') /\ diverged \subseteq diverged'
  /\ {memory', disk'} \subseteq {NoUser, memory, disk, job[o].token}
  /\ job'[o].token \in {NoUser, memory, disk, job[o].token, job[o].first}
  /\ job'[o].first \in {NoUser, job[o].token, job[o].first}
  /\ job'[o].at # "answered"

\* What remains to be shown of it: it takes up no replaced token.
Cautious(o) ==
  Clean' =>
    /\ job'[o].holds /\ job'[o].at \in {"loaded", "decide", "send"} => job'[o].token \notin Spent
    /\ {memory', disk'} \cap Spent # {} =>
         /\ {memory', disk'} \subseteq {NoUser, memory, disk}
         /\ Midway(job[o]) => Midway(job'[o])
    /\ job'[o].at = "rejected" => job'[o].token \in revoked'

\* Such a step keeps what is known of the tokens.
LEMMA BorrowKeepsTokens ==
  ASSUME LifecycleTypeOK, Shape, TokenSide, NEW o \in Ops, Borrows(o), Cautious(o),
         \A p \in Ops : p # o => job'[p] = job[p]
  PROVE  TokenSide'
<1>1. NoUser \notin issued
  BY ConstantsAssumption DEF LifecycleTypeOK
<1>2. Spent' = Spent
  BY DEF Spent, Borrows
<1>3. Clean' => Clean
  BY DEF Clean, Borrows
<1>4. Tokens'
  <2>1. {memory', disk'} \subseteq issued \cup {NoUser}
    BY DEF Borrows, TokenSide, Tokens
  <2>2. \A p \in Ops : {job'[p].token, job'[p].first} \subseteq issued \cup {NoUser}
    BY DEF Borrows, TokenSide, Tokens
  <2> QED
    BY <2>1, <2>2 DEF Borrows, Tokens
<1>5. Private'
  <2> SUFFICES ASSUME NEW p \in Ops, job'[p].at = "answered"
               PROVE  /\ job'[p].token \notin {memory', disk'}
                      /\ \A q \in Ops \ {p} : job'[p].token \notin {job'[q].token, job'[q].first}
    BY DEF Private, At
  <2>1. p # o /\ job'[p] = job[p] /\ job[p].at = "answered"
    BY DEF Borrows
  <2>2. /\ job[p].token \notin {memory, disk} /\ job[p].token # NoUser
        /\ \A q \in Ops \ {p} : job[p].token \notin {job[q].token, job[q].first}
    BY <2>1 DEF TokenSide, Private, At, Shape, Shaped
  <2> QED
    BY <2>1, <2>2 DEF Borrows
<1>6. Unspent'
  BY <1>2, <1>3 DEF TokenSide, Unspent, Cautious, Borrows, At
<1>7. Replacing'
  <2> SUFFICES ASSUME Clean', {memory', disk'} \cap Spent # {}
               PROVE  \E p \in Ops : Midway(job'[p])
    BY <1>2 DEF Replacing
  <2>1. /\ {memory, disk} \cap Spent # {}
        /\ Midway(job[o]) => Midway(job'[o])
    BY <1>1 DEF Cautious, Spent
  <2>2. PICK p \in Ops : Midway(job[p])
    BY <1>3, <2>1 DEF TokenSide, Replacing
  <2> QED
    BY <2>1, <2>2
<1>8. RejectedForAReason'
  BY <1>3 DEF TokenSide, RejectedForAReason, Excused, At, Cautious, Borrows, Clean
<1> QED
  BY <1>4, <1>5, <1>6, <1>7, <1>8 DEF TokenSide

\* All steps of jobs but the renewal are of that kind.
LEMMA BorrowSteps ==
  ASSUME LifecycleTypeOK, Shape, TokenSide, NEW o \in Ops, JobStep(o), ~ CloudRenews(o)
  PROVE  Borrows(o)
<1>1. /\ job \in [Ops -> JobType] /\ job[o] \in JobType
      /\ memory \in Users \cup {NoUser} /\ disk \in Users \cup {NoUser}
      /\ job[o].token \in Users \cup {NoUser} /\ job[o].first \in Users \cup {NoUser}
  BY DEF LifecycleTypeOK, JobType
<1> USE DEF JobStep, BeginLogin, BeginRefresh, BeginRestore, BeginOther, Get, ReadRecord,
            SetMemory, WaitForRefreshMutex, Decide, CloudRejects, CloudUnreachable, CommitAnswer,
            DropAnswer, AnswerRejected, StartTokenRefresh, CloseJob, RestoreNothing,
            RestoreProfile, RestoreLater, RestoreOver, Notify, StopTokenRefresh, DeleteRecord,
            Forget, RevokeRemotely, SaveProfile, Commit
<1>2. /\ issued' = issued /\ accepted' \cup revoked' = accepted \cup revoked
      /\ accepted' \cap revoked' = {} /\ revoked \subseteq revoked'
  BY DEF TokenSide, Tokens, cloudVars, BeginJob
<1>3. (lost => lost') /\ (dropped => dropped') /\ diverged \subseteq diverged'
  <2>1. lost => lost'
    BY DEF cloudVars, BeginJob
  <2>2. dropped => dropped'
    BY DEF cloudVars, BeginJob, LifecycleTypeOK
  <2>3. diverged \subseteq diverged'
    BY DEF BeginJob
  <2> QED
    BY <2>1, <2>2, <2>3
<1>4. {memory', disk'} \subseteq {NoUser, memory, disk, job[o].token}
  BY DEF storeVars, SaveUserInfo, BeginJob
<1>5. \/ \E place \in Places \ {"answered"} : Goto(o, place)
      \/ Finish(o)
      \/ \E kind \in Kinds, place \in Places \ {"answered"} : BeginJob(o, kind, place)
      \/ \E token \in {NoUser, memory, job[o].token} :
           Got(o, token) /\ job[o].at \in {"get", "load", "loaded"}
      \/ job' = [job EXCEPT ![o].token = disk, ![o].at = "loaded"]
      \/ job' = [job EXCEPT ![o].at = "get", ![o].holds = TRUE, ![o].first = job[o].token]
      \/ job' = [job EXCEPT ![o].at = IF Rotated(o) \/ ~ OperationCurrent(o)
                                        THEN "close" ELSE "send",
                            ![o].token = ToSend(o)]
  BY DEF At, Places, Kinds

<1> HIDE DEF JobStep, BeginLogin, BeginRefresh, BeginRestore, BeginOther, Get, ReadRecord,
            SetMemory, WaitForRefreshMutex, Decide, CloudRejects, CloudUnreachable, CommitAnswer,
            DropAnswer, AnswerRejected, StartTokenRefresh, CloseJob, RestoreNothing,
            RestoreProfile, RestoreLater, RestoreOver, Notify, StopTokenRefresh, DeleteRecord,
            Forget, RevokeRemotely, SaveProfile, Commit
<1>6. /\ job'[o].token \in {NoUser, memory, disk, job[o].token, job[o].first}
      /\ job'[o].first \in {NoUser, job[o].token, job[o].first}
      /\ job'[o].at # "answered"
  <2>1. ASSUME NEW place \in Places \ {"answered"}, Goto(o, place)
        PROVE  /\ job'[o].token = job[o].token /\ job'[o].first = job[o].first
               /\ job'[o].at # "answered"
    BY <2>1, GoesTo
  <2>2. CASE Finish(o)
    BY <2>2, IsOver
  <2>3. ASSUME NEW kind \in Kinds, NEW place \in Places \ {"answered"}, BeginJob(o, kind, place)
        PROVE  job'[o].token = NoUser /\ job'[o].first = NoUser /\ job'[o].at # "answered"
    BY <2>3, Begins
  <2>4. ASSUME NEW token \in {NoUser, memory, job[o].token}, Got(o, token),
               job[o].at \in {"get", "load", "loaded"}
        PROVE  /\ job'[o].token \in {NoUser, token}
               /\ job'[o].first \in {NoUser, job[o].first}
               /\ job'[o].at # "answered"
    <3>1. token \in Users \cup {NoUser}
      BY <1>1
    <3>2. CASE job[o].kind = "reader"
      <4>1. job'[o] = [IdleJob EXCEPT !.at = "done"]
        BY <2>4, <3>1, <3>2, GotResult
      <4> QED
        BY <4>1 DEF IdleJob
    <3>3. CASE job[o].kind # "reader"
      BY <2>4, <3>1, <3>3, GotResult
    <3> QED
      BY <3>2, <3>3
  <2>5. CASE job' = [job EXCEPT ![o].token = disk, ![o].at = "loaded"]
    <3>1. job'[o] = [job[o] EXCEPT !.token = disk, !.at = "loaded"]
      BY <1>1, <2>5
    <3> QED
      BY <1>1, <3>1 DEF JobType
  <2>6. CASE job' = [job EXCEPT ![o].at = "get", ![o].holds = TRUE, ![o].first = job[o].token]
    <3>1. job'[o] = [job[o] EXCEPT !.at = "get", !.holds = TRUE, !.first = job[o].token]
      BY <1>1, <2>6
    <3> QED
      BY <1>1, <3>1 DEF JobType
  <2>7. CASE job' = [job EXCEPT ![o].at = IF Rotated(o) \/ ~ OperationCurrent(o)
                                            THEN "close" ELSE "send",
                                ![o].token = ToSend(o)]
    <3>1. PICK place \in {"close", "send"} :
            job'[o] = [job[o] EXCEPT !.at = place, !.token = ToSend(o)]
      BY <1>1, <2>7
    <3> QED
      BY <1>1, <3>1 DEF JobType, ToSend
  <2> QED
    BY <1>5, <2>1, <2>2, <2>3, <2>4, <2>5, <2>6, <2>7
<1> QED
  BY <1>2, <1>3, <1>4, <1>6 DEF Borrows

\* While a refresh that holds the mutex reads, neither copy is a replaced token.
LEMMA ReadsUnspent ==
  ASSUME LifecycleTypeOK, TokenSide, Clean, NEW o \in Ops, job[o].holds, ~ Midway(job[o])
  PROVE  memory \notin Spent /\ disk \notin Spent
<1>1. \A p \in Ops : job[p].holds => p = o
  BY DEF LifecycleTypeOK
<1> QED
  BY <1>1 DEF TokenSide, Replacing, Midway

\* No step of a job takes up a replaced token.
LEMMA CautiousSteps ==
  ASSUME LifecycleTypeOK, Shape, StoreSide, TokenSide, NEW o \in Ops,
         JobStep(o), ~ CloudRenews(o)
  PROVE  Cautious(o)
<1>1. /\ job \in [Ops -> JobType] /\ job[o] \in JobType /\ Shaped(job[o])
      /\ memory \in Users \cup {NoUser} /\ disk \in Users \cup {NoUser}
      /\ job[o].token \in Users \cup {NoUser}
  BY DEF LifecycleTypeOK, JobType, Shape
<1>2. Borrows(o)
  BY BorrowSteps
<1> SUFFICES ASSUME Clean' PROVE Cautious(o)
  BY DEF Cautious
<1>3. Clean /\ diverged = {} /\ diverged' = {} /\ ~ dropped'
  BY <1>2 DEF Clean, Borrows
<1>4. NoUser \notin Spent
  BY ConstantsAssumption DEF LifecycleTypeOK, Spent
<1>5. CASE BeginLogin(o) \/ BeginRefresh(o) \/ BeginRestore(o) \/ BeginOther(o)
  <2>1. PICK kind \in Kinds, place \in {"send", "get", "load"} : BeginJob(o, kind, place)
    BY <1>5 DEF BeginLogin, BeginRefresh, BeginRestore, BeginOther, Kinds
  <2>2. /\ job'[o].at = place /\ ~ job[o].holds /\ ~ job'[o].holds
        /\ UNCHANGED <<memory, disk>>
    <3>1. place \in Places
      BY DEF Places
    <3> QED
      BY <2>1, <3>1, Begins DEF BeginJob, storeVars
  <2> QED
    BY <2>2 DEF Cautious, Midway
<1>6. CASE \/ CloudUnreachable(o) \/ CloudRejects(o) \/ DropAnswer(o) \/ AnswerRejected(o)
           \/ StartTokenRefresh(o) \/ RestoreOver(o) \/ Notify(o) \/ StopTokenRefresh(o)
  <2>1. /\ UNCHANGED <<memory, disk>>
        /\ \E place \in {"close", "rejected", "notify", "stop", "delete"} :
             /\ Goto(o, place)
             /\ place = "rejected" => CloudRejects(o)
             /\ Midway(job[o]) => place \in {"notify", "stop", "delete"}
    <3>1. UNCHANGED <<memory, disk>>
      BY <1>6 DEF CloudUnreachable, CloudRejects, DropAnswer, AnswerRejected, StartTokenRefresh,
                  RestoreOver, Notify, StopTokenRefresh, storeVars
    <3>2. CASE CloudUnreachable(o) \/ StartTokenRefresh(o) \/ RestoreOver(o)
      BY <3>1, <3>2 DEF CloudUnreachable, StartTokenRefresh, RestoreOver, At, Midway
    <3>3. CASE CloudRejects(o)
      BY <3>1, <3>3 DEF CloudRejects, At, Midway
    <3>4. CASE DropAnswer(o)
      BY <1>1, <1>3, <3>1, <3>4 DEF DropAnswer, At, Midway, Shaped
    <3>5. CASE AnswerRejected(o)
      BY <3>1, <3>5 DEF AnswerRejected, At, Midway
    <3>6. CASE Notify(o) \/ StopTokenRefresh(o)
      BY <3>1, <3>6 DEF Notify, StopTokenRefresh
    <3> QED
      BY <1>6, <3>2, <3>3, <3>4, <3>5, <3>6
  <2>2. PICK place \in {"close", "rejected", "notify", "stop", "delete"} :
          /\ Goto(o, place)
          /\ place = "rejected" => CloudRejects(o)
          /\ Midway(job[o]) => place \in {"notify", "stop", "delete"}
    BY <2>1
  <2>3. job'[o].at = place /\ job'[o].token = job[o].token /\ job'[o].holds = job[o].holds
    BY <2>2, GoesTo DEF Places
  <2>4. CloudRejects(o) => job[o].token \in revoked'
    <3>1. SUFFICES ASSUME CloudRejects(o) PROVE job[o].token \in revoked
      BY <1>2 DEF Borrows
    <3>2. job[o].at = "send" /\ job[o].kind = "refresh" /\ job[o].token \notin accepted
      BY <3>1 DEF CloudRejects, At
    <3>3. job[o].token \in issued /\ job[o].token \notin Spent
      BY <1>1, <1>3, <3>2 DEF Shaped, TokenSide, Tokens, Unspent
    <3> QED
      BY <3>2, <3>3 DEF Spent
  <2> QED
    BY <2>1, <2>2, <2>3, <2>4 DEF Cautious, Midway
<1>7. CASE DeleteRecord(o) \/ Forget(o)
  <2>1. CASE DeleteRecord(o)
    <3>1. job'[o].at = "forget" /\ job'[o].holds = job[o].holds
      BY <2>1, GoesTo DEF DeleteRecord, Places
    <3>2. memory' = memory /\ disk' \in {NoUser, disk}
      BY <2>1 DEF DeleteRecord
    <3> QED
      BY <3>1, <3>2 DEF Cautious, Midway
  <2>2. CASE Forget(o)
    <3>1. job'[o].at \in {"close", "revoke"}
      BY <2>2, GoesTo DEF Forget, Places
    <3>2. memory' = NoUser /\ disk' = NoUser
      BY <1>3, <2>2 DEF Forget, StoreSide, Deleted
    <3> QED
      BY <1>4, <3>1, <3>2 DEF Cautious
  <2> QED
    BY <1>7, <2>1, <2>2
<1>8. CASE \/ CloseJob(o) \/ RestoreNothing(o) \/ RestoreLater(o) \/ RevokeRemotely(o)
           \/ SaveProfile(o)
  <2>1. Finish(o) /\ job[o].at \in {"close", "restored", "revoke", "save"}
    BY <1>8 DEF CloseJob, RestoreNothing, RestoreLater, RevokeRemotely, SaveProfile, At
  <2>2. UNCHANGED <<memory, disk>>
    BY <1>3, <1>8 DEF CloseJob, RestoreNothing, RestoreLater, RevokeRemotely, SaveProfile,
                      SaveUserInfo, storeVars, Note
  <2>3. job'[o].at = "done"
    BY <2>1, IsOver
  <2> QED
    BY <2>1, <2>2, <2>3 DEF Cautious, Midway
<1>9. CASE CommitAnswer(o) \/ RestoreProfile(o)
  <2>1. Commit(o) /\ Goto(o, "run")
    BY <1>9 DEF CommitAnswer, RestoreProfile, Commit
  <2>2. memory' = job[o].token /\ disk' = job[o].token
    BY <1>3, <2>1 DEF Commit, SaveUserInfo, Note
  <2>3. job[o].token \notin Spent
    BY <1>3, <1>9 DEF CommitAnswer, RestoreProfile, TokenSide, Unspent, Spent
  <2>4. job'[o].at = "run"
    BY <2>1, GoesTo DEF Places
  <2> QED
    BY <2>2, <2>3, <2>4 DEF Cautious
<1>10. ASSUME NEW token \in {NoUser, memory, job[o].token}, Got(o, token),
              job[o].at \in {"get", "load", "loaded"}, memory' \in {memory, disk}, disk' = disk,
              job[o].holds => token \notin Spent
       PROVE  Cautious(o)
  <2>1. token \in Users \cup {NoUser}
    BY <1>1, <1>10
  <2>2. CASE job[o].kind = "reader"
    <3>1. job'[o] = [IdleJob EXCEPT !.at = "done"]
      BY <1>10, <2>1, <2>2, GotResult
    <3>2. job'[o].at = "done"
      BY <3>1 DEF IdleJob
    <3> QED
      BY <1>10, <3>2 DEF Cautious, Midway
  <2>3. CASE job[o].kind # "reader"
    <3>1. /\ job'[o].token = token /\ job'[o].holds = job[o].holds
          /\ job'[o].at \in {"decide", "wait", "restored", "notify", "save"}
      BY <1>10, <2>1, <2>3, GotResult
    <3> QED
      BY <1>10, <3>1 DEF Cautious, Midway
  <2> QED
    BY <2>2, <2>3
<1>11. CASE Get(o)
  <2>1. UNCHANGED <<memory, disk>> /\ job[o].at = "get"
    BY <1>11 DEF Get, storeVars, At
  <2>2. CASE Got(o, memory)
    BY <1>3, <1>10, <2>1, <2>2, ReadsUnspent DEF Midway
  <2>3. CASE Finish(o)
    BY <2>1, <2>3, IsOver DEF Cautious, Midway
  <2>4. CASE Goto(o, "load")
    <3>1. job'[o].at = "load"
      BY <2>4, GoesTo DEF Places
    <3> QED
      BY <2>1, <3>1 DEF Cautious, Midway
  <2> QED
    BY <1>11, <2>2, <2>3, <2>4 DEF Get
<1>12. CASE ReadRecord(o)
  <2>1. UNCHANGED <<memory, disk>> /\ job[o].at = "load"
    BY <1>12 DEF ReadRecord, storeVars, At
  <2>2. CASE disk = NoUser
    BY <1>4, <1>10, <1>12, <2>1, <2>2 DEF ReadRecord
  <2>3. CASE disk # NoUser
    <3>1. job'[o] = [job[o] EXCEPT !.token = disk, !.at = "loaded"]
      BY <1>1, <1>12, <2>3 DEF ReadRecord
    <3>2. job'[o].at = "loaded" /\ job'[o].token = disk /\ job'[o].holds = job[o].holds
      BY <1>1, <3>1 DEF JobType
    <3> QED
      BY <1>3, <2>1, <3>2, ReadsUnspent DEF Cautious, Midway
  <2> QED
    BY <2>2, <2>3
<1>13. CASE SetMemory(o)
  <2>1. /\ disk' = disk /\ memory' = disk /\ job[o].at = "loaded" /\ Got(o, job[o].token)
    BY <1>3, <1>13 DEF SetMemory, Note, At
  <2>2. job[o].holds => job[o].token \notin Spent
    BY <1>3, <2>1 DEF TokenSide, Unspent
  <2> QED
    BY <1>10, <2>1, <2>2
<1>14. CASE WaitForRefreshMutex(o)
  <2>1. /\ UNCHANGED <<memory, disk>> /\ job[o].at = "wait"
    BY <1>14 DEF WaitForRefreshMutex, storeVars, At
  <2>2. job'[o].at \in {"close", "get"}
    <3>1. CASE Goto(o, "close")
      BY <3>1, GoesTo DEF Places
    <3>2. CASE ~ Goto(o, "close")
      <4>1. job'[o] = [job[o] EXCEPT !.at = "get", !.holds = TRUE, !.first = job[o].token]
        BY <1>1, <1>14, <3>2 DEF WaitForRefreshMutex
      <4> QED
        BY <1>1, <4>1 DEF JobType
    <3> QED
      BY <3>1, <3>2
  <2> QED
    BY <2>1, <2>2 DEF Cautious, Midway
<1>15. CASE Decide(o)
  <2>1. /\ UNCHANGED <<memory, disk>> /\ job[o].at = "decide" /\ job[o].holds
    BY <1>1, <1>15 DEF Decide, storeVars, At, Shaped
  <2>2. PICK place \in {"close", "send"} :
          /\ job'[o] = [job[o] EXCEPT !.at = place, !.token = ToSend(o)]
          /\ place = "send" => OperationCurrent(o)
    BY <1>1, <1>15 DEF Decide
  <2>3. job'[o].at = place /\ job'[o].token = ToSend(o)
    BY <1>1, <2>2 DEF JobType
  <2>4. job[o].token \notin Spent
    BY <1>3, <2>1 DEF TokenSide, Unspent
  <2>5. place = "send" => job[o].token # NoUser
    BY <1>3, <2>1, <2>2 DEF StoreSide, Found, OperationCurrent, At
  <2> QED
    BY <2>1, <2>3, <2>4, <2>5 DEF Cautious, Midway, ToSend
<1> QED
  BY <1>5, <1>6, <1>7, <1>8, <1>9, <1>11, <1>12, <1>13, <1>14, <1>15 DEF JobStep

\* The renewal replaces the token it was sent, and hands out one nobody has seen.
LEMMA RenewalKeepsTokens ==
  ASSUME LifecycleTypeOK, Shape, TokenSide, NEW o \in Ops, CloudRenews(o)
  PROVE  TokenSide'
<1>1. /\ job \in [Ops -> JobType] /\ job[o] \in JobType /\ Shaped(job[o])
      /\ \A p, q \in Ops : job[p].holds /\ job[q].holds => p = q
      /\ issued \subseteq Users /\ revoked \subseteq issued /\ accepted \subseteq issued
  BY DEF LifecycleTypeOK, Shape
<1>2. /\ job[o].at = "send" /\ UNCHANGED <<memory, disk, revoked, dropped, diverged>>
      /\ job[o].kind = "login" \/ job[o].token \in accepted
  BY DEF CloudRenews, At, storeVars
<1>3. PICK t \in Fresh :
        /\ issued' = issued \cup {t}
        /\ accepted' = (accepted \ {job[o].token}) \cup {t}
        /\ \/ lost' = lost /\ job' = [job EXCEPT ![o].at = "answered", ![o].token = t]
           \/ lost' = TRUE /\ Goto(o, "close")
  BY DEF CloudRenews
<1>4. t \in Users /\ t \notin issued /\ t # NoUser
  BY <1>3, ConstantsAssumption DEF Fresh
<1>5. \A p \in Ops : p # o => job'[p] = job[p]
  <2>1. CASE Goto(o, "close")
    BY <2>1, GoesTo DEF Places
  <2>2. CASE job' = [job EXCEPT ![o].at = "answered", ![o].token = t]
    BY <1>1, <2>2
  <2> QED
    BY <1>3, <2>1, <2>2
<1>6. /\ job'[o].first = job[o].first /\ job'[o].holds = job[o].holds
      /\ \/ lost' = lost /\ job'[o].at = "answered" /\ job'[o].token = t
         \/ lost' = TRUE /\ job'[o].at = "close" /\ job'[o].token = job[o].token
  <2>1. CASE lost' = TRUE /\ Goto(o, "close")
    BY <2>1, GoesTo DEF Places
  <2>2. CASE lost' = lost /\ job' = [job EXCEPT ![o].at = "answered", ![o].token = t]
    <3>1. job'[o] = [job[o] EXCEPT !.at = "answered", !.token = t]
      BY <1>1, <2>2
    <3> QED
      BY <1>1, <2>2, <3>1 DEF JobType
  <2> QED
    BY <1>3, <2>1, <2>2
<1>7. /\ \A p \in Ops : {job[p].token, job[p].first} \subseteq issued \cup {NoUser}
      /\ {memory, disk} \subseteq issued \cup {NoUser} /\ accepted \cap revoked = {}
  BY DEF TokenSide, Tokens
<1>8. Tokens'
  <2>1. accepted' \cap revoked' = {}
    BY <1>1, <1>2, <1>3, <1>4, <1>7
  <2>2. \A p \in Ops : {job'[p].token, job'[p].first} \subseteq issued' \cup {NoUser}
    BY <1>3, <1>5, <1>6, <1>7
  <2> QED
    BY <1>2, <1>3, <1>7, <2>1, <2>2 DEF Tokens
<1>9. Private'
  <2> SUFFICES ASSUME NEW p \in Ops, job'[p].at = "answered"
               PROVE  /\ job'[p].token \notin {memory, disk}
                      /\ \A q \in Ops \ {p} : job'[p].token \notin {job'[q].token, job'[q].first}
    BY <1>2 DEF Private, At
  <2>1. CASE p = o
    BY <1>4, <1>5, <1>6, <1>7, <2>1
  <2>2. CASE p # o
    <3>1. /\ job[p].token \notin {memory, disk}
          /\ \A q \in Ops \ {p} : job[p].token \notin {job[q].token, job[q].first}
          /\ job'[p].token = job[p].token /\ job[p].token # NoUser
      BY <1>5, <2>2 DEF TokenSide, Private, At, Shape, Shaped
    <3> QED
      BY <1>4, <1>5, <1>6, <1>7, <3>1
  <2> QED
    BY <2>1, <2>2
<1>10. /\ Spent' \subseteq Spent \cup {job[o].token}
       /\ ~ job[o].holds => Spent' \subseteq Spent
  <2>1. Spent' \subseteq Spent \cup {job[o].token}
    BY <1>2, <1>3 DEF Spent
  <2>2. ~ job[o].holds => job[o].token = NoUser
    BY <1>1, <1>2 DEF Shaped
  <2>3. NoUser \notin Spent'
    BY <1>1, <1>3, <1>4, ConstantsAssumption DEF Spent
  <2> QED
    BY <2>1, <2>2, <2>3
<1>11. Clean' => Clean /\ job'[o].at = "answered" /\ job'[o].token = t
  BY <1>2, <1>6 DEF Clean
<1>12. Unspent'
  <2> SUFFICES ASSUME Clean', NEW p \in Ops,
                      \/ job'[p].at = "answered"
                      \/ job'[p].holds /\ job'[p].at \in {"loaded", "decide", "send"}
               PROVE  job'[p].token \notin Spent'
    BY DEF Unspent, At
  <2>1. CASE p = o
    BY <1>3, <1>11, <2>1 DEF Spent
  <2>2. CASE p # o
    <3>1. job'[p] = job[p] /\ job[p].token \notin Spent
      BY <1>5, <1>11, <2>2 DEF TokenSide, Unspent, At
    <3>2. CASE job[p].at = "answered"
      BY <1>10, <2>2, <3>1, <3>2 DEF TokenSide, Private, At
    <3>3. CASE job[p].holds
      BY <1>1, <1>10, <2>2, <3>1, <3>3
    <3> QED
      BY <3>1, <3>2, <3>3
  <2> QED
    BY <2>1, <2>2
<1>13. Replacing'
  <2> SUFFICES ASSUME Clean', {memory, disk} \cap Spent' # {}
               PROVE  \E p \in Ops : Midway(job'[p])
    BY <1>2 DEF Replacing
  <2>1. CASE job[o].holds
    BY <1>6, <1>11, <2>1 DEF Midway
  <2>2. CASE ~ job[o].holds
    <3>1. PICK p \in Ops : Midway(job[p])
      BY <1>10, <1>11, <2>2 DEF TokenSide, Replacing
    <3> QED
      BY <1>5, <2>2, <3>1 DEF Midway
  <2> QED
    BY <2>1, <2>2
<1>14. RejectedForAReason'
  <2>1. (lost => lost') /\ dropped' = dropped /\ diverged' = diverged /\ revoked' = revoked
    BY <1>2, <1>6
  <2> QED
    BY <1>5, <1>6, <2>1 DEF TokenSide, RejectedForAReason, Excused, At
<1> QED
  BY <1>8, <1>9, <1>12, <1>13, <1>14 DEF TokenSide

\* Every step keeps what is known of the tokens.
LEMMA StepKeepsTokens ==
  ASSUME LifecycleTypeOK, Shape, StoreSide, TokenSide, [LifecycleNext]_allVars
  PROVE  TokenSide'
<1>1. ASSUME NEW o \in Ops, JobStep(o) PROVE TokenSide'
  <2>1. \A p \in Ops : p # o => job'[p] = job[p]
    BY <1>1, JobStepBecomes, BecomesKeeps
  <2> QED
    BY <1>1, <2>1, BorrowSteps, CautiousSteps, BorrowKeepsTokens, RenewalKeepsTokens
<1>2. CASE AccessRejected \/ CloudRevokes \/ UNCHANGED allVars
  <2>1. /\ UNCHANGED <<memory, disk, job, issued, lost, dropped, diverged>>
        /\ accepted' \cup revoked' = accepted \cup revoked /\ revoked \subseteq revoked'
        /\ accepted' \cap revoked' = {}
    BY <1>2 DEF AccessRejected, CloudRevokes, allVars, storeVars, cloudVars, TokenSide, Tokens
  <2>2. Spent' = Spent /\ (Clean' <=> Clean)
    BY <2>1 DEF Spent, Clean
  <2> QED
    BY <2>1, <2>2 DEF TokenSide, Tokens, Private, Unspent, Replacing, RejectedForAReason,
                      Excused, At
<1> QED
  BY <1>1, <1>2 DEF LifecycleNext

-------------------------------------------------------------------------------
\* The invariant holds at start-up.
LEMMA LifecycleInitHolds == LifecycleInit => LifecycleInv
<1> SUFFICES ASSUME LifecycleInit PROVE LifecycleInv
  OBVIOUS
<1>1. /\ IInv /\ TypeOK /\ snapshot.generation = 1 /\ snapshot.state = "restoring"
      /\ snapshot.user = NoUser /\ operations = {}
  BY InitIInv DEF LifecycleInit, Init, IInv
<1>2. /\ memory = NoUser /\ disk \in Users \cup {NoUser} /\ refresher = FALSE
      /\ job = [o \in Ops |-> IdleJob]
      /\ issued = {disk} \ {NoUser} /\ accepted \subseteq issued
      /\ revoked = issued \ accepted
      /\ lost = FALSE /\ dropped = FALSE /\ diverged = {}
  BY DEF LifecycleInit
<1>3. /\ IdleJob \in JobType /\ Shaped(IdleJob) /\ IdleJob.at = "idle" /\ ~ IdleJob.holds
      /\ IdleJob.token = NoUser /\ IdleJob.first = NoUser
  BY DEF IdleJob, JobType, Kinds, Places, Shaped
<1>4. \A o \in Ops : job[o] = IdleJob
  BY <1>2
<1>5. LifecycleTypeOK /\ Shape
  <2>1. job \in [Ops -> JobType]
    BY <1>2, <1>3
  <2> QED
    BY <1>1, <1>2, <1>3, <1>4, <2>1 DEF LifecycleTypeOK, Shape, Ways
<1>6. SessionSide
  BY <1>1, <1>2, <1>3, <1>4 DEF SessionSide, Beginning, NoTeardown, RefresherFollowsSession,
                                Torn, TearingDown, Ended, At
<1>7. StoreSide
  BY <1>1, <1>2, <1>3, <1>4 DEF StoreSide, SessionIsBacked, EndedIsCleared, AtFirst, HasRead,
                                Deleted, Emptied, Vain, Found, Ended, At
<1>8. TokenSide
  <2>1. Spent = {}
    BY <1>2 DEF Spent
  <2> QED
    BY <1>2, <1>3, <1>4, <2>1 DEF TokenSide, Tokens, Private, Unspent, Replacing,
                                  RejectedForAReason, At
<1> QED
  BY <1>1, <1>5, <1>6, <1>7, <1>8 DEF LifecycleInv

\* Every step keeps the invariant.
LEMMA LifecycleStepKeeps ==
  ASSUME LifecycleInv, [LifecycleNext]_allVars
  PROVE  LifecycleInv'
BY StepKeepsTypes, StepKeepsSession, StepKeepsStore, StepKeepsTokens DEF LifecycleInv

\* Who commits on an ended session is a login: a restore commits on the first
\* snapshot only, and a refresh that is current has found nothing.
LEMMA RevivedByLogin ==
  ASSUME LifecycleInv, [LifecycleNext]_allVars
  PROVE  Revived /\ diverged = {} => ByLogin
<1> SUFFICES ASSUME Ended, snapshot'.state = "active", diverged = {}
             PROVE  ByLogin
  BY DEF Revived
<1> USE DEF LifecycleInv
<1>1. snapshot' # snapshot
  BY DEF Ended
<1>2. PICK o \in Ops : CommitAnswer(o) \/ RestoreProfile(o)
  <2>1. ASSUME NEW to, NEW user, Publish(to, user) PROVE to = "active"
    BY <2>1, PublishFacts
  <2>2. ASSUME NEW o \in Ops, RestoreNothing(o) \/ RestoreLater(o) \/ Notify(o) PROVE FALSE
    BY <2>1, <2>2 DEF RestoreNothing, RestoreLater, Notify, CommitUnauthenticated,
                      CommitOperation, NotifyLoggedOut, NotifyRefreshFailed, ForceTerminal
  <2>3. CASE AccessRejected
    BY <2>1, <2>3 DEF AccessRejected, NotifyAccessRejected
  <2>4. CASE CloudRevokes \/ UNCHANGED allVars
    BY <1>1, <2>4 DEF CloudRevokes, allVars, vars
  <2>5. ASSUME NEW o \in Ops, JobStep(o) PROVE CommitAnswer(o) \/ RestoreProfile(o)
    <3>1. Aside(o) => FALSE
      BY <1>1 DEF Aside
    <3> QED
      BY <1>1, <2>2, <2>5, <3>1, AsideSteps
         DEF JobStep, BeginLogin, BeginRefresh, BeginRestore, BeginOther, BeginOperation,
             StartTokenRefresh, StopTokenRefresh, RunIfGenerationActive, vars
  <2> QED
    BY <2>3, <2>4, <2>5 DEF LifecycleNext
<1>3. /\ CommitOperation(o, "active", job[o].token) /\ o \in operations /\ Shaped(job[o])
      /\ published \in [Ops -> Nat]
  BY <1>2 DEF CommitAnswer, RestoreProfile, Commit, CommitOperation, OperationCurrent, Shape,
              IInv, TypeOK
<1>4. published'[o] = snapshot'.generation
  BY <1>3, PublishFacts DEF CommitOperation
<1>5. CASE CommitAnswer(o)
  <2>1. job[o].kind \in {"login", "refresh"} /\ job[o].at = "answered"
    BY <1>3, <1>5 DEF CommitAnswer, At, Shaped
  <2>2. job[o].kind # "refresh"
    BY <1>3, <2>1 DEF StoreSide, Vain
  <2> QED
    BY <1>4, <2>1, <2>2 DEF ByLogin
<1>6. CASE RestoreProfile(o)
  <2>1. job[o].kind = "restore"
    BY <1>3, <1>6 DEF RestoreProfile, At, Shaped
  <2> QED
    BY <1>3, <2>1 DEF SessionSide, Beginning, Ended
<1> QED
  BY <1>2, <1>5, <1>6

-------------------------------------------------------------------------------
\* The inductive invariant holds of every behaviour.
THEOREM LifecycleInvariance == LifecycleSpec => []LifecycleInv
<1>1. LifecycleInit => LifecycleInv
  BY LifecycleInitHolds
<1>2. LifecycleInv /\ [LifecycleNext]_allVars => LifecycleInv'
  BY LifecycleStepKeeps
<1> QED
  BY <1>1, <1>2, PTL DEF LifecycleSpec

\* Jobs, credentials and tokens stay well formed, and refreshSessionMu has one
\* holder.
THEOREM LifecycleTypeCorrect == LifecycleSpec => []LifecycleTypeOK
<1>1. LifecycleInv => LifecycleTypeOK
  BY DEF LifecycleInv
<1> QED
  BY <1>1, LifecycleInvariance, PTL

\* An ended session leaves no credentials, whatever login, refresh or restore was
\* under way when it ended.
THEOREM EndedIsClearedAlways == LifecycleSpec => []EndedIsCleared
<1>1. LifecycleInv => EndedIsCleared
  BY DEF LifecycleInv, StoreSide
<1> QED
  BY <1>1, LifecycleInvariance, PTL

\* The published session, memory and the record hold the same token.
THEOREM SessionIsBackedAlways == LifecycleSpec => []SessionIsBacked
<1>1. LifecycleInv => SessionIsBacked
  BY DEF LifecycleInv, StoreSide
<1> QED
  BY <1>1, LifecycleInvariance, PTL

\* The refresher runs with an active session and is stopped with an ended one.
THEOREM RefresherFollowsAlways == LifecycleSpec => []RefresherFollowsSession
<1>1. LifecycleInv => RefresherFollowsSession
  BY DEF LifecycleInv, SessionSide
<1> QED
  BY <1>1, LifecycleInvariance, PTL

\* No two refreshes use up the same token: one that is rejected was withdrawn, or
\* its successor got lost.
THEOREM RejectedForAReasonAlways == LifecycleSpec => []RejectedForAReason
<1>1. LifecycleInv => RejectedForAReason
  BY DEF LifecycleInv, TokenSide
<1> QED
  BY <1>1, LifecycleInvariance, PTL

\* Nothing but a login revives an ended session as long as the credentials were
\* written and read in order.
THEOREM OnlyLoginsReviveAlways == LifecycleSpec => OnlyLoginsReviveInOrder
<1>1. LifecycleInv /\ [LifecycleNext]_allVars => [Revived /\ diverged = {} => ByLogin]_allVars
  BY RevivedByLogin
<1> QED
  BY <1>1, LifecycleInvariance, PTL DEF LifecycleSpec, OnlyLoginsReviveInOrder

===============================================================================
