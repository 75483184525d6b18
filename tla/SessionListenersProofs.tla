------------------------ MODULE SessionListenersProofs ------------------------
(***************************************************************************)
(* Proofs about the two listeners of session transitions: the broker with  *)
(* its pages (SessionEvents), for any number of pages, restarts, dropped   *)
(* connections and transitions, and the soft-expiry loop                   *)
(* (SoftExpiryRecovery), for any bound on revisions, any users and any     *)
(* number of rejections, logins, wipes and answers of the cloud.  Each     *)
(* model has the authority to itself; they share its lemmas.               *)
(*                                                                         *)
(* Neither property of the stream is inductive.  That a page does not go   *)
(* back needs that it has retired every process it ever showed but the one *)
(* it shows (Shown).  That a quiet stream has shown the newest snapshot    *)
(* needs that nothing under way is newer than the authority (UnderWay),    *)
(* and to follow that snapshot from the authority through the channel and  *)
(* the wire to the page (Reach).                                           *)
(*                                                                         *)
(* That a recoverable session has its loop once every start was made does  *)
(* not follow from the loop alone: a start that is still to come makes up  *)
(* for a loop that has decided to end, so Driven speaks of both.           *)
(***************************************************************************)
EXTENDS SessionEvents, SoftExpiryRecovery, SessionAuthorityProofs, SequenceTheorems

\* An event of the process that runs, or of one that ran before it.
Happened(e) ==
  /\ e \in EventType
  /\ e.instance <= instance
  /\ e.instance = instance => e.snapshot.revision <= snapshot.revision

OnWire(b) == {wire[b][i] : i \in 1..Len(wire[b])}

UnderWay(b) ==
  /\ slot[b] # NoEvent =>
       /\ Happened(slot[b]) /\ slot[b].instance = instance
       /\ slot[b].snapshot.revision <= delivered
  /\ \A e \in OnWire(b) : Happened(e)
  /\ request[b].answer # NoEvent => Happened(request[b].answer)

Shown(b) ==
  /\ view[b].instance <= instance
  /\ view[b].instance = instance => view[b].revision <= snapshot.revision
  /\ met[b] \subseteq view[b].retired \cup {view[b].instance}

\* Where the newest snapshot is on its way to the page of an open stream.
IsNewest(e) == e.instance = instance /\ e.snapshot.revision = snapshot.revision
NewestAnnounced == \E t \in transitions : t.event.revision = snapshot.revision
Queueing(b) == slot[b] # NoEvent /\ IsNewest(slot[b])
Written(b) == \E e \in OnWire(b) : IsNewest(e)
Arrived(b) == StreamIsCurrent(b) \/ Strayed(b)

Reach(b) ==
  client[b] = "streaming" /\ ~ overtaken =>
    NewestAnnounced \/ Queueing(b) \/ Written(b) \/ Arrived(b)

EventsInv ==
  /\ EventsTypeOK
  /\ \A t \in transitions : t.event.revision <= snapshot.revision
  /\ \A b \in Browsers : UnderWay(b) /\ Shown(b) /\ Reach(b)

-------------------------------------------------------------------------------
(* The page's reducer. *)

\* What a page makes of an event: nothing, if it rejects it; otherwise it shows
\* it, and retires the process it showed before.
LEMMA AppliedShows ==
  ASSUME NEW v \in ViewType, NEW e \in EventType, NEW p \in BOOLEAN
  PROVE  /\ ~ Accepts(v, e) => Applied(v, e, p) = v
         /\ Accepts(v, e) =>
              /\ Applied(v, e, p) \in ViewType
              /\ Applied(v, e, p).instance = e.instance
              /\ Applied(v, e, p).revision = e.snapshot.revision
              /\ Applied(v, e, p).retired = v.retired \cup ({v.instance} \ {0, e.instance})
              /\ p => ~ Applied(v, e, p).isAuthenticated
              /\ Applied(v, e, p).state \in {"unauthenticated", "hard_invalid"}
                   => Applied(v, e, p).user = NoUser
<1> DEFINE u == UserShown(v, e.snapshot)
           a == AuthShown(v, e.snapshot)
           gone == v.retired \cup ({v.instance} \ {0, e.instance})
           w == [instance |-> e.instance, revision |-> e.snapshot.revision, retired |-> gone,
                 state |-> e.snapshot.state, user |-> u, isAuthenticated |-> a /\ ~ p]
<1>1. /\ e.instance \in 1..MaxInstance /\ e.snapshot.revision \in Nat
      /\ e.snapshot.state \in States /\ e.snapshot.user \in Users \cup {NoUser}
  BY DEF EventType, SnapshotType
<1>2. /\ v.instance \in 0..MaxInstance /\ v.user \in Users \cup {NoUser}
      /\ v.retired \in SUBSET (0..MaxInstance) /\ v.isAuthenticated \in BOOLEAN
  BY DEF ViewType
<1>3. ASSUME Accepts(v, e) PROVE Applied(v, e, p) = w
  BY <1>3 DEF Applied, Reduce
<1>4. u \in Users \cup {NoUser}
  BY <1>1, <1>2 DEF UserShown
<1>5. e.snapshot.state \in {"unauthenticated", "hard_invalid"} => u = NoUser
  BY DEF UserShown
<1>6. gone \in SUBSET (0..MaxInstance) /\ e.instance \in 0..MaxInstance
  BY <1>1, <1>2, EventsAssumption
<1>7. (a /\ ~ p) \in BOOLEAN
  OBVIOUS
<1>8. w \in ViewType
  <2> HIDE DEF u, a, gone
  <2> QED
    BY <1>1, <1>4, <1>6, <1>7 DEF ViewType
<1>9. ASSUME ~ Accepts(v, e) PROVE Applied(v, e, p) = v
  BY <1>9 DEF Applied
<1>10. /\ w.instance = e.instance /\ w.revision = e.snapshot.revision /\ w.retired = gone
       /\ p => ~ w.isAuthenticated
       /\ w.state \in {"unauthenticated", "hard_invalid"} => w.user = NoUser
  <2> HIDE DEF gone, u, a
  <2> QED
    BY <1>5
<1> HIDE DEF w
<1> QED
  BY <1>3, <1>8, <1>9, <1>10

-------------------------------------------------------------------------------
(* The wire. *)

\* What a write adds, and what a read takes, as sets of events.
LEMMA WireWrites ==
  ASSUME NEW s \in Seq(EventType), NEW e \in EventType
  PROVE  /\ Append(s, e) \in Seq(EventType)
         /\ {Append(s, e)[i] : i \in 1..Len(Append(s, e))} = {s[i] : i \in 1..Len(s)} \cup {e}
<1>1. /\ Append(s, e) \in Seq(EventType) /\ Len(Append(s, e)) = Len(s) + 1
      /\ \A i \in 1..Len(s) : Append(s, e)[i] = s[i]
      /\ Append(s, e)[Len(s) + 1] = e /\ Len(s) \in Nat
  BY AppendProperties, LenProperties
<1> QED
  BY <1>1

\* The wire holds the message that is read and those left.
LEMMA WireReads ==
  ASSUME NEW s \in Seq(EventType), s # <<>>
  PROVE  /\ Head(s) \in EventType /\ Tail(s) \in Seq(EventType)
         /\ {s[i] : i \in 1..Len(s)} = {Tail(s)[i] : i \in 1..Len(Tail(s))} \cup {Head(s)}
<1>1. /\ Head(s) \in EventType /\ Tail(s) \in Seq(EventType) /\ Len(Tail(s)) = Len(s) - 1
      /\ \A i \in 1..Len(Tail(s)) : Tail(s)[i] = s[i + 1]
      /\ Len(s) \in Nat \ {0}
  BY HeadTailProperties, EmptySeq
<1>2. Head(s) = s[1]
  OBVIOUS
<1> DEFINE n == Len(s)
           r == Tail(s)
<1>3. n \in Nat \ {0} /\ Len(r) = n - 1 /\ \A i \in 1..(n - 1) : r[i] = s[i + 1]
  BY <1>1
<1>4. ASSUME NEW i \in 1..n PROVE i = 1 \/ (i - 1 \in 1..(n - 1) /\ r[i - 1] = s[i])
  BY <1>3
<1>5. {s[i] : i \in 1..n} \subseteq {r[i] : i \in 1..(n - 1)} \cup {s[1]}
  BY <1>4
<1>6. {r[i] : i \in 1..(n - 1)} \cup {s[1]} \subseteq {s[i] : i \in 1..n}
  <2>1. ASSUME NEW i \in 1..(n - 1) PROVE i + 1 \in 1..n /\ r[i] = s[i + 1]
    BY <1>3
  <2>2. 1 \in 1..n
    BY <1>3
  <2> HIDE DEF n, r
  <2> QED
    BY <2>1, <2>2
<1> QED
  BY <1>1, <1>2, <1>3, <1>5, <1>6

-------------------------------------------------------------------------------
(* Steps of one page: its stream, its requests, its view. *)

\* What the shape of the state says of one page.
LEMMA PageTyped ==
  ASSUME EventsInv, NEW b \in Browsers
  PROVE  /\ client[b] \in ClientPhases /\ slot[b] \in EventType \cup {NoEvent}
         /\ wire[b] \in Seq(EventType) /\ request[b] \in RequestType
         /\ dashboard[b] \in DashboardType /\ dashboard[b].pinned \in BOOLEAN
         /\ view[b] \in ViewType /\ met[b] \in SUBSET (1..MaxInstance) /\ masked[b] \in BOOLEAN
         /\ view[b].state \in {"unauthenticated", "hard_invalid"} => view[b].user = NoUser
         /\ dashboard[b].pinned => ~ view[b].isAuthenticated
         /\ drops \in 0..MaxDrops
         /\ UnderWay(b) /\ Shown(b) /\ Reach(b)
BY DEF EventsInv, EventsTypeOK, DashboardType

\* A step that leaves the process and the other pages alone.
OnlyPage(b) ==
  /\ UNCHANGED <<vars, snapshot, transitions, instance, delivered, overtaken>>
  /\ \A x \in Browsers \ {b} :
       /\ client'[x] = client[x] /\ slot'[x] = slot[x] /\ wire'[x] = wire[x]
       /\ request'[x] = request[x] /\ view'[x] = view[x] /\ met'[x] = met[x]

\* Such a step need only be looked at for its own page.
LEMMA OnePage ==
  ASSUME EventsInv, NEW b \in Browsers, OnlyPage(b), EventsTypeOK',
         UnderWay(b)', Shown(b)', Reach(b)'
  PROVE  EventsInv'
<1>1. ASSUME NEW x \in Browsers \ {b} PROVE UnderWay(x)' /\ Shown(x)' /\ Reach(x)'
  <2>1. UnderWay(x) /\ Shown(x) /\ Reach(x)
    BY DEF EventsInv
  <2> QED
    BY <2>1
       DEF OnlyPage, UnderWay, Shown, Reach, Happened, OnWire, IsNewest, NewestAnnounced,
           Queueing, Written, Arrived, StreamIsCurrent, Strayed
<1>2. \A t \in transitions' : t.event.revision <= snapshot'.revision
  BY DEF OnlyPage, EventsInv
<1> QED
  BY <1>1, <1>2 DEF EventsInv

\* What a GET or the start of a stream reads is an event of the running process.
LEMMA NewestIsCurrent ==
  ASSUME EventsInv
  PROVE  Newest \in EventType /\ Happened(Newest) /\ IsNewest(Newest) /\ Newest # NoEvent
<1>1. Newest \in EventType
  BY DEF EventsInv, EventsTypeOK, TypeOK, EventType, Newest
<1> QED
  BY <1>1, EventsAssumption, NoEventAssumption
     DEF EventsInv, EventsTypeOK, TypeOK, SnapshotType, Newest, Happened, IsNewest

\* The steps of the broker for one page's stream, which leave the view alone.
LEMMA StreamSteps ==
  ASSUME EventsInv, NEW b \in Browsers, StreamStep(b)
  PROVE  EventsInv'
<1>1. /\ UNCHANGED <<vars, snapshot, transitions, instance, delivered, overtaken>>
      /\ UNCHANGED <<request, dashboard, view, met, masked>> /\ drops' \in 0..MaxDrops
  BY PageTyped, EventsAssumption
     DEF StreamStep, Subscribe, SendInitial, SendQueued, Unsubscribe, vars, shownVars, historyVars
<1>2. TypeOK'
  BY <1>1 DEF EventsInv, EventsTypeOK, TypeOK, vars
<1>3. UnderWay(b) /\ Reach(b) /\ wire[b] \in Seq(EventType) /\ slot[b] \in EventType \cup {NoEvent}
  BY PageTyped
<1>4. Shown(b)'
  BY <1>1, PageTyped DEF Shown
<1>5. CASE Subscribe(b)
  <2> DEFINE c == IF dashboard[b].credential THEN "subscribed" ELSE "refused"
  <2>1. /\ client' = [client EXCEPT ![b] = c] /\ slot' = [slot EXCEPT ![b] = NoEvent]
        /\ wire' = [wire EXCEPT ![b] = <<>>]
    BY <1>5 DEF Subscribe
  <2>2. <<>> \in Seq(EventType) /\ Len(<<>>) = 0 /\ c \in ClientPhases /\ c # "streaming"
    BY EmptySeq DEF ClientPhases
  <2> HIDE DEF c
  <2>3. client'[b] = c /\ slot'[b] = NoEvent /\ wire'[b] = <<>>
    BY <2>1 DEF EventsInv, EventsTypeOK
  <2>4. UnderWay(b)' /\ Reach(b)'
    BY <1>1, <1>3, <2>2, <2>3 DEF UnderWay, Reach, Happened, OnWire
  <2>5. EventsTypeOK' /\ OnlyPage(b)
    BY <1>1, <1>2, <2>1, <2>2 DEF EventsInv, EventsTypeOK, OnlyPage
  <2> QED
    BY <1>4, <2>4, <2>5, OnePage
<1>6. CASE SendInitial(b)
  <2> DEFINE w == Append(wire[b], Newest)
  <2>1. /\ client' = [client EXCEPT ![b] = "streaming"] /\ wire' = [wire EXCEPT ![b] = w]
        /\ UNCHANGED slot
    BY <1>6 DEF SendInitial
  <2>2. /\ w \in Seq(EventType)
        /\ {w[i] : i \in 1..Len(w)} = {wire[b][i] : i \in 1..Len(wire[b])} \cup {Newest}
    BY <1>3, WireWrites, NewestIsCurrent
  <2> HIDE DEF w
  <2>3. wire'[b] = w
    BY <2>1 DEF EventsInv, EventsTypeOK
  <2>4. OnWire(b)' = OnWire(b) \cup {Newest}
    BY <2>2, <2>3 DEF OnWire
  <2>5. UnderWay(b)' /\ Reach(b)'
    BY <1>1, <1>3, <2>1, <2>4, NewestIsCurrent
       DEF UnderWay, Reach, Written, Happened, IsNewest
  <2>6. EventsTypeOK' /\ OnlyPage(b)
    BY <1>1, <1>2, <2>1, <2>2 DEF EventsInv, EventsTypeOK, OnlyPage, ClientPhases
  <2> QED
    BY <1>4, <2>5, <2>6, OnePage
<1>7. CASE SendQueued(b)
  <2> DEFINE w == Append(wire[b], slot[b])
  <2>1. /\ slot' = [slot EXCEPT ![b] = NoEvent] /\ wire' = [wire EXCEPT ![b] = w]
        /\ UNCHANGED client /\ slot[b] # NoEvent
    BY <1>7 DEF SendQueued
  <2>2. /\ w \in Seq(EventType)
        /\ {w[i] : i \in 1..Len(w)} = {wire[b][i] : i \in 1..Len(wire[b])} \cup {slot[b]}
    BY <1>3, <2>1, WireWrites
  <2> HIDE DEF w
  <2>3. wire'[b] = w /\ slot'[b] = NoEvent
    BY <2>1 DEF EventsInv, EventsTypeOK
  <2>4. OnWire(b)' = OnWire(b) \cup {slot[b]}
    BY <2>2, <2>3 DEF OnWire
  <2>5. UnderWay(b)'
    BY <1>1, <1>3, <2>1, <2>3, <2>4 DEF UnderWay, Happened
  <2>6. Reach(b)'
    BY <1>1, <1>3, <2>1, <2>3, <2>4
       DEF Reach, NewestAnnounced, Queueing, Written, IsNewest, Arrived, StreamIsCurrent, Strayed
  <2>7. EventsTypeOK' /\ OnlyPage(b)
    BY <1>1, <1>2, <2>1, <2>2 DEF EventsInv, EventsTypeOK, OnlyPage
  <2> QED
    BY <1>4, <2>5, <2>6, <2>7, OnePage
<1>8. CASE Unsubscribe(b)
  <2>1. /\ client' = [client EXCEPT ![b] = "closed"] /\ slot' = [slot EXCEPT ![b] = NoEvent]
        /\ UNCHANGED wire
    BY <1>8 DEF Unsubscribe
  <2>2. client'[b] = "closed" /\ slot'[b] = NoEvent
    BY <2>1 DEF EventsInv, EventsTypeOK
  <2>3. UnderWay(b)' /\ Reach(b)'
    BY <1>1, <1>3, <2>1, <2>2 DEF UnderWay, Reach, Happened, OnWire
  <2>4. EventsTypeOK' /\ OnlyPage(b)
    BY <1>1, <1>2, <2>1 DEF EventsInv, EventsTypeOK, OnlyPage, ClientPhases
  <2> QED
    BY <1>4, <2>3, <2>4, OnePage
<1> QED
  BY <1>5, <1>6, <1>7, <1>8 DEF StreamStep

\* What a page may do next to what it showed: the same process no further back, or
\* a process it never showed.
NotBack(b) ==
  /\ view'[b].instance = view[b].instance => view'[b].revision >= view[b].revision
  /\ view'[b].instance # view[b].instance => view'[b].instance \notin met[b]

\* What the shape of the state says of the views.
ShownTyped ==
  /\ view' \in [Browsers -> ViewType]
  /\ met' \in [Browsers -> SUBSET (1..MaxInstance)]
  /\ masked' \in [Browsers -> BOOLEAN]
  /\ \A x \in Browsers :
       /\ view'[x].state \in {"unauthenticated", "hard_invalid"} => view'[x].user = NoUser
       /\ dashboard[x].pinned => ~ view'[x].isAuthenticated

\* A page that applies an event keeps what it knows of the processes, does not go
\* back, and has got there if the event is the newest or it had.
LEMMA Shows ==
  ASSUME EventsInv, NEW b \in Browsers, NEW e \in EventType, Happened(e),
         UNCHANGED <<snapshot, instance>>, ApplySessionSnapshot(b, e)
  PROVE  /\ ShownTyped
         /\ Shown(b)'
         /\ NotBack(b)
         /\ \A x \in Browsers \ {b} : view'[x] = view[x] /\ met'[x] = met[x]
         /\ IsNewest(e) \/ Arrived(b) => Arrived(b)'
<1> DEFINE v == view[b]
           p == dashboard[b].pinned
           w == Applied(v, e, p)
           m == IF Accepts(v, e) THEN met[b] \cup {e.instance} ELSE met[b]
           k == IF Accepts(v, e) THEN p \/ (masked[b] /\ e.snapshot.state = "restoring")
                ELSE masked[b]
<1>1. /\ v \in ViewType /\ Shown(b) /\ p \in BOOLEAN /\ met[b] \in SUBSET (1..MaxInstance)
      /\ masked[b] \in BOOLEAN /\ snapshot.revision \in Nat /\ instance \in 1..MaxInstance
      /\ v.state \in {"unauthenticated", "hard_invalid"} => v.user = NoUser
      /\ p => ~ v.isAuthenticated
  BY PageTyped DEF EventsInv, EventsTypeOK, TypeOK, SnapshotType
<1>2. /\ view' = [view EXCEPT ![b] = w] /\ met' = [met EXCEPT ![b] = m]
      /\ masked' = [masked EXCEPT ![b] = k]
      /\ view'[b] = w /\ met'[b] = m
      /\ \A x \in Browsers \ {b} : view'[x] = view[x] /\ met'[x] = met[x]
  BY DEF ApplySessionSnapshot, EventsInv, EventsTypeOK
<1>3. /\ e.instance \in 1..MaxInstance /\ e.snapshot.revision \in Nat
      /\ v.instance \in 0..MaxInstance /\ v.revision \in Nat
      /\ v.retired \in SUBSET (0..MaxInstance)
  BY <1>1 DEF EventType, SnapshotType, ViewType
<1>4. /\ ~ Accepts(v, e) => w = v
      /\ Accepts(v, e) =>
           /\ w \in ViewType /\ w.instance = e.instance /\ w.revision = e.snapshot.revision
           /\ w.retired = v.retired \cup ({v.instance} \ {0, e.instance})
           /\ p => ~ w.isAuthenticated
           /\ w.state \in {"unauthenticated", "hard_invalid"} => w.user = NoUser
  <2> HIDE DEF v, p
  <2> QED
    BY <1>1, AppliedShows
<1>5. m \in SUBSET (1..MaxInstance) /\ k \in BOOLEAN
  BY <1>1, <1>3
<1>6. /\ w \in ViewType
      /\ p => ~ w.isAuthenticated
      /\ w.state \in {"unauthenticated", "hard_invalid"} => w.user = NoUser
  BY <1>1, <1>4
<1> HIDE DEF w, k
<1>7. ShownTyped
  <2> HIDE DEF m
  <2>1. /\ view \in [Browsers -> ViewType] /\ met \in [Browsers -> SUBSET (1..MaxInstance)]
        /\ masked \in [Browsers -> BOOLEAN]
        /\ \A x \in Browsers :
             /\ view[x].state \in {"unauthenticated", "hard_invalid"} => view[x].user = NoUser
             /\ dashboard[x].pinned => ~ view[x].isAuthenticated
    BY DEF EventsInv, EventsTypeOK
  <2>2. view' \in [Browsers -> ViewType]
    BY <1>2, <1>6, <2>1
  <2>3. met' \in [Browsers -> SUBSET (1..MaxInstance)]
    BY <1>2, <1>5, <2>1
  <2>4. masked' \in [Browsers -> BOOLEAN]
    BY <1>2, <1>5, <2>1
  <2>5. \A x \in Browsers :
           /\ view'[x].state \in {"unauthenticated", "hard_invalid"} => view'[x].user = NoUser
           /\ dashboard[x].pinned => ~ view'[x].isAuthenticated
    BY <1>2, <1>6, <2>1
  <2> QED
    BY <2>2, <2>3, <2>4, <2>5 DEF ShownTyped
<1>8. CASE ~ Accepts(v, e)
  <2>1. Shown(b)' /\ NotBack(b)
    BY <1>1, <1>2, <1>3, <1>4, <1>8 DEF Shown, NotBack
  <2>2. IsNewest(e) => StreamIsCurrent(b) \/ Strayed(b)
    BY <1>1, <1>3, <1>8 DEF IsNewest, Accepts, StreamIsCurrent, Strayed, Shown
  <2>3. Arrived(b) => Arrived(b)'
    BY <1>2, <1>4, <1>8 DEF Arrived, StreamIsCurrent, Strayed
  <2> QED
    BY <1>2, <1>7, <2>1, <2>2, <2>3 DEF Arrived
<1>9. CASE Accepts(v, e)
  <2>1. m = met[b] \cup {e.instance}
    BY <1>9
  <2> HIDE DEF m
  <2>2. Shown(b)'
    <3>1. e.instance <= instance
          /\ (e.instance = instance => e.snapshot.revision <= snapshot.revision)
      BY DEF Happened
    <3>2. m \subseteq w.retired \cup {e.instance}
      BY <1>1, <1>3, <1>4, <1>9, <2>1 DEF Shown
    <3> QED
      BY <1>2, <1>4, <1>9, <3>1, <3>2 DEF Shown
  <2>3. NotBack(b)
    BY <1>1, <1>2, <1>3, <1>4, <1>9 DEF NotBack, Accepts, Shown
  <2>4. IsNewest(e) => StreamIsCurrent(b)'
    BY <1>2, <1>4, <1>9 DEF IsNewest, StreamIsCurrent
  <2>5. Strayed(b) => Strayed(b)'
    BY <1>2, <1>4, <1>9 DEF Strayed
  <2>6. StreamIsCurrent(b) => StreamIsCurrent(b)' \/ Strayed(b)'
    BY <1>1, <1>2, <1>3, <1>4, <1>9 DEF StreamIsCurrent, Strayed, Accepts, Happened
  <2> QED
    BY <1>2, <1>7, <2>2, <2>3, <2>4, <2>5, <2>6 DEF Arrived
<1> QED
  BY <1>8, <1>9

\* Steps in which a page reads a message or applies an answer.
LEMMA ShowSteps ==
  ASSUME EventsInv, NEW b \in Browsers, OnMessage(b) \/ ApplyAnswer(b)
  PROVE  /\ EventsInv'
         /\ NotBack(b)
         /\ \A x \in Browsers \ {b} : view'[x] = view[x]
<1>1. /\ UNCHANGED <<vars, snapshot, transitions, instance, delivered, overtaken>>
      /\ UNCHANGED <<client, slot, dashboard>> /\ drops' \in 0..MaxDrops
  BY PageTyped DEF OnMessage, ApplyAnswer, vars, streamVars, historyVars
<1>2. TypeOK'
  BY <1>1 DEF EventsInv, EventsTypeOK, TypeOK, vars
<1>3. UnderWay(b) /\ Reach(b) /\ wire[b] \in Seq(EventType) /\ request[b] \in RequestType
  BY PageTyped
<1>4. CASE OnMessage(b)
  <2> DEFINE e == Head(wire[b])
             w == Tail(wire[b])
  <2>1. /\ wire' = [wire EXCEPT ![b] = w] /\ ApplySessionSnapshot(b, e)
        /\ wire[b] # <<>> /\ UNCHANGED request
    BY <1>4 DEF OnMessage
  <2>2. /\ e \in EventType /\ w \in Seq(EventType)
        /\ {wire[b][i] : i \in 1..Len(wire[b])} = {w[i] : i \in 1..Len(w)} \cup {e}
    BY <1>3, <2>1, WireReads
  <2> HIDE DEF e, w
  <2>3. wire'[b] = w
    BY <2>1 DEF EventsInv, EventsTypeOK
  <2>4. OnWire(b) = OnWire(b)' \cup {e}
    BY <2>2, <2>3 DEF OnWire
  <2>5. Happened(e)
    BY <1>3, <2>4 DEF UnderWay
  <2>6. /\ ShownTyped /\ Shown(b)' /\ NotBack(b)
        /\ \A x \in Browsers \ {b} : view'[x] = view[x] /\ met'[x] = met[x]
        /\ IsNewest(e) \/ Arrived(b) => Arrived(b)'
    BY <1>1, <2>1, <2>2, <2>5, Shows
  <2>7. UnderWay(b)'
    BY <1>1, <1>3, <2>1, <2>4 DEF UnderWay, Happened
  <2>8. Reach(b)'
    BY <1>1, <1>3, <2>4, <2>6 DEF Reach, NewestAnnounced, Queueing, Written, IsNewest
  <2>9. EventsTypeOK' /\ OnlyPage(b)
    BY <1>1, <1>2, <2>1, <2>2, <2>6 DEF EventsInv, EventsTypeOK, OnlyPage, ShownTyped
  <2> QED
    BY <2>6, <2>7, <2>8, <2>9, OnePage
<1>5. CASE ApplyAnswer(b)
  <2> DEFINE e == request[b].answer
  <2>1. /\ request' = [request EXCEPT ![b] = Idle] /\ ApplySessionSnapshot(b, e)
        /\ UNCHANGED wire /\ e # NoEvent
    BY <1>5 DEF ApplyAnswer, streamVars
  <2>2. e \in EventType /\ Happened(e)
    BY <1>3, <2>1 DEF RequestType, UnderWay
  <2> HIDE DEF e
  <2>3. Idle \in RequestType /\ Idle.answer = NoEvent
    BY DEF Idle, RequestType
  <2>4. request'[b] = Idle
    BY <2>1 DEF EventsInv, EventsTypeOK
  <2>5. /\ ShownTyped /\ Shown(b)' /\ NotBack(b)
        /\ \A x \in Browsers \ {b} : view'[x] = view[x] /\ met'[x] = met[x]
        /\ Arrived(b) => Arrived(b)'
    BY <1>1, <2>1, <2>2, Shows
  <2>6. UnderWay(b)'
    BY <1>1, <1>3, <2>1, <2>3, <2>4 DEF UnderWay, Happened, OnWire
  <2>7. Reach(b)'
    BY <1>1, <1>3, <2>1, <2>5 DEF Reach, NewestAnnounced, Queueing, Written, IsNewest, OnWire
  <2>8. EventsTypeOK' /\ OnlyPage(b)
    BY <1>1, <1>2, <2>1, <2>3, <2>5 DEF EventsInv, EventsTypeOK, OnlyPage, ShownTyped
  <2> QED
    BY <2>5, <2>6, <2>7, <2>8, OnePage
<1> QED
  BY <1>4, <1>5

\* Steps of the page's GETs and of its dashboard session leave its stream alone,
\* and the view, but for the login view that the pin forces.
LEMMA QuietSteps ==
  ASSUME EventsInv, NEW b \in Browsers,
         UNCHANGED <<vars, instance, streamVars, met, historyVars>>, drops' \in 0..MaxDrops,
         NEW r \in RequestType, request' = [request EXCEPT ![b] = r],
         r.answer \in {NoEvent, Newest, request[b].answer},
         dashboard' \in [Browsers -> DashboardType], masked' \in [Browsers -> BOOLEAN],
         \/ /\ UNCHANGED view
            /\ \A x \in Browsers : dashboard'[x].pinned => dashboard[x].pinned
         \/ /\ view' = [view EXCEPT ![b].isAuthenticated = FALSE]
            /\ \A x \in Browsers \ {b} : dashboard'[x].pinned => dashboard[x].pinned
  PROVE  EventsInv' /\ NotBack(b) /\ \A x \in Browsers \ {b} : view'[x] = view[x]
<1>1. /\ UNCHANGED <<vars, snapshot, transitions, instance, client, slot, wire, met, delivered,
                     overtaken>>
      /\ \A x \in Browsers \ {b} : request'[x] = request[x]
      /\ request'[b] = r /\ request' \in [Browsers -> RequestType]
  BY DEF vars, streamVars, historyVars, EventsInv, EventsTypeOK
<1>2. TypeOK'
  BY <1>1 DEF EventsInv, EventsTypeOK, TypeOK, vars
<1>3. UnderWay(b) /\ Shown(b) /\ Reach(b) /\ view[b] \in ViewType
  BY PageTyped
<1>4. /\ view'[b].instance = view[b].instance /\ view'[b].revision = view[b].revision
      /\ view'[b].retired = view[b].retired
      /\ \A x \in Browsers \ {b} : view'[x] = view[x]
      /\ view' \in [Browsers -> ViewType]
      /\ \A x \in Browsers :
           /\ view'[x].state \in {"unauthenticated", "hard_invalid"} => view'[x].user = NoUser
           /\ dashboard'[x].pinned => ~ view'[x].isAuthenticated
  <2>1. CASE /\ UNCHANGED view
             /\ \A x \in Browsers : dashboard'[x].pinned => dashboard[x].pinned
    BY <2>1 DEF EventsInv, EventsTypeOK
  <2>2. CASE /\ view' = [view EXCEPT ![b].isAuthenticated = FALSE]
             /\ \A x \in Browsers \ {b} : dashboard'[x].pinned => dashboard[x].pinned
    <3> DEFINE v == [view[b] EXCEPT !.isAuthenticated = FALSE]
    <3>1. /\ v \in ViewType /\ v.isAuthenticated = FALSE
          /\ v.instance = view[b].instance /\ v.revision = view[b].revision
          /\ v.retired = view[b].retired /\ v.state = view[b].state /\ v.user = view[b].user
      BY <1>3 DEF ViewType
    <3>2. view' = [view EXCEPT ![b] = v]
      BY <2>2
    <3> HIDE DEF v
    <3>3. view'[b] = v /\ view' \in [Browsers -> ViewType] /\ \A x \in Browsers \ {b} : view'[x] = view[x]
      BY <3>1, <3>2 DEF EventsInv, EventsTypeOK
    <3>4. /\ \A x \in Browsers : /\ view[x].state \in {"unauthenticated", "hard_invalid"} => view[x].user = NoUser
                                 /\ dashboard[x].pinned => ~ view[x].isAuthenticated
      BY DEF EventsInv, EventsTypeOK
    <3> QED
      BY <2>2, <3>1, <3>3, <3>4
  <2> QED
    BY <2>1, <2>2
<1>5. Shown(b)'
  BY <1>1, <1>3, <1>4 DEF Shown
<1>6. UnderWay(b)'
  BY <1>1, <1>3, NewestIsCurrent DEF UnderWay, Happened, OnWire
<1>7. Reach(b)'
  BY <1>1, <1>3, <1>4
     DEF Reach, NewestAnnounced, Queueing, Written, IsNewest, OnWire, Arrived, StreamIsCurrent,
         Strayed
<1>8. EventsTypeOK' /\ OnlyPage(b)
  BY <1>1, <1>2, <1>4 DEF EventsInv, EventsTypeOK, OnlyPage
<1>9. NotBack(b)
  BY <1>3, <1>4, EventsAssumption DEF NotBack, ViewType
<1> QED
  BY <1>4, <1>5, <1>6, <1>7, <1>8, <1>9, OnePage

\* The page's GETs, its bootstrap, cookies lost, the pin and its release.
LEMMA SessionSteps ==
  ASSUME EventsInv, NEW b \in Browsers,
         SendGet(b) \/ AnswerGet(b) \/ ApplyRefusal(b) \/ SessionStep(b) \/ ReplyStep(b)
  PROVE  /\ EventsInv'
         /\ NotBack(b)
         /\ \A x \in Browsers \ {b} : view'[x] = view[x]
<1>1. /\ request[b] \in RequestType /\ request \in [Browsers -> RequestType]
      /\ dashboard[b] \in DashboardType /\ dashboard \in [Browsers -> DashboardType]
      /\ masked \in [Browsers -> BOOLEAN] /\ drops \in 0..MaxDrops
      /\ request = [request EXCEPT ![b] = request[b]]
  BY DEF EventsInv, EventsTypeOK
<1>2. /\ Idle \in RequestType /\ Sent \in RequestType /\ Refused \in RequestType
      /\ Idle.answer = NoEvent /\ Sent.answer = NoEvent /\ Refused.answer = NoEvent
  BY DEF Idle, Sent, Refused, RequestType
<1>3. UNCHANGED <<vars, instance, streamVars, met, historyVars>> /\ drops' \in 0..MaxDrops
  BY <1>1, EventsAssumption
     DEF SendGet, AnswerGet, ApplyRefusal, SessionStep, ReplyStep, Bootstrap, LoseCredential,
         MarkDashboardSessionRequired, ReceiveResult, CommandFails, Reconcile, shownVars
<1>4. CASE SendGet(b) \/ AnswerGet(b)
  <2> DEFINE a == [phase |-> "sent", answer |-> Newest]
  <2>1. a \in RequestType /\ a.answer = Newest
    BY NewestIsCurrent DEF RequestType
  <2>2. \/ request' = [request EXCEPT ![b] = Sent]
        \/ request' = [request EXCEPT ![b] = Refused]
        \/ request' = [request EXCEPT ![b] = a]
    BY <1>4 DEF SendGet, AnswerGet
  <2> HIDE DEF a
  <2>3. PICK r \in RequestType :
          request' = [request EXCEPT ![b] = r] /\ r.answer \in {NoEvent, Newest}
    BY <1>2, <2>1, <2>2
  <2>4. UNCHANGED <<dashboard, view, masked>>
    BY <1>4 DEF SendGet, AnswerGet, shownVars
  <2> QED
    BY <1>1, <1>3, <2>3, <2>4, QuietSteps
<1>5. CASE ApplyRefusal(b)
  <2>1. /\ request' = [request EXCEPT ![b] = Idle]
        /\ dashboard' = [dashboard EXCEPT ![b].ready = FALSE] /\ UNCHANGED <<view, masked>>
    BY <1>5 DEF ApplyRefusal, shownVars
  <2>2. /\ dashboard' \in [Browsers -> DashboardType]
        /\ \A x \in Browsers : dashboard'[x].pinned = dashboard[x].pinned
    BY <1>1, <2>1 DEF DashboardType
  <2> QED
    BY <1>1, <1>2, <1>3, <2>1, <2>2, QuietSteps
<1>6. CASE MarkDashboardSessionRequired(b)
  <2>1. /\ UNCHANGED request /\ dashboard' = [dashboard EXCEPT ![b].pinned = TRUE]
        /\ view' = [view EXCEPT ![b].isAuthenticated = FALSE]
        /\ masked' = [masked EXCEPT ![b] = TRUE]
    BY <1>6 DEF MarkDashboardSessionRequired
  <2>2. /\ dashboard' \in [Browsers -> DashboardType] /\ masked' \in [Browsers -> BOOLEAN]
        /\ \A x \in Browsers \ {b} : dashboard'[x].pinned = dashboard[x].pinned
        /\ request' = [request EXCEPT ![b] = request[b]]
    BY <1>1, <2>1 DEF DashboardType
  <2> QED
    BY <1>1, <1>3, <2>1, <2>2, QuietSteps
<1>7. CASE Reconcile(b)
  <2>1. /\ request' = [request EXCEPT ![b] = Sent]
        /\ dashboard' = [dashboard EXCEPT ![b].command = "none", ![b].pinned = FALSE]
        /\ UNCHANGED <<view, masked>>
    BY <1>7 DEF Reconcile, shownVars
  <2>2. /\ dashboard' \in [Browsers -> DashboardType]
        /\ \A x \in Browsers : dashboard'[x].pinned => dashboard[x].pinned
    BY <1>1, <2>1 DEF DashboardType
  <2> QED
    BY <1>1, <1>2, <1>3, <2>1, <2>2, QuietSteps
<1>8. CASE Bootstrap(b) \/ LoseCredential(b) \/ ReceiveResult(b) \/ CommandFails(b)
  <2>1. /\ dashboard' \in [Browsers -> DashboardType]
        /\ \A x \in Browsers : dashboard'[x].pinned = dashboard[x].pinned
    <3>1. CASE Bootstrap(b)
      BY <1>1, <3>1 DEF Bootstrap, DashboardType
    <3>2. CASE LoseCredential(b)
      BY <1>1, <3>2 DEF LoseCredential, DashboardType
    <3>3. CASE ReceiveResult(b)
      BY <1>1, <3>3 DEF ReceiveResult, DashboardType
    <3>4. CASE CommandFails(b)
      BY <1>1, <3>4 DEF CommandFails, DashboardType
    <3> QED
      BY <1>8, <3>1, <3>2, <3>3, <3>4
  <2>2. UNCHANGED <<request, view, masked>>
    BY <1>8 DEF Bootstrap, LoseCredential, ReceiveResult, CommandFails, shownVars
  <2>3. request' = [request EXCEPT ![b] = request[b]]
    BY <1>1, <2>2
  <2> QED
    BY <1>1, <1>3, <2>1, <2>2, <2>3, QuietSteps
<1> QED
  BY <1>4, <1>5, <1>6, <1>7, <1>8 DEF SessionStep, ReplyStep

-------------------------------------------------------------------------------
(* Steps of the process. *)

\* No page has seen anything before the process runs.
LEMMA EventsInitHolds == EventsInit => EventsInv
<1> SUFFICES ASSUME EventsInit PROVE EventsInv
  OBVIOUS
<1>1. TypeOK /\ transitions = {}
  BY InitIInv DEF EventsInit, Init, IInv
<1>2. <<>> \in Seq(EventType) /\ Len(<<>>) = 0
  BY EmptySeq
<1> DEFINE v == [instance |-> 0, revision |-> 0, retired |-> {}, state |-> "restoring",
                 user |-> NoUser, isAuthenticated |-> FALSE]
           D == {[ready |-> FALSE, pinned |-> FALSE, credential |-> c, command |-> "none"] :
                   c \in BOOLEAN}
<1>3. /\ instance = 1 /\ client = [b \in Browsers |-> "unopened"]
      /\ slot = [b \in Browsers |-> NoEvent] /\ wire = [b \in Browsers |-> <<>>]
      /\ request = [b \in Browsers |-> Idle] /\ view = [b \in Browsers |-> v]
      /\ dashboard \in [Browsers -> D]
      /\ met = [b \in Browsers |-> {}] /\ masked = [b \in Browsers |-> FALSE]
      /\ delivered = 0 /\ overtaken = FALSE /\ drops = 0
  BY DEF EventsInit
<1>4. Idle \in RequestType /\ Idle.answer = NoEvent
  BY DEF Idle, RequestType
<1>5. /\ v \in ViewType /\ v.instance = 0 /\ v.isAuthenticated = FALSE
      /\ v.state \in {"unauthenticated", "hard_invalid"} => v.user = NoUser
  BY EventsAssumption DEF ViewType, States
<1>6. \A d \in D : d \in DashboardType /\ d.pinned = FALSE
  <2>1. ASSUME NEW c \in BOOLEAN
        PROVE  [ready |-> FALSE, pinned |-> FALSE, credential |-> c, command |-> "none"]
                 \in DashboardType
    BY DEF DashboardType
  <2> QED
    BY <2>1
<1> HIDE DEF v, D
<1>7. instance \in 1..MaxInstance
  BY <1>3, EventsAssumption
<1>8. EventsTypeOK
  <2>1. /\ client \in [Browsers -> ClientPhases] /\ slot \in [Browsers -> EventType \cup {NoEvent}]
        /\ wire \in [Browsers -> Seq(EventType)] /\ request \in [Browsers -> RequestType]
    BY <1>2, <1>3, <1>4 DEF ClientPhases
  <2>2. dashboard \in [Browsers -> DashboardType]
    BY <1>3, <1>6
  <2>3. /\ view \in [Browsers -> ViewType]
        /\ \A b \in Browsers :
             /\ view[b].state \in {"unauthenticated", "hard_invalid"} => view[b].user = NoUser
             /\ dashboard[b].pinned => ~ view[b].isAuthenticated
    BY <1>3, <1>5
  <2>4. /\ met \in [Browsers -> SUBSET (1..MaxInstance)] /\ masked \in [Browsers -> BOOLEAN]
        /\ delivered \in Nat /\ drops \in 0..MaxDrops /\ overtaken \in BOOLEAN
    <3>1. met \in [Browsers -> SUBSET (1..MaxInstance)] /\ masked \in [Browsers -> BOOLEAN]
      BY <1>3
    <3>2. delivered \in Nat /\ drops \in 0..MaxDrops
      BY <1>3, EventsAssumption
    <3>3. overtaken \in BOOLEAN
      BY <1>3
    <3> QED
      BY <3>1, <3>2, <3>3
  <2> QED
    BY <1>1, <1>7, <2>1, <2>2, <2>3, <2>4 DEF EventsTypeOK
<1>9. ASSUME NEW b \in Browsers PROVE UnderWay(b) /\ Shown(b) /\ Reach(b)
  BY <1>2, <1>3, <1>4, <1>5 DEF UnderWay, Shown, Reach, OnWire
<1> QED
  BY <1>1, <1>8, <1>9 DEF EventsInv

\* A publication, by a goroutine of the process or for a page's command, is under
\* way to everybody; what was under way is older.
LEMMA PublishingKeeps ==
  ASSUME EventsInv, NEW to, NEW user, Forces(to, user),
         UNCHANGED <<instance, streamVars, request, shownVars, historyVars, drops>>,
         dashboard' \in [Browsers -> DashboardType],
         \A b \in Browsers : dashboard'[b].pinned = dashboard[b].pinned
  PROVE  EventsInv'
<1>1. TypeOK /\ NumListeners = 1 /\ snapshot.revision \in Nat
  BY EventsAssumption DEF EventsInv, EventsTypeOK, TypeOK, SnapshotType
<1>2. /\ TypeOK' /\ snapshot'.revision = snapshot.revision + 1
      /\ \E r : transitions' = transitions \cup {r} /\ r.event = snapshot'
  BY <1>1, ForcedIsAnnounced
<1>3. UNCHANGED <<instance, client, slot, wire, request, view, met, masked, delivered,
                  overtaken, drops>>
  BY DEF streamVars, shownVars, historyVars
<1>4. EventsTypeOK'
  BY <1>2, <1>3 DEF EventsInv, EventsTypeOK
<1>5. \A t \in transitions : t.event.revision \in Nat
  BY <1>1 DEF TypeOK, TransitionType, SnapshotType
<1>6. \A t \in transitions' : t.event.revision <= snapshot'.revision
  BY <1>1, <1>2, <1>5 DEF EventsInv
<1>7. ASSUME NEW b \in Browsers PROVE UnderWay(b)' /\ Shown(b)' /\ Reach(b)'
  <2>1. UnderWay(b) /\ Shown(b) /\ view[b].revision \in Nat
    BY DEF EventsInv, EventsTypeOK, ViewType
  <2>2. \A x : Happened(x) => Happened(x)'
    BY <1>1, <1>2, <1>3 DEF Happened, EventType, SnapshotType
  <2>3. UnderWay(b)'
    BY <1>3, <2>1, <2>2 DEF UnderWay, OnWire
  <2>4. Shown(b)'
    BY <1>1, <1>2, <1>3, <2>1 DEF Shown
  <2>5. NewestAnnounced'
    BY <1>2 DEF NewestAnnounced
  <2> QED
    BY <2>3, <2>4, <2>5 DEF Reach
<1> QED
  BY <1>4, <1>6, <1>7 DEF EventsInv

\* The publications of the process, and those its pages ask for.
LEMMA PublicationsKeep ==
  ASSUME EventsInv,
         \/ InBudget /\ PublishingStep /\ UNCHANGED eventVars
         \/ \E b \in Browsers : ServeLogin(b) \/ ServeLogout(b)
  PROVE  EventsInv' /\ UNCHANGED view
<1>1. TypeOK /\ NumListeners = 1
  BY EventsAssumption DEF EventsInv, EventsTypeOK
<1>2. CASE InBudget /\ PublishingStep /\ UNCHANGED eventVars
  <2>1. PICK to, user : Forces(to, user)
    BY <1>1, <1>2, ForcedSteps DEF PublishingStep
  <2>2. UNCHANGED <<instance, streamVars, request, shownVars, historyVars, drops, dashboard, view>>
    BY <1>2 DEF eventVars, shownVars
  <2>3. dashboard' \in [Browsers -> DashboardType]
    BY <2>2 DEF EventsInv, EventsTypeOK
  <2> QED
    BY <2>1, <2>2, <2>3, PublishingKeeps
<1>3. ASSUME NEW b \in Browsers, ServeLogin(b) \/ ServeLogout(b)
      PROVE  EventsInv' /\ UNCHANGED view
  <2>1. PICK to, user : Forces(to, user)
    BY <1>1, <1>3, ForcedSteps DEF ServeLogin, ServeLogout
  <2>2. UNCHANGED <<instance, streamVars, request, shownVars, historyVars, drops, view>>
    BY <1>3 DEF ServeLogin, ServeLogout, shownVars
  <2>3. PICK c \in {"login", "logout"} : dashboard' = [dashboard EXCEPT ![b].command = c]
    BY <1>3 DEF ServeLogin, ServeLogout
  <2>4. [dashboard[b] EXCEPT !.command = c] \in DashboardType
    BY PageTyped, <2>3 DEF DashboardType
  <2>5. /\ dashboard' \in [Browsers -> DashboardType]
        /\ \A x \in Browsers : dashboard'[x].pinned = dashboard[x].pinned
    BY <2>3, <2>4 DEF EventsInv, EventsTypeOK, DashboardType
  <2> QED
    BY <2>1, <2>2, <2>5, PublishingKeeps
<1> QED
  BY <1>2, <1>3

\* The broker puts a transition in every open channel.  One that is not the
\* newest replaces the newest only out of order.
LEMMA BroadcastKeeps ==
  ASSUME EventsInv, Broadcast
  PROVE  EventsInv'
<1>1. PICK t \in transitions :
        /\ CallListener(t)
        /\ slot' = [b \in Browsers |->
             Queued(b, [instance |-> instance, snapshot |-> t.event])]
        /\ overtaken' = (overtaken \/ t.event.revision < delivered)
        /\ delivered' = IF t.event.revision > delivered THEN t.event.revision ELSE delivered
        /\ UNCHANGED <<instance, client, wire, request, dashboard, view, met, masked, drops>>
  BY DEF Broadcast, shownVars
<1> DEFINE e == [instance |-> instance, snapshot |-> t.event]
<1>2. /\ TypeOK /\ NumListeners = 1 /\ snapshot.revision \in Nat /\ instance \in 1..MaxInstance
      /\ delivered \in Nat /\ overtaken \in BOOLEAN
  BY EventsAssumption DEF EventsInv, EventsTypeOK, TypeOK, SnapshotType
<1>3. TypeOK' /\ UNCHANGED snapshot /\ transitions' = transitions \ {t}
  BY <1>1, <1>2, SoleListener
<1>4. /\ t.event \in SnapshotType /\ t.event.revision \in Nat
      /\ t.event.revision <= snapshot.revision
  BY <1>2 DEF TypeOK, TransitionType, SnapshotType, EventsInv
<1>5. /\ e \in EventType /\ e.instance = instance /\ e.snapshot.revision = t.event.revision
      /\ e # NoEvent
  BY <1>2, <1>4, NoEventAssumption DEF EventType
<1>6. \A b \in Browsers : slot'[b] = IF Open(b) THEN e ELSE NoEvent
  BY <1>1 DEF Queued
<1> HIDE DEF e
<1>7. /\ slot' \in [Browsers -> EventType \cup {NoEvent}]
      /\ delivered' \in Nat /\ overtaken' \in BOOLEAN
      /\ delivered' >= t.event.revision /\ delivered' >= delivered
  BY <1>1, <1>2, <1>4, <1>5, <1>6 DEF Queued, e
<1>8. EventsTypeOK'
  BY <1>1, <1>3, <1>7 DEF EventsInv, EventsTypeOK
<1>9. ASSUME NEW b \in Browsers PROVE UnderWay(b)' /\ Shown(b)' /\ Reach(b)'
  <2>1. UnderWay(b) /\ Shown(b) /\ Reach(b)
    BY DEF EventsInv
  <2>2. UnderWay(b)'
    BY <1>1, <1>2, <1>3, <1>4, <1>5, <1>6, <1>7, <2>1 DEF UnderWay, Happened, OnWire
  <2>3. Shown(b)'
    BY <1>1, <1>3, <2>1 DEF Shown
  <2>4. CASE client'[b] = "streaming" /\ ~ overtaken'
    <3>1. /\ NewestAnnounced \/ Queueing(b) \/ Written(b) \/ Arrived(b)
          /\ ~ (t.event.revision < delivered) /\ slot'[b] = e
      BY <1>1, <1>6, <2>1, <2>4 DEF Reach, Open
    <3>2. Written(b) => Written(b)'
      BY <1>1, <1>3 DEF Written, OnWire, IsNewest
    <3>3. Arrived(b) => Arrived(b)'
      BY <1>1, <1>3 DEF Arrived, StreamIsCurrent, Strayed
    <3>4. Queueing(b) => Queueing(b)'
      <4>1. ASSUME Queueing(b) PROVE t.event.revision = snapshot.revision
        BY <1>2, <1>4, <2>1, <3>1, <4>1 DEF Queueing, IsNewest, UnderWay
      <4> QED
        BY <1>1, <1>3, <1>5, <3>1, <4>1 DEF Queueing, IsNewest
    <3>5. NewestAnnounced => NewestAnnounced' \/ Queueing(b)'
      BY <1>1, <1>3, <1>5, <3>1 DEF NewestAnnounced, Queueing, IsNewest
    <3> QED
      BY <2>2, <2>3, <3>1, <3>2, <3>3, <3>4, <3>5 DEF Reach
  <2> QED
    BY <2>2, <2>3, <2>4 DEF Reach
<1> QED
  BY <1>3, <1>8, <1>9 DEF EventsInv

\* A restart severs the streams; what has left the old process is now of one that
\* is gone.
LEMMA RestartKeeps ==
  ASSUME EventsInv, Restart
  PROVE  EventsInv'
<1>1. /\ instance \in 1..MaxInstance /\ instance < MaxInstance /\ instance' = instance + 1
      /\ snapshot' = [revision |-> 1, generation |-> 1, state |-> "restoring", user |-> NoUser]
      /\ transitions' = {}
      /\ client' = [b \in Browsers |-> IF Open(b) THEN "closed" ELSE client[b]]
      /\ slot' = [b \in Browsers |-> NoEvent]
      /\ request' = [b \in Browsers |-> IF request[b] = Sent THEN Idle ELSE request[b]]
      /\ delivered' = 0 /\ overtaken' = FALSE
      /\ UNCHANGED <<opVars, flowVars, forcedProxyFlowCloses, wire, dashboard, view, met,
                     masked, drops>>
  BY DEF Restart, shownVars, EventsInv, EventsTypeOK
<1>2. instance' \in 1..MaxInstance
  BY <1>1, EventsAssumption
<1>3. Idle \in RequestType /\ Idle.answer = NoEvent
  BY DEF Idle, RequestType
<1>4. snapshot' \in SnapshotType /\ snapshot'.state = "restoring" /\ snapshot'.user = NoUser
  BY <1>1 DEF SnapshotType, States
<1>5. TypeOK'
  BY <1>1, <1>4 DEF EventsInv, EventsTypeOK, TypeOK, opVars, flowVars
<1>6. client' \in [Browsers -> ClientPhases] /\ \A b \in Browsers : client'[b] # "streaming"
  BY <1>1 DEF EventsInv, EventsTypeOK, ClientPhases, Open
<1>7. request' \in [Browsers -> RequestType]
  BY <1>1, <1>3 DEF EventsInv, EventsTypeOK
<1>8. EventsTypeOK'
  BY <1>1, <1>2, <1>5, <1>6, <1>7 DEF EventsInv, EventsTypeOK
<1>9. ASSUME NEW b \in Browsers PROVE UnderWay(b)' /\ Shown(b)' /\ Reach(b)'
  <2>1. UnderWay(b) /\ Shown(b) /\ view[b].instance \in Nat
    BY EventsAssumption DEF EventsInv, EventsTypeOK, ViewType
  <2>2. Shown(b)'
    BY <1>1, <2>1 DEF Shown
  <2>3. \A e : Happened(e) => Happened(e)'
    BY <1>1 DEF Happened, EventType
  <2>4. OnWire(b)' = OnWire(b) /\ slot'[b] = NoEvent
        /\ request'[b].answer \in {NoEvent, request[b].answer}
    BY <1>1, <1>3 DEF OnWire
  <2>5. UnderWay(b)'
    BY <2>1, <2>3, <2>4 DEF UnderWay
  <2>6. Reach(b)'
    BY <1>6 DEF Reach
  <2> QED
    BY <2>2, <2>5, <2>6
<1> QED
  BY <1>1, <1>8, <1>9 DEF EventsInv

-------------------------------------------------------------------------------
\* Every step keeps the invariant, and no page is taken back by it.
LEMMA EventsStepKeeps ==
  EventsInv /\ [EventsNext]_allVars => EventsInv' /\ \A b \in Browsers : NotBack(b)
<1> SUFFICES ASSUME EventsInv, [EventsNext]_allVars
             PROVE  EventsInv' /\ \A b \in Browsers : NotBack(b)
  OBVIOUS
<1>1. \A b \in Browsers : view[b].instance \in Nat /\ view[b].revision \in Nat
  BY EventsAssumption DEF EventsInv, EventsTypeOK, ViewType
<1>2. ASSUME NEW b \in Browsers, view'[b] = view[b] PROVE NotBack(b)
  BY <1>1, <1>2 DEF NotBack
<1>3. CASE \/ InBudget /\ PublishingStep /\ UNCHANGED eventVars
           \/ \E b \in Browsers : ServeLogin(b) \/ ServeLogout(b)
  BY <1>2, <1>3, PublicationsKeep
<1>4. CASE Broadcast
  BY <1>2, <1>4, BroadcastKeeps DEF Broadcast, shownVars
<1>5. ASSUME NEW b \in Browsers, StreamStep(b)
      PROVE  EventsInv' /\ \A x \in Browsers : NotBack(x)
  BY <1>2, <1>5, StreamSteps
     DEF StreamStep, Subscribe, SendInitial, SendQueued, Unsubscribe, shownVars
<1>6. ASSUME NEW b \in Browsers,
             \/ OnMessage(b) \/ Polls(b) \/ SessionStep(b) \/ ReplyStep(b)
      PROVE  EventsInv' /\ \A x \in Browsers : NotBack(x)
  BY <1>2, <1>6, ShowSteps, SessionSteps DEF Polls
<1>7. CASE Restart
  BY <1>2, <1>7, RestartKeeps DEF Restart, shownVars
<1>8. CASE UNCHANGED allVars
  <2>1. UNCHANGED <<vars, instance, client, slot, wire, request, dashboard, view, met, masked,
                    delivered, overtaken, drops, snapshot, transitions>>
    BY <1>8 DEF allVars, vars, eventVars, streamVars, shownVars, historyVars
  <2>2. EventsTypeOK'
    BY <2>1 DEF EventsInv, EventsTypeOK, TypeOK, vars
  <2> QED
    BY <1>2, <2>1, <2>2
       DEF EventsInv, UnderWay, Shown, Reach, Happened, OnWire, IsNewest, NewestAnnounced,
           Queueing, Written, Arrived, StreamIsCurrent, Strayed
<1> QED
  BY <1>3, <1>4, <1>5, <1>6, <1>7, <1>8 DEF EventsNext

\* It holds always.
LEMMA EventsInvAlways == EventsSafetySpec => []EventsInv
<1>1. EventsInv /\ [EventsNext]_allVars => EventsInv'
  BY EventsStepKeeps
<1> QED
  BY <1>1, EventsInitHolds, PTL DEF EventsSafetySpec

\* Snapshots keep their shape on the way to a page, a page that shows the
\* session ended shows no account, and one that is pinned is not logged in,
\* whatever snapshots it has applied since.
THEOREM EventsTypeCorrect == EventsSafetySpec => []EventsTypeOK
<1>1. EventsInv => EventsTypeOK
  BY DEF EventsInv
<1> QED
  BY <1>1, EventsInvAlways, PTL

\* However publications, the broker, dropped streams, restarts, GETs and lost
\* cookies interleave, a stream that has gone quiet has shown its page the newest
\* snapshot, unless the broker was called out of order or the page has retired
\* the process that runs.
THEOREM StreamLosesNothingAlways == EventsSafetySpec => []StreamLosesNothing
<1>1. EventsInv => StreamLosesNothing
  <2> SUFFICES ASSUME EventsInv, NEW b \in Browsers, StreamQuiet(b), ~ overtaken, ~ Strayed(b)
               PROVE  StreamIsCurrent(b)
    BY DEF StreamLosesNothing
  <2>1. Len(<<>>) = 0
    BY EmptySeq
  <2> QED
    BY <2>1 DEF EventsInv, Reach, StreamQuiet, NewestAnnounced, Queueing, Written, OnWire, Arrived
<1> QED
  BY <1>1, EventsInvAlways, PTL

\* No step takes a page back: to an earlier snapshot of the process it shows, or
\* to a process it has shown before, late messages and answers of processes that
\* are gone included.
THEOREM NeverBack == EventsSafetySpec => ViewNeverMovesBack
<1> DEFINE Forward ==
      \A b \in Browsers :
        /\ view'[b].instance = view[b].instance => view'[b].revision >= view[b].revision
        /\ view'[b].instance # view[b].instance => view'[b].instance \notin met[b]
<1>1. EventsInv /\ [EventsNext]_allVars => [Forward]_allVars
  BY EventsStepKeeps DEF NotBack
<1> QED
  BY <1>1, EventsInvAlways, PTL DEF EventsSafetySpec, ViewNeverMovesBack

-------------------------------------------------------------------------------
(* The soft-expiry loop. *)

ExpiryAnnounced == \E t \in transitions : t.event.state = "soft_expired"

\* Places from which the loop comes back to the session.
Driving == {"waiting", "calling", "refreshing", "wiping", "failed"}

Driven ==
  snapshot.state = "soft_expired" /\ hasCredentials /\ ~ swallowed =>
    loop \in Driving \/ ExpiryAnnounced

RecoveryInv == RecoveryTypeOK /\ snapshot.generation # 0 /\ Driven

-------------------------------------------------------------------------------
\* The invariant holds at start-up.
LEMMA RecoveryInitHolds == RecoveryInit => RecoveryInv
<1> SUFFICES ASSUME RecoveryInit PROVE RecoveryInv
  OBVIOUS
<1>1. TypeOK /\ snapshot.generation = 1 /\ snapshot.state = "restoring"
  BY InitIInv DEF RecoveryInit, Init, IInv
<1>2. /\ running = FALSE /\ loop = "off" /\ attempt = 0 /\ hasCredentials = TRUE
      /\ rejecter = "idle" /\ wiping = FALSE /\ swallowed = FALSE
  BY DEF RecoveryInit
<1>3. RecoveryTypeOK
  BY <1>1, <1>2 DEF RecoveryTypeOK, LoopPlaces
<1> QED
  BY <1>1, <1>3 DEF RecoveryInv, Driven

\* A start leaves a loop that drives, or is noted as swallowed.
LEMMA StartDrives ==
  ASSUME RecoveryTypeOK, StartSoftExpiryRecovery
  PROVE  /\ running' \in BOOLEAN /\ loop' \in LoopPlaces /\ (running' <=> loop' # "off")
         /\ attempt' = attempt /\ swallowed' \in BOOLEAN
         /\ (loop' \in {"refreshing", "committed"} <=> loop \in {"refreshing", "committed"})
         /\ loop' \in Driving \/ swallowed'
<1>1. CASE running
  BY <1>1 DEF StartSoftExpiryRecovery, RecoveryTypeOK, LoopPlaces, Driving, loopVars
<1>2. CASE ~ running
  BY <1>2 DEF StartSoftExpiryRecovery, RecoveryTypeOK, LoopPlaces, Driving
<1> QED
  BY <1>1, <1>2

\* Steps of the loop that publish nothing.
LEMMA LoopKeeps ==
  ASSUME RecoveryInv,
         \/ CheckState \/ CallRefresh \/ RefreshReturns \/ RefreshStale \/ RefreshReused
         \/ RefreshWipes \/ RefreshTransient \/ AfterFailure \/ Leave
  PROVE  RecoveryInv'
<1> USE DEF RecoveryInv
<1>1. UNCHANGED vars
  BY DEF CheckState, CallRefresh, RefreshReturns, RefreshStale, RefreshReused, RefreshWipes,
         RefreshTransient, AfterFailure, Leave
<1>2. TypeOK' /\ snapshot'.generation # 0 /\ snapshot.generation \in Nat
  BY <1>1 DEF vars, TypeOK, RecoveryTypeOK, SnapshotType
<1>3. RecoveryTypeOK'
  <2>1. CASE CheckState \/ RefreshWipes \/ AfterFailure \/ Leave
    BY <1>2, <2>1 DEF RecoveryTypeOK, LoopPlaces, CheckState, RefreshWipes, AfterFailure, Leave
  <2>2. CASE CallRefresh
    BY <1>2, <2>2 DEF RecoveryTypeOK, LoopPlaces, CallRefresh
  <2>3. CASE RefreshReturns \/ RefreshStale \/ RefreshReused \/ RefreshTransient
    BY <1>2, <2>3 DEF RecoveryTypeOK, LoopPlaces, EndRefresh, RefreshReturns, RefreshStale,
                      RefreshReused, RefreshTransient
  <2> QED
    BY <2>1, <2>2, <2>3
<1>4. ExpiryAnnounced' = ExpiryAnnounced
  BY <1>1 DEF vars, ExpiryAnnounced
<1>5. Driven'
  BY <1>1, <1>4 DEF vars, Driven, Driving, RecoveryTypeOK, EndRefresh, CheckState, CallRefresh,
         RefreshReturns, RefreshStale, RefreshReused, RefreshWipes, RefreshTransient,
         AfterFailure, Leave
<1> QED
  BY <1>2, <1>3, <1>5

\* A publication: one of a soft expiry announces it, any other ends it.
LEMMA PublicationKeeps ==
  ASSUME RecoveryInv, NEW to, NEW user, Forces(to, user),
         running' \in BOOLEAN, loop' \in LoopPlaces, running' <=> loop' # "off",
         attempt' \in Nat, attempt' # 0 <=> loop' \in {"refreshing", "committed"},
         hasCredentials' \in BOOLEAN, rejecter' \in {"idle", "notifying"},
         wiping' \in BOOLEAN, swallowed' \in BOOLEAN
  PROVE  RecoveryInv'
<1>1. TypeOK /\ NumListeners = 1 /\ snapshot.generation \in Nat
  BY RecoveryAssumption DEF RecoveryInv, RecoveryTypeOK, TypeOK, SnapshotType
<1>2. /\ TypeOK' /\ snapshot'.generation = snapshot.generation + 1 /\ snapshot'.state = to
      /\ \E r : transitions' = transitions \cup {r} /\ r.event = snapshot'
  BY <1>1, ForcedIsAnnounced
<1>3. Driven'
  BY <1>2 DEF Driven, ExpiryAnnounced
<1> QED
  BY <1>1, <1>2, <1>3 DEF RecoveryInv, RecoveryTypeOK

\* The loop publishes the outcome of its refresh.
LEMMA LoopPublicationKeeps ==
  ASSUME RecoveryInv, RefreshSucceeds \/ RefreshRejected
  PROVE  RecoveryInv'
<1> USE DEF RecoveryInv
<1>1. TypeOK /\ snapshot.generation \in Nat
  BY DEF RecoveryTypeOK, TypeOK, SnapshotType
<1>2. CASE RefreshSucceeds
  <2>1. PICK u \in Users : Forces("active", u)
    BY <1>1, <1>2, ForcedSteps DEF RefreshSucceeds
  <2>2. snapshot'.generation = snapshot.generation + 1
    BY <2>1 DEF Forces, Publish
  <2>3. /\ loop' = "committed" /\ attempt' = snapshot.generation + 1
        /\ hasCredentials' = TRUE /\ UNCHANGED <<running, rejecter, wiping, swallowed>>
        /\ loop = "refreshing"
    BY <1>2, <2>2 DEF RefreshSucceeds
  <2> QED
    BY <1>1, <2>1, <2>3, PublicationKeeps DEF RecoveryTypeOK, LoopPlaces
<1>3. CASE RefreshRejected
  <2>1. Forces("hard_invalid", NoUser)
    BY <1>1, <1>3, ForcedSteps DEF RefreshRejected
  <2>2. /\ loop' = "wiping" /\ attempt' = 0 /\ loop = "refreshing"
        /\ UNCHANGED <<running, swallowed, hasCredentials, rejecter, wiping>>
    BY <1>3 DEF RefreshRejected, EndRefresh
  <2> QED
    BY <2>1, <2>2, PublicationKeeps DEF RecoveryTypeOK, LoopPlaces
<1> QED
  BY <1>2, <1>3

\* Publications of other goroutines.
LEMMA OutsideKeeps ==
  ASSUME RecoveryInv, Reject \/ LoginElsewhere \/ RestoreUnavailable \/ WipeElsewhere
  PROVE  RecoveryInv'
<1> USE DEF RecoveryInv
<1>1. TypeOK
  BY DEF RecoveryTypeOK
<1>2. /\ UNCHANGED <<running, loop, attempt, swallowed>>
      /\ hasCredentials' \in BOOLEAN /\ rejecter' \in {"idle", "notifying"} /\ wiping' \in BOOLEAN
  BY DEF Reject, LoginElsewhere, RestoreUnavailable, WipeElsewhere, recoveryVars, loopVars,
         RecoveryTypeOK
<1>3. ASSUME NEW to, NEW user, Forces(to, user) PROVE RecoveryInv'
  BY <1>2, <1>3, PublicationKeeps DEF RecoveryTypeOK
<1>4. CASE Reject /\ snapshot.state # "active"
  <2>1. UNCHANGED vars /\ hasCredentials' = hasCredentials
    BY <1>4 DEF Reject
  <2>2. TypeOK' /\ snapshot'.generation # 0
    BY <1>1, <2>1 DEF vars, TypeOK
  <2> QED
    BY <1>2, <2>1, <2>2 DEF vars, RecoveryTypeOK, Driven, ExpiryAnnounced
<1>5. CASE Reject /\ snapshot.state = "active"
  BY <1>1, <1>3, <1>5, ForcedSteps DEF Reject
<1>6. CASE LoginElsewhere
  BY <1>1, <1>3, <1>6, ForcedSteps DEF LoginElsewhere
<1>7. CASE RestoreUnavailable
  <2>1. PICK u \in Users : Publish("soft_expired", u) /\ UNCHANGED <<phase, published>>
    BY <1>7 DEF RestoreUnavailable
  <2>2. Forces("soft_expired", u)
    BY <2>1, ConstantsAssumption DEF Forces, States
  <2> QED
    BY <1>3, <2>2
<1>8. CASE WipeElsewhere
  BY <1>1, <1>3, <1>8, ForcedSteps DEF WipeElsewhere
<1> QED
  BY <1>4, <1>5, <1>6, <1>7, <1>8

\* Starts, direct and by the listener.
LEMMA StartsKeep ==
  ASSUME RecoveryInv, StartDirectly \/ OnSessionEvent
  PROVE  RecoveryInv'
<1> USE DEF RecoveryInv
<1>1. CASE StartDirectly
  <2>1. /\ UNCHANGED vars /\ StartSoftExpiryRecovery /\ rejecter' = "idle"
        /\ UNCHANGED <<hasCredentials, wiping>>
    BY <1>1 DEF StartDirectly
  <2>2. TypeOK' /\ snapshot'.generation # 0
    BY <2>1 DEF vars, TypeOK, RecoveryTypeOK
  <2> QED
    BY <2>1, <2>2, StartDrives DEF RecoveryTypeOK, Driven
<1>2. CASE OnSessionEvent
  <2>1. PICK t \in transitions :
          /\ CallListener(t)
          /\ IF t.event.state = "soft_expired" THEN StartSoftExpiryRecovery
             ELSE UNCHANGED <<loopVars, swallowed>>
          /\ UNCHANGED <<hasCredentials, rejecter, wiping>>
    BY <1>2 DEF OnSessionEvent
  <2>2. TypeOK' /\ UNCHANGED snapshot /\ transitions' = transitions \ {t}
    BY <2>1, SoleListener, RecoveryAssumption DEF RecoveryTypeOK
  <2>3. CASE t.event.state = "soft_expired"
    BY <2>1, <2>2, <2>3, StartDrives DEF RecoveryTypeOK, Driven
  <2>4. CASE t.event.state # "soft_expired"
    <3>1. UNCHANGED <<running, loop, attempt, swallowed, hasCredentials, rejecter, wiping>>
      BY <2>1, <2>4 DEF loopVars
    <3>2. ExpiryAnnounced => ExpiryAnnounced'
      BY <2>2, <2>4 DEF ExpiryAnnounced
    <3> QED
      BY <2>2, <3>1, <3>2 DEF RecoveryTypeOK, Driven
  <2> QED
    BY <2>3, <2>4
<1> QED
  BY <1>1, <1>2

\* Every step keeps the invariant.
LEMMA RecoveryStepKeeps == RecoveryInv /\ [RecoveryNext]_allRecoveryVars => RecoveryInv'
<1> SUFFICES ASSUME RecoveryInv, [RecoveryNext]_allRecoveryVars PROVE RecoveryInv'
  OBVIOUS
<1>1. CASE LoopStep
  BY <1>1, LoopKeeps, LoopPublicationKeeps DEF LoopStep
<1>2. CASE Outside
  BY <1>2, OutsideKeeps DEF Outside
<1>3. CASE StartDirectly \/ OnSessionEvent
  BY <1>3, StartsKeep
<1>4. CASE DeleteCredentials \/ UNCHANGED allRecoveryVars
  <2>1. /\ UNCHANGED vars /\ UNCHANGED <<running, loop, attempt, rejecter, swallowed>>
        /\ hasCredentials' \in {FALSE, hasCredentials} /\ wiping' \in {FALSE, wiping}
    BY <1>4 DEF DeleteCredentials, allRecoveryVars, recoveryVars, loopVars
  <2>2. TypeOK' /\ snapshot'.generation # 0 /\ ExpiryAnnounced' = ExpiryAnnounced
    BY <2>1 DEF RecoveryInv, RecoveryTypeOK, vars, TypeOK, ExpiryAnnounced
  <2>3. RecoveryTypeOK'
    BY <2>1, <2>2 DEF RecoveryInv, RecoveryTypeOK
  <2>4. Driven'
    BY <2>1, <2>2 DEF RecoveryInv, RecoveryTypeOK, vars, Driven
  <2> QED
    BY <2>2, <2>3, <2>4 DEF RecoveryInv
<1> QED
  BY <1>1, <1>2, <1>3, <1>4 DEF RecoveryNext

\* It holds always.
LEMMA RecoveryInvAlways == RecoverySafetySpec => []RecoveryInv
<1> QED
  BY RecoveryInitHolds, RecoveryStepKeeps, PTL DEF RecoverySafetySpec

\* The flag that makes the loop single-flight is set exactly while its
\* goroutine exists, and only a refresh under way holds an operation.
THEOREM RecoveryTypeCorrect == RecoverySafetySpec => []RecoveryTypeOK
<1>1. RecoveryInv => RecoveryTypeOK
  BY DEF RecoveryInv
<1> QED
  BY <1>1, RecoveryInvAlways, PTL

\* However rejections, logins, wipes and the answers of the cloud interleave with
\* the loop, a session left soft-expired with its credentials is without a loop
\* only if a start found the previous loop on its way out.
THEOREM DrivenAlways == RecoverySafetySpec => []DrivenUnlessSwallowed
<1>1. RecoveryInv => DrivenUnlessSwallowed
  BY DEF RecoveryInv, RecoveryTypeOK, Driven, Driving, ExpiryAnnounced, DrivenUnlessSwallowed,
         Settled
<1> QED
  BY <1>1, RecoveryInvAlways, PTL

=============================================================================
