------------------------------ MODULE ChatPage ------------------------------
(***************************************************************************)
(* The chat page (src/app/website/src/composables/useAliangChat.js) and the*)
(* socket between it and the host of the runs (src/app/http/services/      *)
(* agent_ai*.go).  The page keeps several conversations, one flag sending, *)
(* one idle watchdog and one socket for all of them; every send is a chain *)
(* of awaits (socket, acknowledged create, message).  The socket may close *)
(* at any moment with what was in flight, the page reconnects and compares *)
(* its bubbles with the snapshot of the host's journal.                    *)
(*                                                                         *)
(* Device shells, approvals, option cards, steering and recalling are left *)
(* out, and so is leaving the page for another one of the website, which   *)
(* keeps timers of the page that was left.  A run is one kernel turn: its  *)
(* row reaches the journal at its end.                                     *)
(***************************************************************************)
EXTENDS Naturals, Sequences, FiniteSets, SequencesExt

CONSTANTS
    Conv,           \* conversations the user may open
    NoConv,         \* no conversation
    MaxTurns,       \* bound: messages sent in one conversation
    Pieces,         \* deltas of a run
    MaxActs,        \* bound: messages sent, runs stopped and pages reloaded, together
    MayDrop,        \* whether the socket may close under the page
    Apart           \* bound: stops, reloads and closed sockets only with one conversation,
                    \* runs of more than one delta only after a reload

ASSUME ChatAssumption ==
    /\ NoConv \notin Conv
    /\ MaxTurns \in Nat /\ Pieces \in Nat /\ MaxActs \in Nat
    /\ MayDrop \in BOOLEAN /\ Apart \in BOOLEAN

VARIABLES
    page,       \* the page's memory
    stored,     \* what it last wrote to localStorage
    socket,     \* the page's socket and its reconnection
    toHost,     \* frames the page sent, in order
    toPage,     \* frames the host sent on this socket, in order
    host,       \* per conversation: session, run and journal of the host
    spent       \* how much of each bound is used, and whether a socket closed

vars == <<page, stored, socket, toHost, toPage, host, spent>>

MaxReconnects == 2
Turn == 1..MaxTurns
Piece == [conv : Conv, turn : Turn, k : 1..Pieces]
StatusNote == [conv |-> NoConv, turn |-> 0, k |-> 0]     \* a status shown in an empty bubble

User(t) == [role |-> "user", turn |-> t, status |-> "sent", text |-> <<>>]
Answer(text, status) == [role |-> "assistant", turn |-> 0, status |-> status, text |-> text]

\* What filter leaves of a sequence: the elements at the positions I, in their order.
Nth(I, n) == CHOOSE i \in I : Cardinality({j \in I : j <= i}) = n

Filtered(s, I) == [n \in 1..Cardinality(I) |-> s[Nth(I, n)]]

(***************************************************************************)
(* The page's memory, changed by the functions of the composable.          *)
(***************************************************************************)
Listed(p, c) == \E i \in DOMAIN p.list : p.list[i] = c

RunningIn(bs) == {i \in DOMAIN bs : bs[i].status = "running"}

IsRunning(p, c) == RunningIn(p.bubbles[c]) # {}

\* findRunningAssistant
RunningAt(bs) == CHOOSE i \in RunningIn(bs) : \A j \in RunningIn(bs) : j <= i

LastUser(bs) == {i \in DOMAIN bs : bs[i].role = "user" /\ \A j \in DOMAIN bs : bs[j].role = "user" => j <= i}

InFlight(p, c) == p.active = c /\ p.sending

MarkRunning(p, c, s) ==
    IF IsRunning(p, c) THEN [p EXCEPT !.bubbles[c][RunningAt(p.bubbles[c])].status = s] ELSE p

Finish(p, c) == [p EXCEPT !.sending = @ /\ p.active # c]

Arm(p, c) == [p EXCEPT !.watchdog = c]

Disarm(p) == [p EXCEPT !.watchdog = NoConv]

\* any frame that belongs to a conversation counts as activity
Feed(p, c) == IF p.watchdog # NoConv \/ InFlight(p, c) THEN Arm(p, c) ELSE p

Target_ActiveFirst(p, c) == IF p.active # NoConv THEN p.active ELSE c

\* a frame of a session no conversation has goes to the active one
Target(p, c) == IF Listed(p, c) THEN c ELSE p.active

EndsAnswered(bs) == bs # <<>> /\ Last(bs).role = "assistant"

EnsureBubble_Fresh(p, c) ==
    IF EndsAnswered(p.bubbles[c]) /\ ~IsRunning(p, c) THEN p
    ELSE [p EXCEPT !.bubbles[c] = Append(@, Answer(<<>>, "running"))]

EnsureBubble(p, c) ==
    IF IsRunning(p, c) \/ EndsAnswered(p.bubbles[c]) THEN p
    ELSE [p EXCEPT !.bubbles[c] = Append(@, Answer(<<>>, "running"))]

AddText_ToLast(p, c, piece) ==
    IF EndsAnswered(p.bubbles[c])
    THEN [p EXCEPT !.bubbles[c][Len(p.bubbles[c])].text = Append(@, piece)]
    ELSE p

AddText(p, c, piece) ==
    IF IsRunning(p, c)
    THEN [p EXCEPT !.bubbles[c][RunningAt(p.bubbles[c])].text = Append(@, piece)]
    ELSE p

AddStatus(p, c) ==
    IF IsRunning(p, c) /\ p.bubbles[c][RunningAt(p.bubbles[c])].text = <<>>
    THEN AddText(p, c, StatusNote)
    ELSE p

\* the placeholder of a send that got no further is taken back
DropPlaceholder(bs) ==
    IF RunningIn(bs) # {} /\ bs[RunningAt(bs)].text = <<>> THEN RemoveAt(bs, RunningAt(bs)) ELSE bs

GiveUp_KeepsPlaceholder(p, R) == [Disarm(p) EXCEPT !.sending = FALSE]

\* sendMessage of the conversations R when its create was refused or not answered
GiveUp(p, R) ==
    [Disarm(p) EXCEPT !.sending = FALSE,
                      !.bubbles = [c \in Conv |-> IF c \in R THEN DropPlaceholder(@[c]) ELSE @[c]]]

\* settle of waitForCreateAck: the entry of the session goes, whoever set it
Unwait(p, chs) ==
    [p EXCEPT !.pending = [c \in Conv |-> IF \E ch \in chs : ch.conv = c THEN 0 ELSE @[c]],
              !.chains = Filtered(@, {i \in DOMAIN @ : @[i] \notin chs})]

AckChain(p, c) == [conv |-> c, turn |-> p.pending[c], phase |-> "ack"]

\* the creates that the conversations A await are settled as refused
Refuse(p, A) ==
    LET R == {c \in A : p.pending[c] # 0}
    IN  IF R = {} THEN p ELSE GiveUp(Unwait(p, {AckChain(p, c) : c \in R}), R)

(***************************************************************************)
(* Frames.                                                                 *)
(***************************************************************************)
CreateFrame(c) == [type |-> "create", conv |-> c]
MessageFrame(c, t) == [type |-> "message", conv |-> c, turn |-> t]
StopFrame(c) == [type |-> "stop", conv |-> c]
SubscribeFrame(c) == [type |-> "subscribe", conv |-> c]

Frame(type, c) == [type |-> type, conv |-> c]
DeltaFrame(c, t, k) == [type |-> "delta", conv |-> c, piece |-> [conv |-> c, turn |-> t, k |-> k]]
SnapshotFrame(c) ==
    [type |-> "snapshot", conv |-> c,
     running |-> host[c].phase # "idle", rows |-> host[c].journal]

(***************************************************************************)
(* Init: an empty page whose socket was never opened.                      *)
(***************************************************************************)
ChatInit ==
    /\ page = [list |-> <<>>, active |-> NoConv, sending |-> FALSE, watchdog |-> NoConv,
               bubbles |-> [c \in Conv |-> <<>>], recovered |-> [c \in Conv |-> FALSE],
               chains |-> <<>>, pending |-> [c \in Conv |-> 0]]
    /\ stored = [list |-> <<>>, active |-> NoConv, bubbles |-> [c \in Conv |-> <<>>]]
    /\ socket = [state |-> "none", attempts |-> 0, timers |-> 0, resub |-> {}]
    /\ toHost = <<>>
    /\ toPage = <<>>
    /\ host = [c \in Conv |-> [known |-> FALSE, phase |-> "idle", turn |-> 0, sent |-> 0,
                               cancelled |-> FALSE, reach |-> FALSE, journal |-> <<>>]]
    /\ spent = [turn |-> [c \in Conv |-> 0], sends |-> 0, stops |-> 0, reloads |-> 0, dropped |-> FALSE]

Save == stored' = [list |-> page'.list, active |-> page'.active, bubbles |-> page'.bubbles]

(***************************************************************************)
(* The user.                                                               *)
(***************************************************************************)
Opened == {c \in Conv : Listed(page, c) \/ page.bubbles[c] # <<>>}
Acts == spent.sends + spent.stops + spent.reloads
Troubled == spent.stops > 0 \/ spent.reloads > 0 \/ spent.dropped
MayTrouble == Apart => Cardinality(Opened) <= 1

\* the id is a fresh one: which of the unused ones makes no difference
NewConversation ==
    LET c == CHOOSE d \in Conv \ Opened : TRUE
    IN  /\ Opened # Conv
        /\ Apart /\ Opened # {} => ~Troubled
        /\ page' = [page EXCEPT !.list = <<c>> \o @, !.active = c]
        /\ Save
        /\ UNCHANGED <<socket, toHost, toPage, host, spent>>

SelectConversation(c) ==
    /\ Listed(page, c) /\ page.active # c
    /\ page' = [page EXCEPT !.active = c]
    /\ Save
    /\ UNCHANGED <<socket, toHost, toPage, host, spent>>

\* Only the list forgets the conversation: its run, its create and a watchdog on it go on.
\* (Deleting one in which nothing was sent is as if it had not been opened.)
DeleteConversation ==
    LET rest == Filtered(page.list, {i \in DOMAIN page.list : page.list[i] # page.active})
    IN  /\ page.active # NoConv
        /\ page.bubbles[page.active] # <<>>
        /\ page' = [page EXCEPT !.list = rest, !.active = IF rest = <<>> THEN NoConv ELSE Head(rest)]
        /\ Save
        /\ UNCHANGED <<socket, toHost, toPage, host, spent>>

\* ensureAISocket: an open socket is used at once, else the caller waits for one.
Connect(s) == IF s.state = "none" THEN [s EXCEPT !.state = "connecting"] ELSE s

SendMessage ==
    LET c == page.active
        t == spent.turn[c] + 1
        open == socket.state = "open"
        ch == [conv |-> c, turn |-> t, phase |-> IF open THEN "ack" ELSE "socket"]
    IN  /\ c # NoConv
        /\ t \in Turn /\ Acts < MaxActs
        /\ ~IsRunning(page, c)        \* a running conversation is steered instead
        /\ ~page.sending
        /\ page' = [page EXCEPT !.bubbles[c] = @ \o <<User(t), Answer(<<>>, "running")>>,
                                !.sending = TRUE,
                                !.chains = Append(@, ch),
                                !.pending[c] = IF open THEN t ELSE @]
        /\ Save
        /\ socket' = Connect(socket)
        /\ toHost' = IF open THEN Append(toHost, CreateFrame(c)) ELSE toHost
        /\ spent' = [spent EXCEPT !.turn[c] = t, !.sends = @ + 1]
        /\ UNCHANGED <<toPage, host>>

StopRun ==
    LET c == page.active
    IN  /\ c # NoConv /\ IsRunning(page, c)
        /\ socket.state = "open"
        /\ Acts < MaxActs /\ MayTrouble
        /\ toHost' = Append(toHost, StopFrame(c))
        /\ spent' = [spent EXCEPT !.stops = @ + 1]
        /\ UNCHANGED <<page, stored, socket, toPage, host>>

(***************************************************************************)
(* The timers.                                                             *)
(***************************************************************************)
WatchdogFires ==
    LET c == page.watchdog
        p == Disarm(page)
    IN  /\ c # NoConv
        /\ IF IsRunning(p, c)
           THEN page' = Finish(MarkRunning(p, c, "error"), c) /\ Save
           ELSE page' = p /\ UNCHANGED stored
        /\ UNCHANGED <<socket, toHost, toPage, host, spent>>

CreateTimesOut(ch) ==
    /\ ch.phase = "ack"
    /\ page' = GiveUp(Unwait(page, {ch}), {ch.conv})
    /\ Save
    /\ UNCHANGED <<socket, toHost, toPage, host, spent>>

(***************************************************************************)
(* The socket.                                                             *)
(***************************************************************************)
Affected(p) == {c \in Conv : Listed(p, c) /\ (IsRunning(p, c) \/ InFlight(p, c))}

\* What a reconnection subscribes to, and what entering the page does.
ToSubscribe(p, resub) ==
    Filtered(p.list, {i \in DOMAIN p.list :
        \/ "all" \in resub /\ p.bubbles[p.list[i]] # <<>>
        \/ "affected" \in resub /\ p.list[i] \in Affected(p)})

Creates(chs) == [i \in DOMAIN chs |-> CreateFrame(chs[i].conv)]

Subscribes(cs) == [i \in DOMAIN cs |-> SubscribeFrame(cs[i])]

InPhase(p, phase) == Filtered(p.chains, {i \in DOMAIN p.chains : p.chains[i].phase = phase})

Waiting == InPhase(page, "socket")

SocketOpens_Refills ==
    LET subs == ToSubscribe(page, socket.resub)
    IN  /\ socket.state = "connecting"
        /\ socket' = [socket EXCEPT !.state = "open", !.resub = {}, !.attempts = 0]
        /\ page' = [page EXCEPT !.chains = [i \in DOMAIN @ |-> [@[i] EXCEPT !.phase = "ack"]]]
        /\ toHost' = toHost \o Creates(Waiting) \o Subscribes(subs)
        /\ UNCHANGED <<stored, toPage, host, spent>>

\* every sender that waited for this socket sends its create; the last of a conversation is awaited
SocketOpens ==
    LET subs == ToSubscribe(page, socket.resub)
        opened(c) == {i \in DOMAIN Waiting : Waiting[i].conv = c}
    IN  /\ socket.state = "connecting"
        /\ socket' = [socket EXCEPT !.state = "open", !.resub = {}]
        /\ page' = [page EXCEPT
               !.chains = [i \in DOMAIN @ |-> [@[i] EXCEPT !.phase = "ack"]],
               !.pending = [c \in Conv |->
                   IF opened(c) = {} THEN @[c]
                   ELSE Waiting[CHOOSE i \in opened(c) : \A j \in opened(c) : j <= i].turn],
               !.recovered = [c \in Conv |-> @[c] \/ ("all" \in socket.resub /\ \E i \in DOMAIN subs : subs[i] = c)]]
        /\ toHost' = toHost \o Creates(Waiting) \o Subscribes(subs)
        /\ UNCHANGED <<stored, toPage, host, spent>>

Unreached == [c \in Conv |-> [host[c] EXCEPT !.reach = FALSE]]

\* markRunsInterrupted: only the active conversation's own send is shown as broken
Interrupt(p) ==
    LET q == IF p.sending /\ p.active # NoConv
             THEN Finish(MarkRunning(p, p.active, "error"), p.active) ELSE p
    IN  Refuse(q, Affected(p))

\* onclose; whoever awaited the opening of this socket waits for ever
SocketCloses ==
    LET p == [Disarm(page) EXCEPT !.chains = InPhase(page, "ack")]
        retry == Affected(p) # {} /\ socket.attempts < MaxReconnects
        give == Affected(p) # {} /\ ~retry
    IN  /\ MayDrop /\ MayTrouble
        /\ socket.state # "none"
        /\ socket' = [socket EXCEPT !.state = "none", !.resub = {},
                          !.attempts = IF retry THEN @ + 1 ELSE @,
                          !.timers = IF retry THEN @ + 1 ELSE @]
        /\ IF give THEN page' = Interrupt(p) /\ Save ELSE page' = p /\ UNCHANGED stored
        /\ toHost' = <<>>
        /\ toPage' = <<>>
        /\ host' = Unreached
        /\ spent' = [spent EXCEPT !.dropped = TRUE]

RetryTimer ==
    /\ socket.timers > 0
    /\ IF socket.state = "open"
       THEN /\ toHost' = toHost \o Subscribes(ToSubscribe(page, {"affected"}))
            /\ socket' = [socket EXCEPT !.timers = @ - 1]
       ELSE /\ socket' = [Connect(socket) EXCEPT !.timers = @ - 1, !.resub = @ \cup {"affected"}]
            /\ UNCHANGED toHost
    /\ UNCHANGED <<page, stored, toPage, host, spent>>

\* The browser reloads the page: what it remembers is what it stored, and no
\* promise or timer of the old page is left.
Reload ==
    LET p == [list |-> stored.list, active |-> stored.active, sending |-> FALSE,
              watchdog |-> NoConv, bubbles |-> stored.bubbles,
              recovered |-> [c \in Conv |-> FALSE],
              chains |-> <<>>, pending |-> [c \in Conv |-> 0]]
        targets == ToSubscribe(p, {"all"}) # <<>>
    IN  /\ Acts < MaxActs /\ MayTrouble
        /\ page' = p
        /\ socket' = [state |-> IF targets THEN "connecting" ELSE "none", attempts |-> 0,
                      timers |-> 0, resub |-> IF targets THEN {"all"} ELSE {}]
        /\ toHost' = <<>>
        /\ toPage' = <<>>
        /\ host' = Unreached
        /\ spent' = [spent EXCEPT !.reloads = @ + 1]
        /\ UNCHANGED stored

(***************************************************************************)
(* The frames the page receives.  Every frame but a snapshot refills the   *)
(* reconnection budget; every frame of a conversation feeds the watchdog.  *)
(***************************************************************************)
Receive(type) ==
    /\ toPage # <<>>
    /\ Head(toPage).type = type
    /\ toPage' = Tail(toPage)
    /\ socket' = IF type = "snapshot" THEN socket ELSE [socket EXCEPT !.attempts = 0]

To == Target(page, Head(toPage).conv)

Ignored == To = NoConv /\ UNCHANGED <<page, stored, toHost, host, spent>>

\* "created": the chain that waits for it goes on to the message
ReceiveCreated ==
    LET c == Head(toPage).conv
        t == page.pending[c]
        p == Feed(page, To)
        q == Arm([Unwait(p, {AckChain(p, c)}) EXCEPT !.recovered[c] = FALSE], c)
    IN  /\ Receive("created")
        /\ \/ Ignored
           \/ /\ To # NoConv
              /\ page' = IF t = 0 THEN p ELSE q
              /\ toHost' = IF t = 0 THEN toHost ELSE Append(toHost, MessageFrame(c, t))
              /\ IF To = c THEN Save ELSE UNCHANGED stored
              /\ UNCHANGED <<host, spent>>

ReceiveRefused_GoesOn ==
    LET c == Head(toPage).conv
    IN  /\ Receive("refused")
        /\ page' = Disarm(page)
        /\ toHost' = IF page.pending[c] = 0 THEN toHost
                     ELSE Append(toHost, MessageFrame(c, page.pending[c]))
        /\ UNCHANGED <<stored, host, spent>>

ReceiveRefused ==
    /\ Receive("refused")
    /\ \/ Ignored
       \/ /\ To # NoConv
          /\ page' = Refuse(Disarm(page), {Head(toPage).conv})
          /\ Save
          /\ UNCHANGED <<toHost, host, spent>>

ReceiveStarted ==
    /\ Receive("started")
    /\ \/ Ignored
       \/ /\ To # NoConv
          /\ page' = EnsureBubble(Feed(page, To), To)
          /\ UNCHANGED <<stored, toHost, host, spent>>

ReceiveDelta ==
    /\ Receive("delta")
    /\ \/ Ignored
       \/ /\ To # NoConv
          /\ page' = AddText(EnsureBubble(Feed(page, To), To), To, Head(toPage).piece)
          /\ UNCHANGED <<stored, toHost, host, spent>>

ReceiveStatus ==
    /\ Receive("status")
    /\ \/ Ignored
       \/ /\ To # NoConv
          /\ page' = AddStatus(Feed(page, To), To)
          /\ Save
          /\ UNCHANGED <<toHost, host, spent>>

ReceiveDone_NotFetched ==
    /\ Receive("done")
    /\ \/ Ignored
       \/ /\ To # NoConv
          /\ page' = Finish(MarkRunning(Disarm(page), To, "done"), To)
          /\ Save
          /\ UNCHANGED <<toHost, host, spent>>

\* no terminal frame is compared with the turn it ends
ReceiveDone ==
    /\ Receive("done")
    /\ \/ Ignored
       \/ /\ To # NoConv
          /\ page' = Finish(MarkRunning(Disarm(page), To, "done"), To)
          /\ Save
          /\ toHost' = IF page.recovered[To] THEN Append(toHost, SubscribeFrame(To)) ELSE toHost
          /\ UNCHANGED <<host, spent>>

ReceiveError ==
    /\ Receive("error")
    /\ \/ Ignored
       \/ /\ To # NoConv
          /\ page' = Finish(MarkRunning(Disarm(page), To, "error"), To)
          /\ Save
          /\ UNCHANGED <<toHost, host, spent>>

(***************************************************************************)
(* reconcileLocalSnapshot: the snapshot speaks of our turn when it has the *)
(* last message we sent; the text is that of the rows from there on.       *)
(***************************************************************************)
RowOf(rows, t) == {i \in DOMAIN rows : rows[i].turn = t}

RunText(rows, t) ==
    LET i == CHOOSE j \in RowOf(rows, t) : TRUE
    IN  FlattenSeq([j \in 1..(Len(rows) - i + 1) |-> rows[i + j - 1].text])

ArmFor(p, c) == IF p.active = c \/ p.watchdog = NoConv THEN Arm(p, c) ELSE p

SetText(p, c, i, text) == [p EXCEPT !.bubbles[c][i].text = text]

Extends(text, old) == IsStrictPrefix(old, text)

FillRunning(p, c, text) ==
    LET i == RunningAt(p.bubbles[c])
    IN  IF Extends(text, p.bubbles[c][i].text) THEN SetText(p, c, i, text) ELSE p

LastAnswer(bs) == CHOOSE i \in DOMAIN bs :
    bs[i].role = "assistant" /\ \A j \in DOMAIN bs : bs[j].role = "assistant" => j <= i

Reconcile(p, f) ==
    LET c == f.conv
        bs == p.bubbles[c]
        u == LastUser(bs)
        at == CHOOSE i \in u : TRUE
        ours == u # {} /\ RowOf(f.rows, bs[at].turn) # {}
        text == IF ours THEN RunText(f.rows, bs[at].turn) ELSE <<>>
        answered == u # {} /\ \E i \in DOMAIN bs : i > at /\ bs[i].role = "assistant"
        free == ~InFlight(p, c)
        ended(q) == Finish(IF q.active = c THEN Disarm(q) ELSE q, c)
        filled == FillRunning(p, c, text)
    IN  CASE IsRunning(p, c) /\ f.running -> IF free THEN ArmFor(filled, c) ELSE filled
          [] IsRunning(p, c) /\ ~f.running -> IF free THEN ended(MarkRunning(filled, c, "done")) ELSE p
          [] ~IsRunning(p, c) /\ free /\ ours /\ ~answered /\ f.running ->
                ArmFor([p EXCEPT !.bubbles[c] = Append(@, Answer(text, "running")), !.recovered[c] = TRUE], c)
          [] ~IsRunning(p, c) /\ free /\ ours /\ ~answered /\ ~f.running /\ text # <<>> ->
                Finish([p EXCEPT !.bubbles[c] = Append(@, Answer(text, "done"))], c)
          [] ~IsRunning(p, c) /\ free /\ ours /\ answered /\ p.recovered[c]
             /\ bs[LastAnswer(bs)].status = "done" /\ Len(text) > Len(bs[LastAnswer(bs)].text) ->
                Finish([SetText(p, c, LastAnswer(bs), text) EXCEPT !.recovered[c] = FALSE], c)
          [] OTHER -> p

\* finishRun stores the page; a bubble that goes on running is not stored
Finishes(p, f) == Reconcile(p, f) # p /\ ~IsRunning(Reconcile(p, f), f.conv)

ReceiveSnapshot ==
    LET f == Head(toPage)
    IN  /\ Receive("snapshot")
        /\ IF Listed(page, f.conv) THEN page' = Reconcile(page, f) ELSE UNCHANGED page
        /\ IF Listed(page, f.conv) /\ Finishes(page, f) THEN Save ELSE UNCHANGED stored
        /\ UNCHANGED <<toHost, host, spent>>

(***************************************************************************)
(* The host.  Frames of one socket are handled one at a time; a run works  *)
(* on its own and its frames reach this socket when it was sent or         *)
(* subscribed from here.                                                   *)
(***************************************************************************)
Handle(type) ==
    /\ socket.state = "open"
    /\ toHost # <<>>
    /\ Head(toHost).type = type
    /\ toHost' = Tail(toHost)
    /\ UNCHANGED <<page, stored, socket, spent>>

HostCreate ==
    LET c == Head(toHost).conv
    IN  /\ Handle("create")
        /\ \/ /\ host' = [host EXCEPT ![c].known = TRUE]
              /\ toPage' = Append(toPage, Frame("created", c))
           \/ /\ toPage' = Append(toPage, Frame("refused", c))
              /\ UNCHANGED host

HostMessage ==
    LET c == Head(toHost).conv
        t == Head(toHost).turn
    IN  /\ Handle("message")
        /\ \/ /\ host[c].phase # "idle"
              /\ toPage' = Append(toPage, Frame("error", c))
              /\ UNCHANGED host
           \/ /\ host[c].phase = "idle"
              /\ host' = [host EXCEPT ![c] = [@ EXCEPT !.known = TRUE, !.phase = "running", !.turn = t,
                             !.sent = 0, !.cancelled = FALSE, !.reach = TRUE,
                             !.journal = Append(host[c].journal, [turn |-> t, text |-> <<>>])]]
              /\ toPage' = Append(toPage, Frame("started", c))

\* a run that already emitted its terminal frame lets no other through
HostStop ==
    LET c == Head(toHost).conv
    IN  /\ Handle("stop")
        /\ host' = [host EXCEPT ![c].cancelled = (host[c].phase = "running")]
        /\ toPage' = IF host[c].phase = "ending" THEN toPage ELSE Append(toPage, Frame("status", c))

HostSubscribe ==
    LET c == Head(toHost).conv
    IN  /\ Handle("subscribe")
        /\ host' = [host EXCEPT ![c].reach = TRUE]
        /\ toPage' = Append(toPage, SnapshotFrame(c))

Emit_ToOriginTwice(c, f) ==
    toPage' = IF host[c].reach THEN toPage \o <<f, f>> ELSE toPage

Emit(c, f) == toPage' = IF host[c].reach THEN Append(toPage, f) ELSE toPage

HasMore(c) ==
    /\ host[c].sent < Pieces
    /\ Apart /\ spent.reloads = 0 => host[c].sent = 0

HostDelta(c) ==
    /\ host[c].phase = "running" /\ ~host[c].cancelled
    /\ HasMore(c)
    /\ host' = [host EXCEPT ![c].sent = @ + 1]
    /\ Emit(c, DeltaFrame(c, host[c].turn, host[c].sent + 1))
    /\ UNCHANGED <<page, stored, socket, toHost, spent>>

\* the row is written before the terminal frame is sent; a cancelled run ends with a status
HostEnd(c, how) ==
    /\ host[c].phase = "running"
    /\ host[c].cancelled <=> (how = "status")
    /\ how = "done" => ~HasMore(c)
    /\ host' = [host EXCEPT ![c].phase = "ending",
                  ![c].journal[Len(host[c].journal)].text =
                     [k \in 1..host[c].sent |-> [conv |-> c, turn |-> host[c].turn, k |-> k]]]
    /\ Emit(c, Frame(how, c))
    /\ UNCHANGED <<page, stored, socket, toHost, spent>>

\* clearRunning, deferred until the run has returned
HostClear(c) ==
    /\ host[c].phase = "ending"
    /\ host' = [host EXCEPT ![c].phase = "idle"]
    /\ UNCHANGED <<page, stored, socket, toHost, toPage, spent>>

UserStep ==
    \/ NewConversation
    \/ \E c \in Conv : SelectConversation(c)
    \/ DeleteConversation
    \/ SendMessage
    \/ StopRun
    \/ Reload

FrameStep ==
    \/ ReceiveCreated \/ ReceiveRefused \/ ReceiveStarted \/ ReceiveDelta
    \/ ReceiveStatus \/ ReceiveDone \/ ReceiveError \/ ReceiveSnapshot

TimerStep ==
    \/ WatchdogFires
    \/ \E i \in DOMAIN page.chains : CreateTimesOut(page.chains[i])
    \/ RetryTimer

HandleStep == HostCreate \/ HostMessage \/ HostStop \/ HostSubscribe

RunStep(c) == HostDelta(c) \/ (\E how \in {"done", "error", "status"} : HostEnd(c, how)) \/ HostClear(c)

SystemStep ==
    \/ FrameStep \/ TimerStep \/ HandleStep
    \/ SocketOpens
    \/ \E c \in Conv : RunStep(c)

ChatNext == UserStep \/ SocketCloses \/ SystemStep

(***************************************************************************)
(* The event loop delivers frames and timers, the host handles what it     *)
(* receives and its runs end: while one of these can happen one does.      *)
(* Which one is not said, and nothing obliges the user or the network.     *)
(***************************************************************************)
ChatFairness == WF_vars(SystemStep)

ChatSpec == ChatInit /\ [][ChatNext]_vars /\ ChatFairness

(***************************************************************************)
(* Properties.                                                             *)
(***************************************************************************)
\* bubbles whose text is made of X
Bubble(X) == [role : {"user", "assistant"}, turn : 0..MaxTurns,
              status : {"sent", "running", "done", "error"}, text : Seq(X)]

Memory ==
    [list : Seq(Conv), active : Conv \cup {NoConv}, sending : BOOLEAN,
     watchdog : Conv \cup {NoConv}, bubbles : [Conv -> Seq(Bubble(Piece \cup {StatusNote}))],
     recovered : [Conv -> BOOLEAN], pending : [Conv -> 0..MaxTurns],
     chains : Seq([conv : Conv, turn : Turn, phase : {"socket", "ack"}])]

HostFrame ==
    [type : {"create", "stop", "subscribe"}, conv : Conv]
    \cup [type : {"message"}, conv : Conv, turn : Turn]

Row == [turn : Turn, text : Seq(Piece)]

PageFrame ==
    [type : {"created", "refused", "started", "status", "done", "error"}, conv : Conv]
    \cup [type : {"delta"}, conv : Conv, piece : Piece]
    \cup [type : {"snapshot"}, conv : Conv, running : BOOLEAN, rows : Seq(Row)]

HostState ==
    [known : BOOLEAN, phase : {"idle", "running", "ending"}, turn : 0..MaxTurns,
     sent : 0..Pieces, cancelled : BOOLEAN, reach : BOOLEAN, journal : Seq(Row)]

(* The page, the socket and the host keep the shapes the code gives them;   *)
(* the conversation shown is a listed one, and at most two reconnections    *)
(* are counted.                                                             *)
ChatTypeOK ==
    /\ page \in Memory
    /\ page.active \in Conv => Listed(page, page.active)
    /\ stored \in [list : Seq(Conv), active : Conv \cup {NoConv},
                   bubbles : [Conv -> Seq(Bubble(Piece \cup {StatusNote}))]]
    /\ socket \in [state : {"none", "connecting", "open"}, attempts : 0..MaxReconnects,
                   timers : Nat, resub : SUBSET {"all", "affected"}]
    /\ toHost \in Seq(HostFrame)
    /\ toPage \in Seq(PageFrame)
    /\ host \in [Conv -> HostState]
    /\ spent \in [turn : [Conv -> 0..MaxTurns], sends : Nat, stops : Nat, reloads : Nat,
                  dropped : BOOLEAN]

(* A conversation never shows two running answers: the sends, the frames    *)
(* that create a lost bubble and the snapshots that restore one all see the *)
(* bubble another of them made.                                             *)
OneRunningBubble ==
    \A c \in Conv : Cardinality(RunningIn(page.bubbles[c])) <= 1

(* The stream of a conversation the page lists is never shown in another;   *)
(* only what belongs to a deleted one falls to the active conversation.     *)
OwnText ==
    \A c \in Conv : \A i \in DOMAIN page.bubbles[c] :
        \A j \in DOMAIN page.bubbles[c][i].text :
            LET x == page.bubbles[c][i].text[j]
            IN  x # StatusNote => x.conv = c \/ ~Listed(page, x.conv)

Places(c) == {x \in (1..Len(page.bubbles[c])) \X (1..Pieces * MaxTurns + 1) :
                x[2] \in DOMAIN page.bubbles[c][x[1]].text}

Before(x, y) == x.turn < y.turn \/ (x.turn = y.turn /\ x.k < y.k)

(* On a socket that never closed, the pieces of a conversation appear in    *)
(* the order they were produced and none of them twice, whichever bubble    *)
(* the watchdog, a stop or a deletion made them fall into.                  *)
TextInOrder ==
    ~spent.dropped /\ spent.reloads = 0 =>
        \A c \in Conv : \A x, y \in Places(c) :
            LET p == page.bubbles[c][x[1]].text[x[2]]
                q == page.bubbles[c][y[1]].text[y[2]]
            IN  (/\ x[1] < y[1] \/ (x[1] = y[1] /\ x[2] < y[2])
                 /\ p.conv = q.conv /\ p # StatusNote) => Before(p, q)

(* The host never meets a message of a session it has not acknowledged: the *)
(* gate before ai.message holds through time-outs, late acknowledgements    *)
(* and overlapping sends, so no run starts in the home directory.           *)
NoLazyCreate ==
    \A i \in DOMAIN toHost : toHost[i].type = "message" => host[toHost[i].conv].known

Ended(b) == b.role = "assistant" /\ b.status # "running"

(* An answer that ended stands: no late delta, second terminal frame,       *)
(* watchdog, reconnection or reload changes or removes it; only the text of *)
(* a restored one may be replaced by the longer text of the journal.        *)
EndedStands ==
    [][\A c \in Conv : \A i \in DOMAIN page.bubbles[c] :
          Ended(page.bubbles[c][i]) =>
             /\ i \in DOMAIN page'.bubbles[c]
             /\ LET b == page.bubbles[c][i]
                    n == page'.bubbles[c][i] IN
                \/ n = b
                \/ /\ n = [b EXCEPT !.text = n.text] /\ b.status = "done"
                   /\ page.recovered[c] /\ Len(n.text) > Len(b.text)]_vars

Quiet(c) ==
    /\ toHost = <<>> /\ toPage = <<>> /\ page.chains = <<>>
    /\ socket.state = "open" /\ socket.timers = 0
    /\ host[c].phase = "idle"

(* A run that was going on when the page was reloaded is shown whole once   *)
(* everything has settled, though the page missed the beginning.            *)
RestoredIsWhole ==
    spent.reloads > 0 /\ ~spent.dropped /\ spent.stops = 0 /\ spent.sends = 1 =>
        \A c \in Conv : LET bs == page.bubbles[c]
            IN  (/\ Quiet(c) /\ Listed(page, c) /\ host[c].journal # <<>>
                 /\ bs # <<>> /\ Last(bs).role = "assistant" /\ Last(bs).status = "done")
                => Last(bs).text = Last(host[c].journal).text

(* sendDisabled locks the input while a local run is on its way, and only   *)
(* then.  The code does not ensure it: a run that ends while another        *)
(* conversation is shown leaves the input locked.                           *)
InputFollowsRun ==
    page.sending => page.chains # <<>> \/ \E c \in Conv : IsRunning(page, c)

(* Once a dropped socket is healed and nothing is under way any more, no    *)
(* watchdog either, no answer is shown as running: the reconnection         *)
(* compared it with the journal.                                            *)
HealedIsSettled ==
    spent.stops = 0 /\ spent.reloads = 0 =>
        \A c \in Conv :
            Quiet(c) /\ page.watchdog = NoConv /\ Listed(page, c) => ~IsRunning(page, c)

(* While the socket holds, no run is stopped, no conversation deleted and   *)
(* the page not reloaded, every running answer ends, whichever conversation *)
(* the one watchdog happens to watch.                                       *)
Untroubled == ~Troubled /\ \A c \in Opened : Listed(page, c)

RunEnds ==
    \A c \in Conv : (Untroubled /\ IsRunning(page, c)) ~> (Untroubled => ~IsRunning(page, c))

(* Reconnections come to an end: a socket that opens and closes for ever    *)
(* does not refill the budget, only frames of a run do.                     *)
RetriesEnd == <>[](socket.timers = 0)
=============================================================================
