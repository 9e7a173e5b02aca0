---------------------------- MODULE Conversation ----------------------------
(***************************************************************************)
(* One mounted instance of useConversation (src/src/useConversation.ts):   *)
(* the effect that looks up the counterparty's DM, attachDm, the re-bind   *)
(* on return from the background, and the sends that create and attach a   *)
(* DM on the way.                                                          *)
(*                                                                         *)
(* A task is one asynchronous run: the body of the effect, a resume, or a  *)
(* text send; its pc names the await it is suspended in.  Tasks are        *)
(* numbered as they start.  React runs the cleanup of one effect run and   *)
(* the body of the next one without a task of JavaScript between them.     *)
(*                                                                         *)
(* Left out: reactions, context cards, attachments and retries (ThreadSend *)
(* has the last two), and the order of the list.                           *)
(***************************************************************************)
EXTENDS Integers, FiniteSets

CONSTANTS
    Peer,            \* addresses the hook may be given
    NoPeer,          \* null
    MaxRun,          \* bound on the runs of the effect
    MaxSend,         \* bound on the sends
    MaxTask,         \* bound on the tasks: runs that find a client, resumes and sends
    MaxNet           \* bound on the messages of the SDK's store

ASSUME NoPeerAssumption == NoPeer \notin Peer
ASSUME BoundsAssumption == MaxRun \in Nat /\ MaxTask \in Nat /\ MaxSend \in Nat /\ MaxNet \in Nat

Task == 1..MaxTask
Net == 1..MaxNet

\* Every send has a text of its own, named by its task; 0 is what the counterparty says.
D == INSTANCE DeliveryState WITH Text <- Task, File <- {}, FailedEchoWindow <- MaxNet
Theirs == 0

LocalId(t) == <<"local", t>>
NetId(n) == <<"net", n>>
Id == {LocalId(t) : t \in Task} \cup {NetId(n) : n \in Net}

VARIABLES
    \* the hook's props, state and refs
    mounted, counterparty, client, messages, isLoading, initError,
    dmRef, unsubRef, cancelledRef, wasBackground,
    \* what runs: the number of effect runs, the tasks, and what the stream that each opened
    \* has delivered
    runs, tasks, streams,
    \* the SDK: its messages, its DMs, and the receipts it sent; readState's watermarks
    sdk, dms, acks, lastRead

state == <<mounted, counterparty, client, isLoading, initError, wasBackground, runs>>
refs == <<dmRef, unsubRef, cancelledRef>>
network == <<sdk, dms, acks, lastRead>>
vars == <<state, refs, messages, tasks, streams, network>>

-----------------------------------------------------------------------------
(* Messages *)

Bubble == [id : Id, body : Task \cup {Theirs}, sentNs : 0..MaxNet, delivery : D!Delivery,
           uploaded : {FALSE}]
Message == [state : {"none", "stored", "published"}, peer : Peer \cup {NoPeer},
            kind : {"none", "mine", "theirs", "receipt"}, body : Task \cup {Theirs}]
NotStored == [state |-> "none", peer |-> NoPeer, kind |-> "none", body |-> Theirs]

NextNet(n) == \A m \in Net : sdk[m].state = "none" <=> n <= m
Stored(n, s, p, kind, body) ==
    sdk' = [sdk EXCEPT ![n] = [state |-> s, peer |-> p, kind |-> kind, body |-> body]]
Now == CHOOSE n \in 0..MaxNet : \A m \in Net : sdk[m].state # "none" <=> m <= n

\* Fault: the SDK's word for a stored message reaches the bubble.
ToChatMessageRaw(n, s) ==
    [id |-> NetId(n), body |-> sdk[n].body, sentNs |-> n, uploaded |-> FALSE,
     delivery |-> IF sdk[n].kind = "mine" /\ s = "stored" THEN s ELSE "none"]

\* toChatMessage: a stored message that is not published yet says so.
ToChatMessage(n, s) ==
    [id |-> NetId(n), body |-> sdk[n].body, sentNs |-> n, uploaded |-> FALSE,
     delivery |-> IF sdk[n].kind = "mine" /\ s = "stored" THEN "unpublished" ELSE "none"]

MarkReadUpTo(bubbles, upToNs) ==
    LET mine == {b \in bubbles : b.body # Theirs}
    IN  (bubbles \ mine) \cup D!MarkReadUpTo(mine, upToNs)

Latest(S) == IF S = {} THEN 0 ELSE CHOOSE n \in S : \A m \in S : m <= n

\* What loadHistory finds in the DM.
History(p) == {n \in Net : sdk[n].state # "none" /\ sdk[n].peer = p}

\* foldHistory, with the newest receipt of the counterparty applied.
Fresh(history) ==
    MarkReadUpTo({ToChatMessage(n, sdk[n].state) :
                     n \in {m \in history : sdk[m].kind # "receipt"}},
                 Latest({m \in history : sdk[m].kind = "receipt"}))

\* Fault: a message that was read before counts as news.
AdvancesAgain(p, n) == n >= lastRead[p]

Advances(p, n) == n > lastRead[p]

\* markRead, and the receipt that shouldSendReadReceipt allows.
Read(p, n) ==
    /\ lastRead' = [lastRead EXCEPT ![p] = IF Advances(p, n) THEN n ELSE @]
    /\ acks' = IF Advances(p, n) /\ sdk[n].kind = "theirs"
                 THEN [acks EXCEPT ![n] = IF @ < 2 THEN @ + 1 ELSE @]
                 ELSE acks

-----------------------------------------------------------------------------
(* Tasks *)

Await == {"lookup", "creating", "loading", "subscribing", "opened",
          "sending", "publishing"}
TaskState == [kind : {"none", "mount", "resume", "send"}, pc : Await \cup {"unused", "ended"},
              peer : Peer \cup {NoPeer}, composedFor : Peer \cup {NoPeer}, net : 0..MaxNet]
Unused == [kind |-> "none", pc |-> "unused", peer |-> NoPeer, composedFor |-> NoPeer, net |-> 0]

NextTask(t) == \A u \in Task : tasks[u].pc = "unused" <=> t <= u
Started(t, kind, pc, p, composedFor) ==
    tasks' = [tasks EXCEPT ![t] =
        [kind |-> kind, pc |-> pc, peer |-> p, composedFor |-> composedFor, net |-> 0]]
MoveTo(t, pc) == tasks' = [tasks EXCEPT ![t].pc = pc]

\* A stream is what it has delivered or was published before it opened; 0 marks it open.
Closed == {}
Open(t) == 0 \in streams[t]
CloseCurrent == IF unsubRef = 0 THEN streams ELSE [streams EXCEPT ![unsubRef] = Closed]

-----------------------------------------------------------------------------
(* The mount effect *)

\* The cleanup of the previous run (nothing on the first), then the body of the next one up
\* to its first await.
RunEffect(p, c) ==
    /\ runs < MaxRun
    /\ runs' = runs + 1
    /\ mounted' = TRUE /\ counterparty' = p /\ client' = c
    /\ streams' = CloseCurrent
    /\ unsubRef' = 0 /\ dmRef' = NoPeer /\ cancelledRef' = FALSE
    /\ messages' = {}
    /\ initError' = FALSE
    /\ isLoading' = (c # "none")
    /\ IF c = "ready"
         THEN \E t \in Task : NextTask(t) /\ Started(t, "mount", "lookup", p, NoPeer)
         ELSE UNCHANGED tasks
    /\ UNCHANGED <<wasBackground, network>>

Mount == ~mounted /\ ~cancelledRef /\ \E p \in Peer : RunEffect(p, client)
ChangePeer == mounted /\ \E p \in Peer \ {counterparty} : RunEffect(p, client)

\* A lifecycle notification, or retryInit, bumps clientTick.
ClientTick == mounted /\ \E c \in {"none", "initializing", "ready"} : RunEffect(counterparty, c)

\* React drops the state, and ignores what is set later; the refs stay.
Unmount ==
    /\ mounted
    /\ mounted' = FALSE /\ counterparty' = NoPeer
    /\ messages' = {} /\ isLoading' = FALSE /\ initError' = FALSE
    /\ wasBackground' = FALSE
    /\ cancelledRef' = TRUE /\ dmRef' = NoPeer /\ unsubRef' = 0
    /\ streams' = CloseCurrent
    /\ UNCHANGED <<client, runs, tasks, network>>

\* What a mount run that ends does to the spinner.
StopsLoading(t) == isLoading' = (isLoading /\ (tasks[t].kind # "mount" \/ cancelledRef))

\* canMessage and findDmByIdentity, which have the same check after them: nobody is
\* reachable or no DM exists, or attachDm starts with the thread found.
LookupReturns(t) ==
    /\ tasks[t].pc = "lookup"
    /\ \/ /\ ~cancelledRef /\ tasks[t].peer \in dms
          /\ dmRef' = tasks[t].peer
          /\ MoveTo(t, "loading")
          /\ UNCHANGED isLoading
       \/ /\ MoveTo(t, "ended") /\ StopsLoading(t)
          /\ UNCHANGED dmRef
    /\ UNCHANGED <<mounted, counterparty, client, initError, wasBackground, runs, unsubRef,
                   cancelledRef, messages, streams, network>>

-----------------------------------------------------------------------------
(* attachDm *)

\* What follows attachDm in each kind of task.
AfterAttach(t) == IF tasks[t].kind = "send" THEN "sending" ELSE "ended"

\* Fault: a resume keeps every unconfirmed send, listed by history or not.
ResumedBlindly(fresh) == fresh \cup {b \in messages : D!IsOptimistic(b)}

\* A resume keeps the sends that still wait for their echo.
Resumed(fresh) ==
    fresh \cup {b \in messages : D!IsOptimistic(b) /\ ~D!Listed(fresh, b.id)}

\* dm.sync and loadHistory; a message that comes between them and their continuation is
\* taken to be in the history.
HistoryReturns(t) ==
    /\ tasks[t].pc = "loading"
    /\ IF cancelledRef
         THEN /\ MoveTo(t, AfterAttach(t))
              /\ UNCHANGED <<messages, lastRead, acks>>
         ELSE LET history == History(tasks[t].peer)
              IN  /\ messages' = IF tasks[t].kind = "resume" THEN Resumed(Fresh(history))
                                                            ELSE Fresh(history)
                  /\ IF history # {} THEN Read(tasks[t].peer, Latest(history))
                                     ELSE UNCHANGED <<lastRead, acks>>
                  /\ MoveTo(t, "subscribing")
    /\ UNCHANGED <<state, refs, streams, sdk, dms>>

\* streamMessages takes effect: what is published from now on will be delivered.
StreamOpens(t) ==
    /\ tasks[t].pc = "subscribing"
    /\ MoveTo(t, "opened")
    /\ streams' = [streams EXCEPT ![t] = {0} \cup {n \in Net : sdk[n].state = "published"}]
    /\ UNCHANGED <<state, refs, messages, network>>

StreamReturns(t) ==
    /\ tasks[t].pc = "opened"
    /\ IF cancelledRef
         THEN streams' = [streams EXCEPT ![t] = Closed] /\ UNCHANGED unsubRef
         ELSE unsubRef' = t /\ UNCHANGED streams
    /\ MoveTo(t, AfterAttach(t))
    /\ StopsLoading(t)
    /\ UNCHANGED <<mounted, counterparty, client, initError, wasBackground, runs, dmRef,
                   cancelledRef, messages, network>>

\* Fault: a mount run that dies shows nothing.
MountDiesSilently(t) ==
    /\ tasks[t].kind = "mount"
    /\ UNCHANGED <<initError, isLoading, messages>>

\* The catch of each kind of task: the init error, a warning, the failed bubble.
MountDies(t) ==
    /\ tasks[t].kind = "mount"
    /\ initError' = (initError \/ ~cancelledRef)
    /\ isLoading' = (isLoading /\ cancelledRef)
    /\ UNCHANGED messages
ResumeDies(t) == tasks[t].kind = "resume" /\ UNCHANGED <<initError, isLoading, messages>>
SendDies(t) ==
    /\ tasks[t].kind = "send"
    /\ messages' = D!SetDelivery(messages, LocalId(t), "failed", D!NoId)
    /\ UNCHANGED <<initError, isLoading>>

\* Any of the SDK's calls rejects before a message is stored.
Rejects(t) ==
    /\ tasks[t].pc \in Await \ {"opened", "publishing"}
    /\ MoveTo(t, "ended")
    /\ MountDies(t) \/ ResumeDies(t) \/ SendDies(t)
    /\ UNCHANGED <<mounted, counterparty, client, wasBackground, runs, refs, streams, network>>

-----------------------------------------------------------------------------
(* The background *)

\* The app goes to the background; Android drops the streams.
Background ==
    /\ mounted /\ ~wasBackground
    /\ wasBackground' = TRUE
    /\ streams' \in {streams, [t \in Task |-> Closed]}
    /\ UNCHANGED <<mounted, counterparty, client, isLoading, initError, runs, refs, messages,
                   tasks, network>>

Foreground ==
    /\ mounted /\ wasBackground
    /\ wasBackground' = FALSE
    /\ IF dmRef = NoPeer
         THEN UNCHANGED <<streams, unsubRef, tasks>>
         ELSE /\ streams' = CloseCurrent
              /\ unsubRef' = 0
              /\ \E t \in Task : NextTask(t) /\ Started(t, "resume", "loading", dmRef, NoPeer)
    /\ UNCHANGED <<mounted, counterparty, client, isLoading, initError, runs, dmRef,
                   cancelledRef, messages, network>>

-----------------------------------------------------------------------------
(* Sends *)

\* send up to the first await of prepareSend.
Send(t) ==
    /\ mounted
    /\ NextTask(t)
    /\ Cardinality({u \in Task : tasks[u].kind = "send"}) < MaxSend
    /\ LET local(delivery) == [id |-> LocalId(t), body |-> t, sentNs |-> Now,
                               delivery |-> delivery, uploaded |-> FALSE]
       IN  \/ /\ dmRef # NoPeer
              /\ Started(t, "send", "sending", dmRef, counterparty)
              /\ messages' = messages \cup {local("pending")}
           \/ /\ dmRef = NoPeer /\ client = "ready"
              /\ Started(t, "send", "creating", counterparty, counterparty)
              /\ messages' = messages \cup {local("pending")}
           \/ /\ dmRef = NoPeer /\ client # "ready"
              /\ Started(t, "send", "ended", counterparty, counterparty)
              /\ messages' = messages \cup {local("failed")}
    /\ UNCHANGED <<state, refs, streams, network>>

\* findOrCreateDmWithIdentity: attachDm starts with the thread.
CreateReturns(t) ==
    /\ tasks[t].pc = "creating"
    /\ dms' = dms \cup {tasks[t].peer}
    /\ dmRef' = tasks[t].peer
    /\ MoveTo(t, "loading")
    /\ UNCHANGED <<state, unsubRef, cancelledRef, messages, streams, sdk, acks, lastRead>>

SdkStores(t, n) ==
    /\ tasks[t].pc = "sending"
    /\ NextNet(n)
    /\ Stored(n, "stored", tasks[t].peer, "mine", t)
    /\ tasks' = [tasks EXCEPT ![t].pc = "publishing", ![t].net = n]
    /\ UNCHANGED <<state, refs, messages, streams, dms, acks, lastRead>>

Published(n) == sdk' = [sdk EXCEPT ![n].state = "published"]

\* sendTracked settles: published, timed out or not published, or rejected with the id.
PublishSettles(t) ==
    /\ tasks[t].pc = "publishing"
    /\ LET n == tasks[t].net
       IN  \/ /\ Published(n)
              /\ messages' = D!ReconcileSent(messages, LocalId(t), NetId(n), "sent")
           \/ /\ UNCHANGED sdk
              /\ messages' = D!ReconcileSent(messages, LocalId(t), NetId(n), "unpublished")
           \/ /\ UNCHANGED sdk
              /\ messages' = D!SetDelivery(messages, LocalId(t), "failed", NetId(n))
    /\ MoveTo(t, "ended")
    /\ UNCHANGED <<state, refs, streams, dms, acks, lastRead>>

-----------------------------------------------------------------------------
(* The network *)

SdkPublishes(n) ==
    /\ sdk[n].state = "stored"
    /\ Published(n)
    /\ UNCHANGED <<state, refs, messages, tasks, streams, dms, acks, lastRead>>

\* The counterparty says something, or reads what it got; either may create the DM.  What
\* is said in a thread before anyone looks at it might as well be said when someone does.
PeerSends(n, p) ==
    /\ NextNet(n)
    /\ p = counterparty \/ \E t \in Task : tasks[t].peer = p
    /\ \E kind \in {"theirs", "receipt"} : Stored(n, "published", p, kind, Theirs)
    /\ dms' = dms \cup {p}
    /\ UNCHANGED <<state, refs, messages, tasks, streams, acks, lastRead>>

\* Fault: the handler of a stream that outlived its thread goes on.
HandlesAlways(n, p) ==
    /\ Read(p, n)
    /\ messages' = IF sdk[n].kind = "receipt" THEN MarkReadUpTo(messages, n)
                   ELSE D!MergeStreamed(messages, ToChatMessage(n, "published"))

\* The stream handler.
Handles(n, p) ==
    \/ /\ cancelledRef
       /\ UNCHANGED <<messages, lastRead, acks>>
    \/ /\ ~cancelledRef /\ sdk[n].kind = "receipt"
       /\ messages' = MarkReadUpTo(messages, n)
       /\ UNCHANGED <<lastRead, acks>>
    \/ /\ ~cancelledRef /\ sdk[n].kind # "receipt"
       /\ Read(p, n)
       /\ messages' = D!MergeStreamed(messages, ToChatMessage(n, "published"))

StreamDelivers(t, n) ==
    /\ Open(t)
    /\ sdk[n].state = "published" /\ sdk[n].peer = tasks[t].peer /\ n \notin streams[t]
    /\ streams' = [streams EXCEPT ![t] = @ \cup {n}]
    /\ Handles(n, tasks[t].peer)
    /\ UNCHANGED <<state, refs, tasks, sdk, dms>>

-----------------------------------------------------------------------------
(* Specification *)

Init ==
    /\ mounted = FALSE /\ counterparty = NoPeer
    /\ client \in {"none", "initializing", "ready"}
    /\ messages = {} /\ isLoading = TRUE /\ initError = FALSE
    /\ dmRef = NoPeer /\ unsubRef = 0 /\ cancelledRef = FALSE /\ wasBackground = FALSE
    /\ runs = 0
    /\ tasks = [t \in Task |-> Unused]
    /\ streams = [t \in Task |-> Closed]
    /\ sdk = [n \in Net |-> NotStored]
    /\ dms = {}
    /\ acks = [n \in Net |-> 0]
    /\ lastRead = [p \in Peer |-> 0]

Host == Mount \/ ChangePeer \/ ClientTick \/ Unmount \/ Background \/ Foreground

Continues(t) ==
    \/ LookupReturns(t)
    \/ HistoryReturns(t) \/ StreamOpens(t) \/ StreamReturns(t)
    \/ Rejects(t)
    \/ CreateReturns(t) \/ PublishSettles(t)
    \/ \E n \in Net : SdkStores(t, n)

Next ==
    \/ Host
    \/ \E t \in Task : Send(t)
    \/ \E t \in Task : Continues(t)
    \/ \E n \in Net : SdkPublishes(n)
    \/ \E n \in Net, p \in Peer : PeerSends(n, p)
    \/ \E t \in Task, n \in Net : StreamDelivers(t, n)

Spec == Init /\ [][Next]_vars

-----------------------------------------------------------------------------
(* Properties *)

TypeOK ==
    /\ mounted \in BOOLEAN /\ isLoading \in BOOLEAN /\ initError \in BOOLEAN
    /\ cancelledRef \in BOOLEAN /\ wasBackground \in BOOLEAN
    /\ client \in {"none", "initializing", "ready"}
    /\ counterparty \in Peer \cup {NoPeer} /\ dmRef \in Peer \cup {NoPeer}
    /\ unsubRef \in 0..MaxTask /\ runs \in 0..MaxRun
    /\ messages \subseteq Bubble
    /\ tasks \in [Task -> TaskState]
    /\ streams \in [Task -> SUBSET (0..MaxNet)]
    /\ sdk \in [Net -> Message]
    /\ dms \subseteq Peer
    /\ acks \in [Net -> 0..2]
    /\ lastRead \in [Peer -> 0..MaxNet]

\* No id is listed twice, although history, a resume, several streams, acks and failures
\* all write the list.
UniqueIds == \A b, c \in messages : b.id = c.id => b = c

\* A send whose task is over shows at most once, although a resume can list the stored
\* message beside the bubble that still waits for its ack.
SettledOnce ==
    \A b, c \in messages : b.body = c.body /\ b.body # Theirs /\ tasks[b.body].pc = "ended"
        => b = c

\* README: each message is acknowledged by at most one read receipt, in whatever number of
\* streams, histories and resumes it turns up.
AckedOnce == \A n \in Net : acks[n] <= 1

\* useConversation: the spinner is shown only while something will end it: the client is
\* coming up, and its notification re-runs the effect, or the newest run is on its way.
LoadingEnds ==
    mounted /\ isLoading /\ client # "initializing" =>
        \E t \in Task :
            /\ tasks[t].kind = "mount" /\ tasks[t].pc # "ended"
            /\ \A u \in Task : tasks[u].kind = "mount" => u <= t

\* Something of the thread with p is under way: a task on its way to attach it, or a stream.
Attaching(t) == tasks[t].pc \in {"lookup", "creating", "loading", "subscribing", "opened"}
AtWork(t, p) == tasks[t].peer = p /\ (Attaching(t) \/ Open(t))

\* Nothing is, save the stream that the next cleanup closes.
AtRest(p) == \A t \in Task : AtWork(t, p) => ~Attaching(t) /\ t = unsubRef

\* The hook does not show the thread with p, and was unmounted or has nothing to do with it.
Left(p) ==
    /\ counterparty # p
    /\ cancelledRef \/ (dmRef # p /\ \A t \in Task : ~AtWork(t, p))

\* useConversation.ts:495: only what arrives while the chat is open is read.  No watermark
\* moves once the hook is unmounted, whatever runs and streams it leaves behind; and that of
\* a thread that gave way to another counterparty's stays until the user returns, if at the
\* change nothing of it was suspended and none of its streams had leaked.  Without that
\* proviso the code does mark it: the un-cancelled run of SendsToPeer attaches the old thread.
LeftStaysUnread ==
    [][\A p \in Peer :
         /\ ~mounted' \/ (counterparty = p /\ counterparty' # p /\ AtRest(p)) => Left(p)'
         /\ Left(p) /\ counterparty' # p => Left(p)' /\ lastRead'[p] = lastRead[p]]_vars

\* The hook is for a single counterparty: a message composed for one is never stored in the
\* thread of another.
SendsToPeer ==
    \A n \in Net : sdk[n].kind = "mine" => sdk[n].peer = tasks[sdk[n].body].composedFor

\* useConversation: the pending bubble of a send reconciles on the ack or flips to failed.
\* The attach on the way of a first send leaves that send's bubble in the list.
FirstSendKeepsBubble ==
    [][\A t \in Task :
         /\ tasks[t].kind = "send"
         /\ tasks[t].pc = "loading" /\ tasks'[t].pc = "subscribing"
         /\ \E b \in messages : b.body = t
         => \E b \in messages' : b.body = t]_vars
=============================================================================
