-------------------------- MODULE Conversation_proofs --------------------------
(* Proofs about Conversation for every set of counterparties and any number *)
(* of effect runs, resumes, sends and messages.                             *)
EXTENDS Conversation, WellFoundedInduction, TLAPS

-----------------------------------------------------------------------------
(* The inductive invariant, over the tasks T, the SDK's store S, the list L *)
(* of the thread, and the receipts A sent under the watermarks R.           *)

TasksOK(T) ==
    /\ T \in [Task -> TaskState]
    /\ \A t \in Task :
           /\ T[t].kind = "none" <=> T[t].pc = "unused"
           /\ T[t].pc # "unused" => T[t].peer \in Peer
           /\ T[t].net # 0 => T[t].pc \in {"publishing", "ended"}
           /\ T[t].pc \in {"creating", "sending", "publishing"} => T[t].kind = "send"

\* The store fills in order; a send stores one message, which names it.
StoreOK(S, T) ==
    /\ S \in [Net -> Message]
    /\ \E n \in 0..MaxNet : \A m \in Net : S[m].state # "none" <=> m <= n
    /\ \A n \in Net :
           /\ S[n].state # "none" => S[n].peer \in Peer
           /\ S[n].body # Theirs => S[n].body \in Task /\ T[S[n].body].net = n
    /\ \A t \in Task :
           /\ T[t].pc = "publishing" => T[t].net # 0
           /\ T[t].net # 0 => S[T[t].net].state # "none" /\ S[T[t].net].body = t

\* A bubble is one that a send put there, and which is not settled with a stored message,
\* or it shows a stored message.
OfSend(b, T) ==
    \E t \in Task : /\ b.id = LocalId(t) /\ b.body = t
                    /\ T[t].kind = "send" /\ (T[t].pc = "ended" => T[t].net = 0)
OfStore(b, S) ==
    \E n \in Net : b.id = NetId(n) /\ b.body = S[n].body /\ S[n].state # "none"

Unique(L) == \A b, c \in L : b.id = c.id => b = c

ListOK(L, S, T) ==
    /\ L \subseteq Bubble
    /\ Unique(L)
    /\ \A b \in L : OfSend(b, T) \/ OfStore(b, S)

\* The watermark of its thread is past every message that was acknowledged.
AcksOK(A, R, S) ==
    /\ A \in [Net -> 0..2] /\ R \in [Peer -> 0..MaxNet]
    /\ \A n \in Net : A[n] # 0 =>
           A[n] = 1 /\ S[n].state # "none" /\ S[n].peer \in Peer /\ n <= R[S[n].peer]

HookOK ==
    /\ mounted \in BOOLEAN /\ isLoading \in BOOLEAN /\ initError \in BOOLEAN
    /\ cancelledRef \in BOOLEAN /\ wasBackground \in BOOLEAN
    /\ client \in {"none", "initializing", "ready"}
    /\ counterparty \in Peer \cup {NoPeer} /\ dmRef \in Peer \cup {NoPeer}
    /\ unsubRef \in 0..MaxTask /\ runs \in 0..MaxRun
    /\ streams \in [Task -> SUBSET (0..MaxNet)]
    /\ dms \subseteq Peer
    /\ mounted => ~cancelledRef /\ counterparty \in Peer

ConvInv ==
    /\ HookOK
    /\ TasksOK(tasks)
    /\ StoreOK(sdk, tasks)
    /\ ListOK(messages, sdk, tasks)
    /\ AcksOK(acks, lastRead, sdk)
    /\ LoadingEnds

-----------------------------------------------------------------------------
(* Ids and the newest message *)

LEMMA Bounds == /\ MaxRun \in Nat /\ MaxTask \in Nat /\ MaxSend \in Nat /\ MaxNet \in Nat
                /\ \A t \in Task : t \in Nat /\ t # 0
                /\ \A n \in Net : n \in Nat /\ n # 0 /\ n \in 0..MaxNet
  BY BoundsAssumption DEF BoundsAssumption, Task, Net

LEMMA Ids ==
  /\ \A t, u : LocalId(t) = LocalId(u) => t = u
  /\ \A n, m : NetId(n) = NetId(m) => n = m
  /\ \A t, n : LocalId(t) # NetId(n)
  /\ \A t : LocalId(t) # D!NoId
  /\ \A n : NetId(n) # D!NoId
  /\ \A t \in Task : LocalId(t) \in Id
  /\ \A n \in Net : NetId(n) \in Id
  BY DEF LocalId, NetId, D!NoId, Id

\* Among some messages of the store, one is the newest.
LEMMA LatestIsOne ==
  ASSUME NEW S \in SUBSET Net, S # {}
  PROVE  Latest(S) \in S
<1> DEFINE R == OpToRel(<, Nat)
           T == {MaxNet - m : m \in S}
<1>1. /\ MaxNet \in Nat /\ \A m \in S : m \in Nat /\ m <= MaxNet
  BY Bounds DEF Net
<1>2. T \subseteq Nat /\ T # {}
  BY <1>1
<1>3. PICK x \in T : \A y \in T : ~ (<<y, x>> \in R)
  <2>1. IsWellFoundedOn(R, Nat)
    BY NatLessThanWellFounded
  <2> HIDE DEF R, T
  <2>2. QED
    BY <1>2, <2>1, WFMin
<1>4. \A y \in T : ~(y < x)
  BY <1>2, <1>3 DEF OpToRel
<1>5. PICK n \in S : x = MaxNet - n
  BY <1>3
<1>6. \A m \in S : m <= n
  <2>1. TAKE m \in S
  <2>2. ~(MaxNet - m < MaxNet - n)
    BY <1>4, <1>5
  <2>3. QED
    BY <1>1, <2>2
<1>7. QED
  BY <1>6 DEF Latest

-----------------------------------------------------------------------------
(* The list *)

\* What a step does to the tasks and the store leaves every bubble with what it stands for.
LEMMA ListStays ==
  ASSUME NEW L, NEW S, NEW T, NEW SS, NEW TT, ListOK(L, S, T),
         \A t \in Task : T[t].kind = "send" =>
             TT[t].kind = "send" /\ (TT[t].pc = "ended" => TT[t].net = 0 \/ T[t].pc = "ended")
                                 /\ (T[t].net = 0 /\ T[t].pc = "ended" => TT[t].net = 0),
         \A n \in Net : S[n].state # "none" => SS[n].state # "none" /\ SS[n].body = S[n].body
  PROVE  ListOK(L, SS, TT)
<1>1. ASSUME NEW b \in L, OfSend(b, T) PROVE OfSend(b, TT)
  BY <1>1 DEF OfSend
<1>2. ASSUME NEW b \in L, OfStore(b, S) PROVE OfStore(b, SS)
  BY <1>2 DEF OfStore
<1>3. QED
  BY <1>1, <1>2 DEF ListOK

LEMMA ListFewer ==
  ASSUME NEW L, NEW S, NEW T, ListOK(L, S, T), NEW M \in SUBSET L
  PROVE  ListOK(M, S, T)
  BY DEF ListOK, Unique

LEMMA ListMore ==
  ASSUME NEW L, NEW S, NEW T, ListOK(L, S, T), NEW M, ListOK(M, S, T),
         \A b \in L, c \in M : b.id # c.id
  PROVE  ListOK(L \cup M, S, T)
<1>1. Unique(L \cup M)
  BY DEF ListOK, Unique
<1>2. QED
  BY <1>1 DEF ListOK

MarkOne(b, upToNs) ==
    IF b.body # Theirs /\ b.delivery \in {"none", "sent"} /\ b.sentNs <= upToNs
      THEN [b EXCEPT !.delivery = "read"] ELSE b

\* A read receipt changes the delivery of bubbles, never which ones there are.
LEMMA ListRead ==
  ASSUME NEW L, NEW S, NEW T, ListOK(L, S, T), NEW upToNs
  PROVE  ListOK(MarkReadUpTo(L, upToNs), S, T)
<1>1. MarkReadUpTo(L, upToNs) = {MarkOne(b, upToNs) : b \in L}
  BY DEF MarkReadUpTo, D!MarkReadUpTo, MarkOne
<1>2. \A b \in L : /\ MarkOne(b, upToNs) \in Bubble /\ MarkOne(b, upToNs).id = b.id
                   /\ MarkOne(b, upToNs).body = b.body
  BY DEF MarkOne, ListOK, Bubble, D!Delivery
<1>3. Unique({MarkOne(b, upToNs) : b \in L})
  BY <1>2 DEF ListOK, Unique
<1>4. \A b \in L : OfSend(MarkOne(b, upToNs), T) \/ OfStore(MarkOne(b, upToNs), S)
  BY <1>2 DEF ListOK, OfSend, OfStore
<1>5. QED
  BY <1>1, <1>2, <1>3, <1>4 DEF ListOK

\* What the SDK has of a message, as a bubble.
LEMMA StoredBubble ==
  ASSUME NEW T, StoreOK(sdk, T), NEW n \in Net, NEW s
  PROVE  /\ ToChatMessage(n, s) \in Bubble
         /\ ToChatMessage(n, s).id = NetId(n)
         /\ ToChatMessage(n, s).body = sdk[n].body
<1>1. sdk[n].body \in Task \cup {Theirs} /\ n \in 0..MaxNet
  BY Bounds DEF StoreOK, Message
<1>2. QED
  BY <1>1, Ids DEF ToChatMessage, Bubble, D!Delivery

\* The bubbles of a history are of its messages.
LEMMA ListFresh ==
  ASSUME NEW T, StoreOK(sdk, T), NEW history \in SUBSET Net,
         \A n \in history : sdk[n].state # "none"
  PROVE  ListOK(Fresh(history), sdk, T)
<1> DEFINE shown == {m \in history : sdk[m].kind # "receipt"}
           L == {ToChatMessage(n, sdk[n].state) : n \in shown}
           upToNs == Latest({m \in history : sdk[m].kind = "receipt"})
<1>1. \A n \in shown : /\ ToChatMessage(n, sdk[n].state) \in Bubble
                       /\ ToChatMessage(n, sdk[n].state).id = NetId(n)
                       /\ ToChatMessage(n, sdk[n].state).body = sdk[n].body
  BY StoredBubble
<1>2. Unique(L)
  BY <1>1, Ids DEF Unique
<1>3. \A b \in L : OfStore(b, sdk)
  BY <1>1 DEF OfStore
<1>4. ListOK(L, sdk, T)
  BY <1>1, <1>2, <1>3 DEF ListOK
<1>5. ListOK(MarkReadUpTo(L, upToNs), sdk, T)
  BY <1>4, ListRead
<1>6. QED
  BY <1>5 DEF Fresh

\* A resume keeps the waiting sends that the history does not list.
LEMMA ListResumed ==
  ASSUME NEW L, NEW S, NEW T, ListOK(L, S, T), ListOK(messages, S, T)
  PROVE  ListOK(Resumed(L), S, T)
<1> DEFINE kept == {b \in messages : D!IsOptimistic(b) /\ ~D!Listed(L, b.id)}
<1>1. ListOK(kept, S, T)
  BY ListFewer
<1>2. \A b \in L, c \in kept : b.id # c.id
  BY DEF D!Listed
<1> HIDE DEF kept
<1>3. ListOK(L \cup kept, S, T)
  BY <1>1, <1>2, ListMore
<1>4. QED
  BY <1>3 DEF Resumed, kept

\* A message of the stream replaces what stands in for it.
LEMMA ListMerged ==
  ASSUME NEW T, StoreOK(sdk, T), ListOK(messages, sdk, T), NEW n \in Net,
         sdk[n].state # "none", NEW s
  PROVE  ListOK(D!MergeStreamed(messages, ToChatMessage(n, s)), sdk, T)
<1> DEFINE next == ToChatMessage(n, s)
           rest == messages \ D!StandsInFor(messages, next)
<1>1. next \in Bubble /\ next.id = NetId(n) /\ next.body = sdk[n].body
  BY StoredBubble
<1>2. CASE \E b \in messages : b.id = next.id /\ D!Confirmed(b)
  BY <1>2 DEF D!MergeStreamed
<1>3. CASE ~\E b \in messages : b.id = next.id /\ D!Confirmed(b)
  <2>1. D!MergeStreamed(messages, next) = rest \cup {next}
    BY <1>3 DEF D!MergeStreamed
  <2>2. ListOK(rest, sdk, T)
    BY ListFewer
  <2>3. \A b \in rest : b.id # next.id
    BY DEF D!StandsInFor, D!Listed
  <2> HIDE DEF next, rest
  <2>4. ListOK({next}, sdk, T)
    BY <1>1 DEF ListOK, Unique, OfStore
  <2>5. ListOK(rest \cup {next}, sdk, T)
    BY <2>2, <2>3, <2>4, ListMore
  <2>6. QED
    BY <2>1, <2>5 DEF next
<1>4. QED
  BY <1>2, <1>3

\* A bubble flips to failed where it is.
LEMMA ListFails ==
  ASSUME NEW L, NEW S, NEW T, ListOK(L, S, T), NEW id
  PROVE  ListOK(D!SetDelivery(L, id, "failed", D!NoId), S, T)
<1> DEFINE F(b) == IF b.id = id THEN [b EXCEPT !.id = id, !.delivery = "failed"] ELSE b
<1>1. D!SetDelivery(L, id, "failed", D!NoId) = {F(b) : b \in L}
  BY DEF D!SetDelivery, D!Marked
<1>2. \A b \in L : F(b) \in Bubble /\ F(b).id = b.id /\ F(b).body = b.body
  BY DEF ListOK, Bubble, D!Delivery
<1> HIDE DEF F
<1>3. Unique({F(b) : b \in L})
  BY <1>2 DEF ListOK, Unique
<1>4. \A b \in L : OfSend(F(b), T) \/ OfStore(F(b), S)
  BY <1>2 DEF ListOK, OfSend, OfStore
<1>5. QED
  BY <1>1, <1>2, <1>3, <1>4 DEF ListOK

\* The bubble of a send takes the id of its stored message, or leaves the list to it.
Settled(L, M, t, n) ==
    \/ M = {b \in L : b.id # LocalId(t)}
    \/ /\ \A b \in L : b.id # NetId(n)
       /\ \E d \in D!Delivery :
              M = {IF b.id = LocalId(t) THEN [b EXCEPT !.id = NetId(n), !.delivery = d] ELSE b
                      : b \in L}

LEMMA SettlesList ==
  ASSUME NEW L, NEW t \in Task, NEW n \in Net, NEW M,
         \/ M = D!ReconcileSent(L, LocalId(t), NetId(n), "sent")
         \/ M = D!ReconcileSent(L, LocalId(t), NetId(n), "unpublished")
         \/ M = D!SetDelivery(L, LocalId(t), "failed", NetId(n))
  PROVE  Settled(L, M, t, n)
<1>1. LocalId(t) # NetId(n) /\ NetId(n) # D!NoId
  BY Ids
<1>2. {"sent", "unpublished", "failed"} \subseteq D!Delivery
  BY DEF D!Delivery
<1>3. ASSUME NEW d \in D!Delivery, M = D!ReconcileSent(L, LocalId(t), NetId(n), d)
      PROVE  Settled(L, M, t, n)
  <2>1. CASE \E b \in L : b.id = NetId(n)
    BY <1>3, <2>1 DEF Settled, D!ReconcileSent, D!DiscardMessage, D!Listed
  <2>2. CASE \A b \in L : b.id # NetId(n)
    <3>1. M = {IF b.id = LocalId(t) THEN [b EXCEPT !.id = NetId(n), !.delivery = d] ELSE b
                  : b \in L}
      BY <1>3, <2>2 DEF D!ReconcileSent, D!Marked, D!Listed
    <3>2. QED
      BY <2>2, <3>1 DEF Settled
  <2>3. QED
    BY <2>1, <2>2
<1>4. ASSUME M = D!SetDelivery(L, LocalId(t), "failed", NetId(n))
      PROVE  Settled(L, M, t, n)
  <2>1. M = D!ReconcileSent(L, LocalId(t), NetId(n), "failed")
    BY <1>1, <1>4 DEF D!SetDelivery, D!ReconcileSent, D!Listed
  <2>2. QED
    BY <1>2, <1>3, <2>1
<1>5. QED
  BY <1>2, <1>3, <1>4

\* Settled or not, no bubble of the send is left beside its stored message.
LEMMA ListSettled ==
  ASSUME NEW L, NEW S, NEW T, ListOK(L, S, T), NEW t \in Task, NEW n \in Net,
         S[n].state # "none", S[n].body = t, NEW M, Settled(L, M, t, n)
  PROVE  ListOK(M, S, T) /\ \A b \in M : b.id # LocalId(t)
<1>1. CASE M = {b \in L : b.id # LocalId(t)}
  BY <1>1, ListFewer
<1>2. CASE /\ \A b \in L : b.id # NetId(n)
           /\ \E d \in D!Delivery :
                  M = {IF b.id = LocalId(t) THEN [b EXCEPT !.id = NetId(n), !.delivery = d] ELSE b
                          : b \in L}
  <2>1. PICK d \in D!Delivery :
           M = {IF b.id = LocalId(t) THEN [b EXCEPT !.id = NetId(n), !.delivery = d] ELSE b
                   : b \in L}
    BY <1>2
  <2> DEFINE F(b) == IF b.id = LocalId(t) THEN [b EXCEPT !.id = NetId(n), !.delivery = d] ELSE b
  <2>2. \A b \in L : /\ F(b) \in Bubble /\ F(b).body = b.body
                     /\ F(b).id = IF b.id = LocalId(t) THEN NetId(n) ELSE b.id
                     /\ b.id # LocalId(t) => F(b) = b
    BY Ids DEF ListOK, Bubble
  <2>3. M = {F(b) : b \in L}
    BY <2>1
  <2> HIDE DEF F
  <2>4. Unique(M)
    <3>1. \A b, c \in L : b.id = c.id => b = c
      BY DEF ListOK, Unique
    <3>2. ASSUME NEW b \in L, NEW c \in L, F(b).id = F(c).id PROVE b = c
      <4>1. b.id = c.id
        BY <1>2, <2>2, <3>2
      <4>2. QED
        BY <3>1, <4>1
    <3>3. QED
      BY <2>3, <3>2 DEF Unique
  <2>5. \A b \in L : b.id = LocalId(t) => b.body = t
    BY Ids DEF ListOK, OfSend, OfStore
  <2>6. \A b \in L : OfSend(F(b), T) \/ OfStore(F(b), S)
    BY <2>2, <2>5 DEF ListOK, OfSend, OfStore
  <2>7. \A b \in M : b.id # LocalId(t)
    BY <2>2, <2>3, Ids
  <2>8. QED
    BY <2>2, <2>3, <2>4, <2>6, <2>7 DEF ListOK
<1>3. QED
  BY <1>1, <1>2 DEF Settled

-----------------------------------------------------------------------------
(* Tasks and receipts *)

\* A task goes on to an await of its kind, or ends with nothing stored.
LEMMA TaskMoves ==
  ASSUME TasksOK(tasks), StoreOK(sdk, tasks), ListOK(messages, sdk, tasks),
         NEW t \in Task, tasks[t].pc \in Await \ {"publishing"},
         NEW pc \in {"loading", "subscribing", "opened", "sending", "ended"},
         pc = "sending" => tasks[t].kind = "send",
         MoveTo(t, pc)
  PROVE  /\ TasksOK(tasks') /\ StoreOK(sdk, tasks') /\ ListOK(messages, sdk, tasks')
         /\ \A u \in Task : tasks'[u].kind = tasks[u].kind
         /\ \A u \in Task : u # t => tasks'[u].pc = tasks[u].pc
         /\ tasks'[t].pc = pc
<1>1. /\ tasks' \in [Task -> TaskState]
      /\ \A u \in Task : /\ tasks'[u].kind = tasks[u].kind /\ tasks'[u].peer = tasks[u].peer
                         /\ tasks'[u].net = tasks[u].net
                         /\ tasks'[u].pc = IF u = t THEN pc ELSE tasks[u].pc
  BY DEF TasksOK, TaskState, Await, MoveTo
<1>2. tasks[t].net = 0 /\ tasks[t].pc # "unused"
  BY DEF TasksOK, Await
<1>3. TasksOK(tasks')
  BY <1>1, <1>2 DEF TasksOK
<1>4. StoreOK(sdk, tasks')
  BY <1>1 DEF StoreOK
<1>5. ListOK(messages, sdk, tasks')
  BY <1>1, <1>2, ListStays
<1>6. QED
  BY <1>1, <1>3, <1>4, <1>5

\* A task starts: it is the newest.
LEMMA TaskStarts ==
  ASSUME TasksOK(tasks), StoreOK(sdk, tasks), NEW L, ListOK(L, sdk, tasks),
         NEW t \in Task, NextTask(t), NEW kind \in {"mount", "resume", "send"},
         NEW pc \in {"lookup", "loading", "creating", "sending", "ended"},
         pc \in {"creating", "sending"} => kind = "send",
         NEW p \in Peer, NEW composedFor \in Peer \cup {NoPeer},
         Started(t, kind, pc, p, composedFor)
  PROVE  /\ TasksOK(tasks') /\ StoreOK(sdk, tasks') /\ ListOK(L, sdk, tasks')
         /\ tasks[t].kind = "none" /\ tasks'[t].kind = kind /\ tasks'[t].pc = pc
         /\ tasks'[t].net = 0
         /\ \A u \in Task : u # t => tasks'[u] = tasks[u]
         /\ \A u \in Task : tasks[u].kind # "none" => u <= t
<1> DEFINE new == [kind |-> kind, pc |-> pc, peer |-> p, composedFor |-> composedFor, net |-> 0]
<1>1. /\ new \in TaskState /\ new.kind = kind /\ new.pc = pc /\ new.peer = p /\ new.net = 0
  BY Bounds DEF TaskState, Await
<1>2. tasks' = [tasks EXCEPT ![t] = new]
  BY DEF Started
<1> HIDE DEF new
<1>3. /\ tasks' \in [Task -> TaskState]
      /\ \A u \in Task : tasks'[u] = IF u = t THEN new ELSE tasks[u]
  BY <1>1, <1>2 DEF TasksOK
<1>4. \A u \in Task : u \in Nat
  BY Bounds
<1>5. tasks[t].pc = "unused" /\ \A u \in Task : tasks[u].pc # "unused" => u <= t
  BY <1>4 DEF NextTask
<1>6. tasks[t].kind = "none" /\ tasks[t].net = 0
  BY <1>5 DEF TasksOK
<1>7. TasksOK(tasks')
  BY <1>1, <1>3 DEF TasksOK
<1>8. StoreOK(sdk, tasks')
  BY <1>1, <1>3, <1>6, Bounds DEF StoreOK
<1>9. ListOK(L, sdk, tasks')
  BY <1>1, <1>3, <1>6, ListStays
<1>10. QED
  BY <1>1, <1>3, <1>5, <1>6, <1>7, <1>8, <1>9 DEF TasksOK

\* A message is acknowledged when it advances the watermark of its thread.
LEMMA ReadAcks ==
  ASSUME StoreOK(sdk, tasks), AcksOK(acks, lastRead, sdk), NEW n \in Net,
         sdk[n].state # "none", Read(sdk[n].peer, n)
  PROVE  AcksOK(acks', lastRead', sdk)
<1> DEFINE p == sdk[n].peer
<1>1. p \in Peer /\ n \in 0..MaxNet /\ MaxNet \in Nat /\ lastRead[p] \in 0..MaxNet
  BY Bounds DEF StoreOK, AcksOK
<1>2. CASE ~(n > lastRead[p])
  <2>1. acks' = acks /\ \A q \in Peer : lastRead'[q] = lastRead[q]
    BY <1>2 DEF Read, Advances, AcksOK
  <2>2. lastRead' \in [Peer -> 0..MaxNet]
    BY <1>1, <1>2 DEF Read, Advances, AcksOK
  <2>3. QED
    BY <2>1, <2>2 DEF AcksOK
<1>3. CASE n > lastRead[p]
  <2>1. /\ lastRead' \in [Peer -> 0..MaxNet]
        /\ \A q \in Peer : lastRead'[q] = IF q = p THEN n ELSE lastRead[q]
    BY <1>1, <1>3 DEF Read, Advances, AcksOK
  <2>2. acks[n] = 0
    BY <1>1, <1>3 DEF AcksOK
  <2>3. /\ acks' \in [Net -> 0..2]
        /\ \A m \in Net : acks'[m] = acks[m] \/ (m = n /\ acks'[m] = 1)
    <3>1. acks' = acks \/ acks' = [acks EXCEPT ![n] = 1]
      BY <1>3, <2>2 DEF Read, Advances
    <3>2. QED
      BY <3>1 DEF AcksOK
  <2>4. \A q \in Peer : lastRead[q] \in Nat /\ lastRead'[q] \in Nat /\ lastRead[q] <= lastRead'[q]
    BY <1>1, <1>3, <2>1 DEF AcksOK
  <2>5. ASSUME NEW m \in Net, acks'[m] # 0
        PROVE  /\ acks'[m] = 1 /\ sdk[m].state # "none" /\ sdk[m].peer \in Peer
               /\ m <= lastRead'[sdk[m].peer]
    <3>1. CASE acks'[m] = acks[m]
      BY <2>4, <2>5, <3>1, Bounds DEF AcksOK
    <3>2. CASE m = n /\ acks'[m] = 1
      BY <1>1, <2>1, <3>2
    <3>3. QED
      BY <2>3, <3>1, <3>2
  <2>6. QED
    BY <2>1, <2>3, <2>5 DEF AcksOK
<1>4. QED
  BY <1>2, <1>3

\* What the store takes on changes nothing that was acknowledged.
LEMMA AcksStay ==
  ASSUME NEW A, NEW R, NEW S, NEW SS, AcksOK(A, R, S),
         \A n \in Net : S[n].state # "none" => SS[n].state # "none" /\ SS[n].peer = S[n].peer
  PROVE  AcksOK(A, R, SS)
  BY DEF AcksOK

\* No step but a new run of the effect starts the spinner, and none ends the newest run
\* before it stops.
LEMMA SpinnerStays ==
  ASSUME LoadingEnds, TasksOK(tasks),
         mounted' => mounted, client' = client, isLoading' => isLoading,
         \A u \in Task : tasks'[u].kind = "mount" <=> tasks[u].kind = "mount",
         \A u \in Task : tasks[u].kind = "mount" /\ tasks[u].pc # "ended" /\ tasks'[u].pc = "ended"
             => ~mounted' \/ ~isLoading'
  PROVE  LoadingEnds'
  BY DEF LoadingEnds

-----------------------------------------------------------------------------
(* The steps of the hook *)

LEMMA InitInv == Init => ConvInv
<1> SUFFICES ASSUME Init PROVE ConvInv
  OBVIOUS
<1>1. HookOK
  <2>1. 0 \in 0..MaxTask /\ 0 \in 0..MaxRun
    BY Bounds
  <2>2. streams \in [Task -> SUBSET (0..MaxNet)]
    BY DEF Init, Closed
  <2>3. QED
    BY <2>1, <2>2 DEF Init, HookOK
<1>2. Unused \in TaskState /\ Unused.kind = "none" /\ Unused.pc = "unused" /\ Unused.net = 0
  BY Bounds DEF Unused, TaskState
<1>3. TasksOK(tasks)
  BY <1>2 DEF Init, TasksOK
<1>4. /\ NotStored \in Message /\ NotStored.state = "none" /\ NotStored.body = Theirs
  BY DEF NotStored, Message
<1>5. StoreOK(sdk, tasks)
  <2>1. 0 \in 0..MaxNet /\ \A m \in Net : ~(m <= 0)
    BY Bounds DEF Net
  <2>2. QED
    BY <1>2, <1>4, <2>1 DEF Init, StoreOK
<1>6. ListOK(messages, sdk, tasks)
  BY DEF Init, ListOK, Unique
<1>7. AcksOK(acks, lastRead, sdk)
  BY Bounds DEF Init, AcksOK
<1>8. LoadingEnds
  BY DEF Init, LoadingEnds
<1>9. QED
  BY <1>1, <1>3, <1>5, <1>6, <1>7, <1>8 DEF ConvInv

LEMMA EmptyList == ASSUME NEW S, NEW T PROVE ListOK({}, S, T)
  BY DEF ListOK, Unique

LEMMA CloseType == ASSUME HookOK PROVE CloseCurrent \in [Task -> SUBSET (0..MaxNet)]
  BY DEF HookOK, CloseCurrent, Closed

\* A run of the effect: it empties the list, and only with a client does it start a task,
\* the newest of all, which the spinner is for.
LEMMA EffectStep ==
  ASSUME ConvInv, NEW p \in Peer, NEW c \in {"none", "initializing", "ready"}, RunEffect(p, c)
  PROVE  ConvInv'
<1>1. /\ runs' = runs + 1 /\ runs < MaxRun
      /\ mounted' = TRUE /\ counterparty' = p /\ client' = c
      /\ streams' = CloseCurrent
      /\ unsubRef' = 0 /\ dmRef' = NoPeer /\ cancelledRef' = FALSE
      /\ messages' = {} /\ initError' = FALSE /\ isLoading' = (c # "none")
      /\ wasBackground' = wasBackground /\ sdk' = sdk /\ dms' = dms /\ acks' = acks
      /\ lastRead' = lastRead
  BY DEF RunEffect, network
<1>2. HookOK'
  <2>1. streams' \in [Task -> SUBSET (0..MaxNet)]
    BY <1>1, CloseType DEF ConvInv
  <2>2. runs' \in 0..MaxRun /\ unsubRef' \in 0..MaxTask
    BY <1>1, Bounds DEF ConvInv, HookOK
  <2>3. isLoading' \in BOOLEAN
    BY <1>1
  <2>4. QED
    BY <1>1, <2>1, <2>2, <2>3 DEF ConvInv, HookOK
<1>3. AcksOK(acks', lastRead', sdk')
  BY <1>1 DEF ConvInv
<1>4. CASE c = "ready"
  <2>1. PICK t \in Task : NextTask(t) /\ Started(t, "mount", "lookup", p, NoPeer)
    BY <1>4 DEF RunEffect
  <2>2. /\ TasksOK(tasks') /\ StoreOK(sdk, tasks') /\ ListOK({}, sdk, tasks')
        /\ tasks'[t].kind = "mount" /\ tasks'[t].pc = "lookup"
        /\ \A u \in Task : u # t => tasks'[u] = tasks[u]
        /\ \A u \in Task : tasks[u].kind # "none" => u <= t
    BY <2>1, EmptyList, TaskStarts DEF ConvInv
  <2>3. \A u \in Task : tasks'[u].kind = "mount" => u <= t
    BY <2>2, Bounds
  <2>4. LoadingEnds'
    BY <2>2, <2>3 DEF LoadingEnds
  <2>5. QED
    BY <1>1, <1>2, <1>3, <2>2, <2>4 DEF ConvInv
<1>5. CASE c # "ready"
  <2>1. tasks' = tasks
    BY <1>5 DEF RunEffect
  <2>2. LoadingEnds'
    BY <1>1, <1>5 DEF LoadingEnds
  <2>3. ListOK(messages', sdk', tasks')
    BY <1>1, EmptyList
  <2>4. QED
    BY <1>1, <1>2, <1>3, <2>1, <2>2, <2>3 DEF ConvInv
<1>6. QED
  BY <1>4, <1>5

LEMMA MountStep ==
  ASSUME ConvInv, Mount \/ ChangePeer \/ ClientTick
  PROVE  ConvInv'
<1>1. client \in {"none", "initializing", "ready"} /\ (mounted => counterparty \in Peer)
  BY DEF ConvInv, HookOK
<1>2. QED
  BY <1>1, EffectStep DEF Mount, ChangePeer, ClientTick

LEMMA UnmountStep == ASSUME ConvInv, Unmount PROVE ConvInv'
<1>1. /\ mounted' = FALSE /\ counterparty' = NoPeer /\ messages' = {} /\ isLoading' = FALSE
      /\ initError' = FALSE /\ wasBackground' = FALSE /\ cancelledRef' = TRUE
      /\ dmRef' = NoPeer /\ unsubRef' = 0 /\ streams' = CloseCurrent
      /\ client' = client /\ runs' = runs /\ tasks' = tasks /\ sdk' = sdk /\ dms' = dms
      /\ acks' = acks /\ lastRead' = lastRead
  BY DEF Unmount, network
<1>2. HookOK'
  <2>1. streams' \in [Task -> SUBSET (0..MaxNet)]
    BY <1>1, CloseType DEF ConvInv
  <2>2. unsubRef' \in 0..MaxTask
    BY <1>1, Bounds
  <2>3. QED
    BY <1>1, <2>1, <2>2 DEF ConvInv, HookOK
<1>3. LoadingEnds' /\ ListOK(messages', sdk', tasks')
  BY <1>1, EmptyList DEF LoadingEnds
<1>4. QED
  BY <1>1, <1>2, <1>3 DEF ConvInv

LEMMA BackgroundStep == ASSUME ConvInv, Background PROVE ConvInv'
<1>1. /\ wasBackground' = TRUE
      /\ mounted' = mounted /\ counterparty' = counterparty /\ messages' = messages
      /\ isLoading' = isLoading /\ initError' = initError /\ cancelledRef' = cancelledRef
      /\ dmRef' = dmRef /\ unsubRef' = unsubRef
      /\ client' = client /\ runs' = runs /\ tasks' = tasks /\ sdk' = sdk /\ dms' = dms
      /\ acks' = acks /\ lastRead' = lastRead
  BY DEF Background, network, refs
<1>2. streams' \in [Task -> SUBSET (0..MaxNet)]
  BY DEF Background, ConvInv, HookOK, Closed
<1>3. HookOK'
  BY <1>1, <1>2 DEF ConvInv, HookOK
<1>4. LoadingEnds'
  BY <1>1 DEF ConvInv, LoadingEnds
<1>5. QED
  BY <1>1, <1>3, <1>4 DEF ConvInv

LEMMA ForegroundStep == ASSUME ConvInv, Foreground PROVE ConvInv'
<1>1. /\ wasBackground' = FALSE
      /\ mounted' = mounted /\ counterparty' = counterparty /\ messages' = messages
      /\ isLoading' = isLoading /\ initError' = initError /\ cancelledRef' = cancelledRef
      /\ dmRef' = dmRef
      /\ client' = client /\ runs' = runs /\ sdk' = sdk /\ dms' = dms
      /\ acks' = acks /\ lastRead' = lastRead
  BY DEF Foreground, network
<1>2. streams' \in [Task -> SUBSET (0..MaxNet)] /\ unsubRef' \in 0..MaxTask
  BY CloseType, Bounds DEF Foreground, ConvInv, HookOK
<1>3. HookOK'
  BY <1>1, <1>2 DEF ConvInv, HookOK
<1>4. CASE dmRef = NoPeer
  <2>1. tasks' = tasks
    BY <1>4 DEF Foreground
  <2>2. LoadingEnds'
    BY <1>1, <2>1 DEF ConvInv, LoadingEnds
  <2>3. QED
    BY <1>1, <1>3, <2>1, <2>2 DEF ConvInv
<1>5. CASE dmRef # NoPeer
  <2>1. PICK t \in Task : NextTask(t) /\ Started(t, "resume", "loading", dmRef, NoPeer)
    BY <1>5 DEF Foreground
  <2>2. dmRef \in Peer
    BY <1>5 DEF ConvInv, HookOK
  <2>3. /\ TasksOK(tasks') /\ StoreOK(sdk, tasks') /\ ListOK(messages, sdk, tasks')
        /\ tasks[t].kind = "none" /\ tasks'[t].kind = "resume"
        /\ \A u \in Task : u # t => tasks'[u] = tasks[u]
    BY <2>1, <2>2, TaskStarts DEF ConvInv
  <2>4. LoadingEnds'
    BY <1>1, <2>3, SpinnerStays DEF ConvInv
  <2>5. QED
    BY <1>1, <1>3, <2>3, <2>4 DEF ConvInv
<1>6. QED
  BY <1>4, <1>5

LEMMA NowTime == ASSUME ConvInv PROVE Now \in 0..MaxNet
<1>1. \E n \in 0..MaxNet : \A m \in Net : sdk[m].state # "none" <=> m <= n
  BY DEF ConvInv, StoreOK
<1>2. QED
  BY <1>1 DEF Now

LEMMA SendStep == ASSUME ConvInv, NEW t \in Task, Send(t) PROVE ConvInv'
<1>1. /\ UNCHANGED <<mounted, counterparty, client, isLoading, initError, wasBackground, runs>>
      /\ UNCHANGED <<dmRef, unsubRef, cancelledRef>>
      /\ UNCHANGED streams /\ UNCHANGED <<sdk, dms, acks, lastRead>>
      /\ mounted /\ NextTask(t)
  BY DEF Send, state, refs, network
<1>2. counterparty \in Peer /\ dmRef \in Peer \cup {NoPeer}
  BY <1>1 DEF ConvInv, HookOK
<1>3. PICK d \in {"pending", "failed"}, pc \in {"sending", "creating", "ended"}, p \in Peer :
         /\ Started(t, "send", pc, p, counterparty)
         /\ messages' = messages \cup {[id |-> LocalId(t), body |-> t, sentNs |-> Now,
                                        delivery |-> d, uploaded |-> FALSE]}
  BY <1>2 DEF Send
<1>4. /\ TasksOK(tasks') /\ StoreOK(sdk, tasks') /\ ListOK(messages, sdk, tasks')
      /\ tasks[t].kind = "none" /\ tasks'[t].kind = "send" /\ tasks'[t].net = 0
      /\ \A u \in Task : u # t => tasks'[u] = tasks[u]
  BY <1>1, <1>2, <1>3, TaskStarts DEF ConvInv
<1> DEFINE b == [id |-> LocalId(t), body |-> t, sentNs |-> Now, delivery |-> d, uploaded |-> FALSE]
<1>5. b \in Bubble /\ b.id = LocalId(t) /\ b.body = t
  BY Ids, NowTime DEF Bubble, D!Delivery
<1>6. messages' = messages \cup {b}
  BY <1>3
<1> HIDE DEF b
<1>7. ListOK({b}, sdk, tasks')
  BY <1>4, <1>5 DEF ListOK, Unique, OfSend
<1>8. \A a \in messages : a.id # b.id
  BY <1>4, <1>5, Ids DEF ConvInv, ListOK, OfSend, OfStore
<1>9. ListOK(messages', sdk, tasks')
  <2>1. \A a \in messages, c \in {b} : a.id # c.id
    BY <1>8
  <2>2. QED
    BY <1>4, <1>6, <1>7, <2>1, ListMore
<1>10. HookOK'
  BY <1>1 DEF ConvInv, HookOK
<1>11. LoadingEnds'
  BY <1>1, <1>4, SpinnerStays DEF ConvInv
<1>12. QED
  BY <1>1, <1>4, <1>9, <1>10, <1>11 DEF ConvInv

-----------------------------------------------------------------------------
(* The steps of a task *)

LEMMA LookupStep == ASSUME ConvInv, NEW t \in Task, LookupReturns(t) PROVE ConvInv'
<1>1. /\ UNCHANGED <<mounted, counterparty, client, initError, wasBackground, runs, unsubRef,
                     cancelledRef, messages, streams>>
      /\ UNCHANGED <<sdk, dms, acks, lastRead>>
      /\ tasks[t].pc = "lookup"
  BY DEF LookupReturns, network
<1>2. PICK pc \in {"loading", "ended"} :
         /\ MoveTo(t, pc)
         /\ isLoading' = isLoading \/ (pc = "ended" /\ StopsLoading(t))
         /\ pc = "ended" => StopsLoading(t)
         /\ dmRef' \in {dmRef, tasks[t].peer}
  BY DEF LookupReturns
<1>3. /\ TasksOK(tasks') /\ StoreOK(sdk, tasks') /\ ListOK(messages, sdk, tasks')
      /\ \A u \in Task : tasks'[u].kind = tasks[u].kind
      /\ \A u \in Task : u # t => tasks'[u].pc = tasks[u].pc
      /\ tasks'[t].pc = pc
  BY <1>1, <1>2, TaskMoves DEF ConvInv, Await
<1>4. tasks[t].peer \in Peer
  BY <1>1 DEF ConvInv, TasksOK
<1>5. isLoading' \in BOOLEAN /\ (isLoading' => isLoading)
  BY <1>2 DEF StopsLoading, ConvInv, HookOK
<1>6. HookOK'
  BY <1>1, <1>2, <1>4, <1>5 DEF ConvInv, HookOK
<1>7. \A u \in Task : tasks[u].kind = "mount" /\ tasks[u].pc # "ended" /\ tasks'[u].pc = "ended"
          => ~mounted' \/ ~isLoading'
  BY <1>1, <1>2, <1>3 DEF StopsLoading, ConvInv, HookOK
<1>8. LoadingEnds'
  BY <1>1, <1>3, <1>5, <1>7, SpinnerStays DEF ConvInv
<1>9. QED
  BY <1>1, <1>3, <1>6, <1>8 DEF ConvInv

\* The list and the receipts of a history that returned.
LEMMA HistoryList ==
  ASSUME ConvInv, NEW t \in Task, HistoryReturns(t), ~cancelledRef
  PROVE  /\ ListOK(messages', sdk, tasks)
         /\ AcksOK(acks', lastRead', sdk)
         /\ MoveTo(t, "subscribing")
<1> DEFINE p == tasks[t].peer
           history == History(p)
<1>1. /\ messages' = IF tasks[t].kind = "resume" THEN Resumed(Fresh(history)) ELSE Fresh(history)
      /\ IF history # {} THEN Read(p, Latest(history)) ELSE UNCHANGED <<lastRead, acks>>
      /\ MoveTo(t, "subscribing")
  BY DEF HistoryReturns
<1>2. history \in SUBSET Net /\ \A n \in history : sdk[n].state # "none" /\ sdk[n].peer = p
  BY DEF History
<1> HIDE DEF history
<1>3. ListOK(Fresh(history), sdk, tasks)
  BY <1>2, ListFresh DEF ConvInv
<1>4. ListOK(Resumed(Fresh(history)), sdk, tasks)
  BY <1>3, ListResumed DEF ConvInv
<1>5. ListOK(messages', sdk, tasks)
  BY <1>1, <1>3, <1>4
<1>6. AcksOK(acks', lastRead', sdk)
  <2>1. CASE history = {}
    BY <1>1, <2>1 DEF ConvInv, AcksOK
  <2>2. CASE history # {}
    <3>1. /\ Latest(history) \in Net /\ sdk[Latest(history)].state # "none"
          /\ sdk[Latest(history)].peer = p
      BY <1>2, <2>2, LatestIsOne
    <3>2. Read(sdk[Latest(history)].peer, Latest(history))
      BY <1>1, <2>2, <3>1
    <3>3. QED
      BY <3>1, <3>2, ReadAcks DEF ConvInv
  <2>3. QED
    BY <2>1, <2>2
<1>7. QED
  BY <1>1, <1>5, <1>6

LEMMA HistoryStep == ASSUME ConvInv, NEW t \in Task, HistoryReturns(t) PROVE ConvInv'
<1>1. /\ UNCHANGED <<mounted, counterparty, client, isLoading, initError, wasBackground, runs>>
      /\ UNCHANGED <<dmRef, unsubRef, cancelledRef>>
      /\ UNCHANGED <<streams, sdk, dms>>
      /\ tasks[t].pc = "loading"
  BY DEF HistoryReturns, state, refs
<1>2. PICK pc \in {"subscribing", "sending", "ended"} :
         /\ MoveTo(t, pc)
         /\ pc = "sending" => tasks[t].kind = "send"
         /\ pc # "subscribing" => cancelledRef
  BY DEF HistoryReturns, AfterAttach
<1>3. ListOK(messages', sdk, tasks) /\ AcksOK(acks', lastRead', sdk)
  <2>1. CASE cancelledRef
    BY <2>1 DEF HistoryReturns, ConvInv
  <2>2. CASE ~cancelledRef
    BY <2>2, HistoryList
  <2>3. QED
    BY <2>1, <2>2
<1>4. /\ TasksOK(tasks') /\ StoreOK(sdk, tasks')
      /\ \A u \in Task : tasks'[u].kind = tasks[u].kind
      /\ \A u \in Task : u # t => tasks'[u].pc = tasks[u].pc
      /\ tasks'[t].pc = pc
  BY <1>1, <1>2, TaskMoves DEF ConvInv, Await
<1>5. ListOK(messages', sdk, tasks')
  <2>1. tasks[t].net = 0 /\ \A u \in Task : tasks'[u].net = tasks[u].net
    BY <1>1, <1>2 DEF ConvInv, MoveTo, TasksOK, TaskState
  <2>2. QED
    BY <1>3, <1>4, <2>1, ListStays
<1>6. HookOK'
  BY <1>1 DEF ConvInv, HookOK
<1>7. \A u \in Task : tasks[u].kind = "mount" /\ tasks[u].pc # "ended" /\ tasks'[u].pc = "ended"
          => ~mounted' \/ ~isLoading'
  BY <1>1, <1>2, <1>4 DEF ConvInv, HookOK
<1>8. LoadingEnds'
  BY <1>1, <1>4, <1>7, SpinnerStays DEF ConvInv
<1>9. QED
  BY <1>1, <1>3, <1>4, <1>5, <1>6, <1>8 DEF ConvInv

LEMMA OpensStep == ASSUME ConvInv, NEW t \in Task, StreamOpens(t) PROVE ConvInv'
<1>1. /\ UNCHANGED <<mounted, counterparty, client, isLoading, initError, wasBackground, runs>>
      /\ UNCHANGED <<dmRef, unsubRef, cancelledRef>>
      /\ UNCHANGED messages /\ UNCHANGED <<sdk, dms, acks, lastRead>>
      /\ tasks[t].pc = "subscribing" /\ MoveTo(t, "opened")
  BY DEF StreamOpens, state, refs, network
<1>2. /\ TasksOK(tasks') /\ StoreOK(sdk, tasks') /\ ListOK(messages, sdk, tasks')
      /\ \A u \in Task : tasks'[u].kind = tasks[u].kind
      /\ \A u \in Task : u # t => tasks'[u].pc = tasks[u].pc
      /\ tasks'[t].pc = "opened"
  BY <1>1, TaskMoves DEF ConvInv, Await
<1>3. streams' \in [Task -> SUBSET (0..MaxNet)]
  <2>1. {0} \cup {n \in Net : sdk[n].state = "published"} \in SUBSET (0..MaxNet)
    BY Bounds
  <2>2. QED
    BY <2>1 DEF StreamOpens, ConvInv, HookOK
<1>4. HookOK'
  BY <1>1, <1>3 DEF ConvInv, HookOK
<1>5. LoadingEnds'
  BY <1>1, <1>2, SpinnerStays DEF ConvInv
<1>6. QED
  BY <1>1, <1>2, <1>4, <1>5 DEF ConvInv

LEMMA ReturnsStep == ASSUME ConvInv, NEW t \in Task, StreamReturns(t) PROVE ConvInv'
<1>1. /\ UNCHANGED <<mounted, counterparty, client, initError, wasBackground, runs, dmRef,
                     cancelledRef, messages>>
      /\ UNCHANGED <<sdk, dms, acks, lastRead>>
      /\ tasks[t].pc = "opened" /\ StopsLoading(t)
  BY DEF StreamReturns, network
<1>2. PICK pc \in {"sending", "ended"} :
         MoveTo(t, pc) /\ (pc = "sending" => tasks[t].kind = "send")
  BY DEF StreamReturns, AfterAttach
<1>3. /\ TasksOK(tasks') /\ StoreOK(sdk, tasks') /\ ListOK(messages, sdk, tasks')
      /\ \A u \in Task : tasks'[u].kind = tasks[u].kind
      /\ \A u \in Task : u # t => tasks'[u].pc = tasks[u].pc
  BY <1>1, <1>2, TaskMoves DEF ConvInv, Await
<1>4. streams' \in [Task -> SUBSET (0..MaxNet)] /\ unsubRef' \in 0..MaxTask
  BY Bounds DEF StreamReturns, Closed, ConvInv, HookOK, Task
<1>5. isLoading' \in BOOLEAN /\ (isLoading' => isLoading)
  BY <1>1 DEF StopsLoading, ConvInv, HookOK
<1>6. HookOK'
  BY <1>1, <1>4, <1>5 DEF ConvInv, HookOK
<1>7. \A u \in Task : tasks[u].kind = "mount" /\ tasks[u].pc # "ended" /\ tasks'[u].pc = "ended"
          => ~mounted' \/ ~isLoading'
  BY <1>1, <1>3 DEF StopsLoading, ConvInv, HookOK
<1>8. LoadingEnds'
  BY <1>1, <1>3, <1>5, <1>7, SpinnerStays DEF ConvInv
<1>9. QED
  BY <1>1, <1>3, <1>6, <1>8 DEF ConvInv

LEMMA RejectsStep == ASSUME ConvInv, NEW t \in Task, Rejects(t) PROVE ConvInv'
<1>1. /\ UNCHANGED <<mounted, counterparty, client, wasBackground, runs>>
      /\ UNCHANGED <<dmRef, unsubRef, cancelledRef>> /\ UNCHANGED streams
      /\ UNCHANGED <<sdk, dms, acks, lastRead>>
      /\ tasks[t].pc \in Await \ {"publishing"} /\ MoveTo(t, "ended")
  BY DEF Rejects, refs, network
<1>2. /\ TasksOK(tasks') /\ StoreOK(sdk, tasks') /\ ListOK(messages, sdk, tasks')
      /\ \A u \in Task : tasks'[u].kind = tasks[u].kind
      /\ \A u \in Task : u # t => tasks'[u].pc = tasks[u].pc
  BY <1>1, TaskMoves DEF ConvInv
<1>3. ListOK(messages', sdk, tasks')
  <2>1. messages' = messages \/ messages' = D!SetDelivery(messages, LocalId(t), "failed", D!NoId)
    BY DEF Rejects, MountDies, ResumeDies, SendDies
  <2>2. QED
    BY <1>2, <2>1, ListFails
<1>4. /\ isLoading' \in BOOLEAN /\ initError' \in BOOLEAN /\ (isLoading' => isLoading)
      /\ tasks[t].kind = "mount" => ~isLoading' \/ cancelledRef
  <2>1. CASE MountDies(t)
    BY <2>1 DEF MountDies, ConvInv, HookOK
  <2>2. CASE ResumeDies(t) \/ SendDies(t)
    BY <2>2 DEF ResumeDies, SendDies, ConvInv, HookOK
  <2>3. QED
    BY <2>1, <2>2 DEF Rejects
<1>5. HookOK'
  BY <1>1, <1>4 DEF ConvInv, HookOK
<1>6. \A u \in Task : tasks[u].kind = "mount" /\ tasks[u].pc # "ended" /\ tasks'[u].pc = "ended"
          => ~mounted' \/ ~isLoading'
  BY <1>1, <1>2, <1>4 DEF ConvInv, HookOK
<1>7. LoadingEnds'
  BY <1>1, <1>2, <1>4, <1>6, SpinnerStays DEF ConvInv
<1>8. QED
  BY <1>1, <1>2, <1>3, <1>5, <1>7 DEF ConvInv

LEMMA CreateStep == ASSUME ConvInv, NEW t \in Task, CreateReturns(t) PROVE ConvInv'
<1>1. /\ UNCHANGED <<mounted, counterparty, client, isLoading, initError, wasBackground, runs>>
      /\ UNCHANGED <<unsubRef, cancelledRef, messages, streams, sdk, acks, lastRead>>
      /\ tasks[t].pc = "creating" /\ MoveTo(t, "loading")
      /\ dms' = dms \cup {tasks[t].peer} /\ dmRef' = tasks[t].peer
  BY DEF CreateReturns, state
<1>2. /\ TasksOK(tasks') /\ StoreOK(sdk, tasks') /\ ListOK(messages, sdk, tasks')
      /\ \A u \in Task : tasks'[u].kind = tasks[u].kind
      /\ \A u \in Task : u # t => tasks'[u].pc = tasks[u].pc
      /\ tasks'[t].pc = "loading"
  BY <1>1, TaskMoves DEF ConvInv, Await
<1>3. tasks[t].peer \in Peer
  BY <1>1 DEF ConvInv, TasksOK
<1>4. HookOK'
  BY <1>1, <1>3 DEF ConvInv, HookOK
<1>5. LoadingEnds'
  BY <1>1, <1>2, SpinnerStays DEF ConvInv
<1>6. QED
  BY <1>1, <1>2, <1>4, <1>5 DEF ConvInv

-----------------------------------------------------------------------------
(* The steps of the store *)

\* A message enters the store as its next one.
LEMMA StoreTakes ==
  ASSUME ConvInv, NEW n \in Net, NextNet(n), NEW s \in {"stored", "published"}, NEW p \in Peer,
         NEW kind \in {"mine", "theirs", "receipt"}, NEW body \in Task \cup {Theirs},
         Stored(n, s, p, kind, body)
  PROVE  /\ sdk' \in [Net -> Message]
         /\ \E k \in 0..MaxNet : \A m \in Net : sdk'[m].state # "none" <=> m <= k
         /\ sdk[n].state = "none" /\ sdk'[n].state # "none"
         /\ sdk'[n].peer = p /\ sdk'[n].body = body
         /\ \A m \in Net : m # n => sdk'[m] = sdk[m]
<1> DEFINE new == [state |-> s, peer |-> p, kind |-> kind, body |-> body]
<1>1. new \in Message /\ new.state # "none" /\ new.peer = p /\ new.body = body
  BY DEF Message
<1>2. sdk' = [sdk EXCEPT ![n] = new]
  BY DEF Stored
<1> HIDE DEF new
<1>3. /\ sdk' \in [Net -> Message]
      /\ \A m \in Net : sdk'[m] = IF m = n THEN new ELSE sdk[m]
  BY <1>1, <1>2 DEF ConvInv, StoreOK
<1>4. \A m \in Net : m \in Nat
  BY Bounds
<1>5. /\ \A m \in Net : sdk[m].state = "none" <=> n <= m
      /\ n \in 0..MaxNet
  BY Bounds DEF NextNet
<1>6. \A m \in Net : sdk'[m].state # "none" <=> m <= n
  BY <1>1, <1>3, <1>4, <1>5
<1>7. QED
  BY <1>1, <1>3, <1>4, <1>5, <1>6

LEMMA SdkStoresStep ==
  ASSUME ConvInv, NEW t \in Task, NEW n \in Net, SdkStores(t, n)
  PROVE  ConvInv'
<1>1. /\ UNCHANGED <<mounted, counterparty, client, isLoading, initError, wasBackground, runs>>
      /\ UNCHANGED <<dmRef, unsubRef, cancelledRef>>
      /\ UNCHANGED <<messages, streams, dms, acks, lastRead>>
      /\ tasks[t].pc = "sending" /\ NextNet(n)
      /\ Stored(n, "stored", tasks[t].peer, "mine", t)
      /\ tasks' = [tasks EXCEPT ![t].pc = "publishing", ![t].net = n]
  BY DEF SdkStores, state, refs
<1>2. tasks[t].peer \in Peer /\ tasks[t].kind = "send" /\ tasks[t].net = 0
  BY <1>1 DEF ConvInv, TasksOK
<1>3. /\ sdk' \in [Net -> Message]
      /\ \E k \in 0..MaxNet : \A m \in Net : sdk'[m].state # "none" <=> m <= k
      /\ sdk[n].state = "none" /\ sdk'[n].state # "none"
      /\ sdk'[n].peer = tasks[t].peer /\ sdk'[n].body = t
      /\ \A m \in Net : m # n => sdk'[m] = sdk[m]
  BY <1>1, <1>2, StoreTakes
<1>4. /\ tasks' \in [Task -> TaskState]
      /\ \A u \in Task : /\ tasks'[u].kind = tasks[u].kind /\ tasks'[u].peer = tasks[u].peer
                         /\ tasks'[u].pc = IF u = t THEN "publishing" ELSE tasks[u].pc
                         /\ tasks'[u].net = IF u = t THEN n ELSE tasks[u].net
  BY <1>1, Bounds DEF ConvInv, TasksOK, TaskState, Await
<1>5. TasksOK(tasks')
  BY <1>1, <1>2, <1>4 DEF ConvInv, TasksOK
<1>6. \A u \in Task : tasks[u].net # 0 => tasks[u].net # n /\ tasks[u].net \in Net
  <2>1. TAKE u \in Task
  <2>2. tasks[u].net \in 0..MaxNet
    BY DEF ConvInv, TasksOK, TaskState
  <2>3. QED
    BY <1>3, <2>2, Bounds DEF ConvInv, StoreOK, Net
<1>7. StoreOK(sdk', tasks')
  <2>1. \A m \in Net : /\ sdk'[m].state # "none" => sdk'[m].peer \in Peer
                       /\ sdk'[m].body # Theirs =>
                              sdk'[m].body \in Task /\ tasks'[sdk'[m].body].net = m
    <3>1. TAKE m \in Net
    <3>2. CASE m = n
      BY <1>2, <1>3, <1>4, <3>2
    <3>3. CASE m # n
      <4>1. m # 0
        BY Bounds
      <4>2. QED
        BY <1>2, <1>3, <1>4, <3>3, <4>1 DEF ConvInv, StoreOK
    <3>4. QED
      BY <3>2, <3>3
  <2>2. \A u \in Task : /\ tasks'[u].pc = "publishing" => tasks'[u].net # 0
                        /\ tasks'[u].net # 0 => /\ sdk'[tasks'[u].net].state # "none"
                                                /\ sdk'[tasks'[u].net].body = u
    <3>1. TAKE u \in Task
    <3>2. CASE u = t
      BY <1>3, <1>4, <3>2, Bounds
    <3>3. CASE u # t
      BY <1>3, <1>4, <1>6, <3>3 DEF ConvInv, StoreOK
    <3>4. QED
      BY <3>2, <3>3
  <2>3. QED
    BY <1>3, <2>1, <2>2 DEF StoreOK
<1>8. ListOK(messages', sdk', tasks')
  <2>1. ListOK(messages, sdk, tasks)
    BY DEF ConvInv
  <2>2. \A u \in Task : tasks[u].kind = "send" =>
            tasks'[u].kind = "send" /\ (tasks'[u].pc = "ended" => tasks'[u].net = 0 \/ tasks[u].pc = "ended")
                                    /\ (tasks[u].net = 0 /\ tasks[u].pc = "ended" => tasks'[u].net = 0)
    BY <1>1, <1>4
  <2>3. \A m \in Net : sdk[m].state # "none" => sdk'[m].state # "none" /\ sdk'[m].body = sdk[m].body
    BY <1>3
  <2>4. ListOK(messages, sdk', tasks')
    BY <2>1, <2>2, <2>3, ListStays
  <2>5. messages' = messages
    BY <1>1
  <2>6. QED
    BY <2>4, <2>5
<1>9. AcksOK(acks', lastRead', sdk')
  BY <1>1, <1>3, AcksStay DEF ConvInv
<1>10. HookOK'
  BY <1>1 DEF ConvInv, HookOK
<1>11. LoadingEnds'
  BY <1>1, <1>4, SpinnerStays DEF ConvInv
<1>12. QED
  BY <1>5, <1>7, <1>8, <1>9, <1>10, <1>11 DEF ConvInv

LEMMA PeerStep ==
  ASSUME ConvInv, NEW n \in Net, NEW p \in Peer, PeerSends(n, p)
  PROVE  ConvInv'
<1>1. /\ UNCHANGED <<mounted, counterparty, client, isLoading, initError, wasBackground, runs>>
      /\ UNCHANGED <<dmRef, unsubRef, cancelledRef>>
      /\ UNCHANGED <<messages, tasks, streams, acks, lastRead>>
      /\ dms' = dms \cup {p} /\ NextNet(n)
  BY DEF PeerSends, state, refs
<1>2. PICK kind \in {"theirs", "receipt"} : Stored(n, "published", p, kind, Theirs)
  BY DEF PeerSends
<1>3. /\ sdk' \in [Net -> Message]
      /\ \E k \in 0..MaxNet : \A m \in Net : sdk'[m].state # "none" <=> m <= k
      /\ sdk[n].state = "none" /\ sdk'[n].state # "none"
      /\ sdk'[n].peer = p /\ sdk'[n].body = Theirs
      /\ \A m \in Net : m # n => sdk'[m] = sdk[m]
  BY <1>1, <1>2, StoreTakes
<1>4. \A m \in Net : sdk[m].state # "none" =>
          m # n /\ sdk'[m].state # "none" /\ sdk'[m].body = sdk[m].body /\ sdk'[m].peer = sdk[m].peer
  BY <1>3
<1>5. StoreOK(sdk', tasks')
  <2>1. \A m \in Net : /\ sdk'[m].state # "none" => sdk'[m].peer \in Peer
                       /\ sdk'[m].body # Theirs =>
                              sdk'[m].body \in Task /\ tasks[sdk'[m].body].net = m
    BY <1>3 DEF ConvInv, StoreOK
  <2>2. \A u \in Task : /\ tasks[u].pc = "publishing" => tasks[u].net # 0
                        /\ tasks[u].net # 0 => /\ sdk'[tasks[u].net].state # "none"
                                               /\ sdk'[tasks[u].net].body = u
    <3>1. TAKE u \in Task
    <3>2. tasks[u].net # 0 => tasks[u].net \in Net
      BY Bounds DEF ConvInv, TasksOK, TaskState, Net
    <3>3. QED
      BY <1>4, <3>2 DEF ConvInv, StoreOK
  <2>3. QED
    BY <1>1, <1>3, <2>1, <2>2 DEF StoreOK
<1>6. ListOK(messages', sdk', tasks')
  BY <1>1, <1>4, ListStays DEF ConvInv
<1>7. AcksOK(acks', lastRead', sdk')
  BY <1>1, <1>4, AcksStay DEF ConvInv
<1>8. HookOK'
  BY <1>1 DEF ConvInv, HookOK
<1>9. LoadingEnds'
  BY <1>1 DEF ConvInv, LoadingEnds
<1>10. QED
  BY <1>1, <1>5, <1>6, <1>7, <1>8, <1>9 DEF ConvInv

\* What is published was stored.
LEMMA PublishedStore ==
  ASSUME ConvInv, NEW n \in Net, sdk[n].state # "none", Published(n)
  PROVE  /\ StoreOK(sdk', tasks)
         /\ \A m \in Net : /\ sdk'[m].state # "none" <=> sdk[m].state # "none"
                           /\ sdk'[m].body = sdk[m].body /\ sdk'[m].peer = sdk[m].peer
<1>1. /\ sdk' \in [Net -> Message]
      /\ \A m \in Net : /\ sdk'[m].state # "none" <=> sdk[m].state # "none"
                        /\ sdk'[m].body = sdk[m].body /\ sdk'[m].peer = sdk[m].peer
  BY DEF ConvInv, StoreOK, Message, Published
<1>2. \A u \in Task : tasks[u].net # 0 => tasks[u].net \in Net
  BY Bounds DEF ConvInv, TasksOK, TaskState, Net
<1>3. StoreOK(sdk', tasks)
  <2>1. PICK k \in 0..MaxNet : \A m \in Net : sdk[m].state # "none" <=> m <= k
    BY DEF ConvInv, StoreOK
  <2>2. \E j \in 0..MaxNet : \A m \in Net : sdk'[m].state # "none" <=> m <= j
    BY <1>1, <2>1
  <2>3. QED
    BY <1>1, <1>2, <2>2 DEF ConvInv, StoreOK
<1>4. QED
  BY <1>1, <1>3

LEMMA SdkPublishesStep == ASSUME ConvInv, NEW n \in Net, SdkPublishes(n) PROVE ConvInv'
<1>1. /\ UNCHANGED <<mounted, counterparty, client, isLoading, initError, wasBackground, runs>>
      /\ UNCHANGED <<dmRef, unsubRef, cancelledRef>>
      /\ UNCHANGED <<messages, tasks, streams, dms, acks, lastRead>>
      /\ sdk[n].state = "stored" /\ Published(n)
  BY DEF SdkPublishes, state, refs
<1>2. /\ StoreOK(sdk', tasks)
      /\ \A m \in Net : /\ sdk'[m].state # "none" <=> sdk[m].state # "none"
                        /\ sdk'[m].body = sdk[m].body /\ sdk'[m].peer = sdk[m].peer
  BY <1>1, PublishedStore
<1>3. ListOK(messages', sdk', tasks')
  BY <1>1, <1>2, ListStays DEF ConvInv
<1>4. AcksOK(acks', lastRead', sdk')
  BY <1>1, <1>2, AcksStay DEF ConvInv
<1>5. HookOK' /\ LoadingEnds'
  BY <1>1 DEF ConvInv, HookOK, LoadingEnds
<1>6. QED
  BY <1>1, <1>2, <1>3, <1>4, <1>5 DEF ConvInv

\* The send settles with its stored message: its bubble takes the id, or goes.
LEMMA SettlesStep == ASSUME ConvInv, NEW t \in Task, PublishSettles(t) PROVE ConvInv'
<1> DEFINE n == tasks[t].net
<1>1. /\ UNCHANGED <<mounted, counterparty, client, isLoading, initError, wasBackground, runs>>
      /\ UNCHANGED <<dmRef, unsubRef, cancelledRef>>
      /\ UNCHANGED <<streams, dms, acks, lastRead>>
      /\ tasks[t].pc = "publishing" /\ MoveTo(t, "ended")
  BY DEF PublishSettles, state, refs
<1>2. /\ n \in Net /\ sdk[n].state # "none" /\ sdk[n].body = t /\ tasks[t].kind = "send"
  BY <1>1, Bounds DEF ConvInv, TasksOK, TaskState, StoreOK, Net
<1>3. /\ Published(n) \/ UNCHANGED sdk
      /\ \/ messages' = D!ReconcileSent(messages, LocalId(t), NetId(n), "sent")
         \/ messages' = D!ReconcileSent(messages, LocalId(t), NetId(n), "unpublished")
         \/ messages' = D!SetDelivery(messages, LocalId(t), "failed", NetId(n))
  BY DEF PublishSettles
<1> HIDE DEF n
<1>4. /\ StoreOK(sdk', tasks)
      /\ \A m \in Net : /\ sdk'[m].state # "none" <=> sdk[m].state # "none"
                        /\ sdk'[m].body = sdk[m].body /\ sdk'[m].peer = sdk[m].peer
  <2>1. CASE Published(n)
    BY <1>2, <2>1, PublishedStore
  <2>2. CASE UNCHANGED sdk
    BY <2>2 DEF ConvInv, StoreOK
  <2>3. QED
    BY <1>3, <2>1, <2>2
<1>5. Settled(messages, messages', t, n)
  BY <1>2, <1>3, SettlesList
<1>6. ListOK(messages', sdk, tasks) /\ \A b \in messages' : b.id # LocalId(t)
  BY <1>2, <1>5, ListSettled DEF ConvInv
<1>7. /\ tasks' \in [Task -> TaskState]
      /\ \A u \in Task : /\ tasks'[u].kind = tasks[u].kind /\ tasks'[u].peer = tasks[u].peer
                         /\ tasks'[u].net = tasks[u].net
                         /\ tasks'[u].pc = IF u = t THEN "ended" ELSE tasks[u].pc
  BY <1>1 DEF ConvInv, TasksOK, TaskState, MoveTo
<1>8. TasksOK(tasks')
  BY <1>1, <1>2, <1>7 DEF ConvInv, TasksOK
<1>9. StoreOK(sdk', tasks')
  BY <1>4, <1>7 DEF StoreOK
<1>10. ListOK(messages', sdk', tasks')
  <2>1. ASSUME NEW b \in messages', OfSend(b, tasks) PROVE OfSend(b, tasks')
    BY <1>6, <1>7, <2>1 DEF OfSend
  <2>2. ASSUME NEW b \in messages', OfStore(b, sdk) PROVE OfStore(b, sdk')
    BY <1>4, <2>2 DEF OfStore
  <2>3. QED
    BY <1>6, <2>1, <2>2 DEF ListOK
<1>11. AcksOK(acks', lastRead', sdk')
  BY <1>1, <1>4, AcksStay DEF ConvInv
<1>12. HookOK'
  BY <1>1 DEF ConvInv, HookOK
<1>13. LoadingEnds'
  <2>1. \A u \in Task : tasks[u].kind = "mount" => tasks'[u].pc = tasks[u].pc
    BY <1>2, <1>7
  <2>2. QED
    BY <1>1, <1>7, <2>1, SpinnerStays DEF ConvInv
<1>14. QED
  BY <1>8, <1>9, <1>10, <1>11, <1>12, <1>13 DEF ConvInv

LEMMA DeliversStep ==
  ASSUME ConvInv, NEW t \in Task, NEW n \in Net, StreamDelivers(t, n)
  PROVE  ConvInv'
<1>1. /\ UNCHANGED <<mounted, counterparty, client, isLoading, initError, wasBackground, runs>>
      /\ UNCHANGED <<dmRef, unsubRef, cancelledRef>>
      /\ UNCHANGED <<tasks, sdk, dms>>
      /\ sdk[n].state # "none" /\ Handles(n, sdk[n].peer)
      /\ streams' = [streams EXCEPT ![t] = @ \cup {n}]
  BY DEF StreamDelivers, state, refs
<1>2. streams' \in [Task -> SUBSET (0..MaxNet)]
  BY <1>1, Bounds DEF ConvInv, HookOK
<1>3. HookOK'
  BY <1>1, <1>2 DEF ConvInv, HookOK
<1>4. ListOK(messages', sdk, tasks)
  <2>1. \/ messages' = messages
        \/ messages' = MarkReadUpTo(messages, n)
        \/ messages' = D!MergeStreamed(messages, ToChatMessage(n, "published"))
    BY <1>1 DEF Handles
  <2>2. QED
    BY <1>1, <2>1, ListRead, ListMerged DEF ConvInv
<1>5. AcksOK(acks', lastRead', sdk)
  <2>1. UNCHANGED <<lastRead, acks>> \/ Read(sdk[n].peer, n)
    BY <1>1 DEF Handles
  <2>2. QED
    BY <1>1, <2>1, ReadAcks DEF ConvInv
<1>6. LoadingEnds'
  BY <1>1 DEF ConvInv, LoadingEnds
<1>7. QED
  BY <1>1, <1>3, <1>4, <1>5, <1>6 DEF ConvInv

LEMMA StepInv == ConvInv /\ [Next]_vars => ConvInv'
<1> SUFFICES ASSUME ConvInv, [Next]_vars PROVE ConvInv'
  OBVIOUS
<1>1. CASE UNCHANGED vars
  BY <1>1 DEF vars, state, refs, network, ConvInv, HookOK, LoadingEnds
<1>2. CASE Host
  BY <1>2, MountStep, UnmountStep, BackgroundStep, ForegroundStep DEF Host
<1>3. ASSUME NEW t \in Task, Continues(t) PROVE ConvInv'
  BY <1>3, LookupStep, HistoryStep, OpensStep, ReturnsStep, RejectsStep, CreateStep,
     SettlesStep, SdkStoresStep DEF Continues
<1>4. QED
  BY <1>1, <1>2, <1>3, SendStep, SdkPublishesStep, PeerStep, DeliversStep DEF Next

LEMMA AlwaysInv == Spec => []ConvInv
  BY InitInv, StepInv, PTL DEF Spec

-----------------------------------------------------------------------------
(* Theorems *)

\* Every variable of the hook, its tasks and the SDK keeps its type.
THEOREM TypeCorrect == Spec => []TypeOK
<1>1. ConvInv => TypeOK
  BY DEF ConvInv, HookOK, TasksOK, StoreOK, ListOK, AcksOK, TypeOK
<1>2. QED
  BY <1>1, AlwaysInv, PTL

\* History, resumes, streams, acks and failures never list an id twice.
THEOREM IdsStayUnique == Spec => []UniqueIds
<1>1. ConvInv => UniqueIds
  BY DEF ConvInv, ListOK, Unique, UniqueIds
<1>2. QED
  BY <1>1, AlwaysInv, PTL

\* A send whose task is over shows at most once: what settles it takes its local bubble off
\* the list together with the id, and a resume brings back only what history does not list
\* (deliveryState.ts reconcileSent, useConversation.ts resume).
THEOREM SettlesOnce == Spec => []SettledOnce
<1>1. ConvInv => SettledOnce
  <2> SUFFICES ASSUME ConvInv, NEW b \in messages, NEW c \in messages, b.body = c.body,
                      b.body # Theirs, tasks[b.body].pc = "ended"
               PROVE  b = c
    BY DEF SettledOnce
  <2> DEFINE Shows(a) == a.id = IF tasks[b.body].net = 0 THEN LocalId(b.body)
                                                         ELSE NetId(tasks[b.body].net)
  <2>1. ASSUME NEW a \in messages, a.body = b.body PROVE Shows(a)
    <3>1. CASE OfSend(a, tasks)
      BY <2>1, <3>1 DEF OfSend
    <3>2. CASE OfStore(a, sdk)
      <4>1. PICK n \in Net : a.id = NetId(n) /\ a.body = sdk[n].body
        BY <3>2 DEF OfStore
      <4>2. tasks[b.body].net = n /\ n # 0
        BY <2>1, <4>1, Bounds DEF ConvInv, StoreOK
      <4>3. QED
        BY <4>1, <4>2
    <3>3. QED
      BY <2>1, <3>1, <3>2 DEF ConvInv, ListOK
  <2>2. Shows(b) /\ Shows(c)
    BY <2>1
  <2>3. b.id = c.id
    BY <2>2
  <2>4. QED
    BY <2>3 DEF ConvInv, ListOK, Unique
<1>2. QED
  BY <1>1, AlwaysInv, PTL

\* At most one read receipt acknowledges a message: what is acknowledged advanced the
\* watermark of its thread, which never goes back (readState.ts, shouldSendReadReceipt).
THEOREM AcksOnce == Spec => []AckedOnce
<1>1. ConvInv => AckedOnce
  <2>1. ASSUME ConvInv, NEW n \in Net PROVE acks[n] <= 1
    <3>1. acks[n] \in 0..2 /\ (acks[n] # 0 => acks[n] = 1)
      BY <2>1 DEF ConvInv, AcksOK
    <3>2. QED
      BY <3>1
  <2>2. QED
    BY <2>1 DEF AckedOnce
<1>2. QED
  BY <1>1, AlwaysInv, PTL

\* The spinner is shown only while the client is coming up or the newest run is on its way.
THEOREM SpinnerHasRun == Spec => []LoadingEnds
<1>1. ConvInv => LoadingEnds
  BY DEF ConvInv
<1>2. QED
  BY <1>1, AlwaysInv, PTL


-----------------------------------------------------------------------------
(* Reading *)

\* Before the screen is mounted nothing runs, and once it was left the shared flag stays set.
NothingBefore ==
    ~mounted => /\ counterparty = NoPeer
                /\ cancelledRef \/ (dmRef = NoPeer /\ \A t \in Task : tasks[t].pc = "unused" /\ ~Open(t))

LEMMA NothingBeforeStep ==
  ASSUME NothingBefore, Next
  PROVE  NothingBefore'
<1> SUFFICES ASSUME ~mounted'
             PROVE  /\ counterparty' = NoPeer
                    /\ \/ cancelledRef'
                       \/ /\ dmRef' = NoPeer
                          /\ \A t \in Task : tasks'[t].pc = "unused" /\ ~(0 \in streams'[t])
  BY DEF NothingBefore, Open
<1>1. CASE Host
  <2>1. CASE Mount \/ ChangePeer \/ ClientTick
    BY <2>1 DEF Mount, ChangePeer, ClientTick, RunEffect
  <2>2. CASE Unmount
    BY <2>2 DEF Unmount
  <2>3. CASE Background \/ Foreground
    BY <2>3 DEF Background, Foreground
  <2>4. QED
    BY <1>1, <2>1, <2>2, <2>3 DEF Host
<1>2. ASSUME NEW u \in Task, Send(u) PROVE FALSE
  BY <1>2 DEF Send, state
<1>3. CASE \E u \in Task : Continues(u)
  <2>1. PICK u \in Task : Continues(u)
    BY <1>3
  <2>2. UNCHANGED <<mounted, counterparty, cancelledRef>> /\ tasks[u].pc # "unused"
    BY <2>1 DEF Continues, LookupReturns, HistoryReturns, StreamOpens, StreamReturns, Rejects,
                CreateReturns, PublishSettles, SdkStores, Await, state, refs
  <2>3. QED
    BY <2>2 DEF NothingBefore
<1>4. CASE \E u \in Task, n \in Net : StreamDelivers(u, n)
  BY <1>4 DEF StreamDelivers, NothingBefore, state, refs
<1>5. CASE \/ \E n \in Net : SdkPublishes(n)
           \/ \E n \in Net, p \in Peer : PeerSends(n, p)
  <2>1. UNCHANGED <<mounted, counterparty, dmRef, cancelledRef, tasks, streams>>
    BY <1>5 DEF SdkPublishes, PeerSends, state, refs
  <2>2. QED
    BY <2>1 DEF NothingBefore, Open
<1>6. QED
  BY <1>1, <1>2, <1>3, <1>4, <1>5 DEF Next

LEMMA NothingUnmounted ==
  ASSUME NothingBefore, ~mounted, NEW p \in Peer
  PROVE  Left(p)
<1>1. counterparty # p /\ NoPeer # p
  BY NoPeerAssumption DEF NothingBefore, NoPeerAssumption
<1>2. QED
  BY <1>1 DEF NothingBefore, Left, AtWork, Attaching

\* What keeps a thread left: no task or stream of it gets under way, and dmRef is not set to it.
LEMMA StaysLeft ==
  ASSUME NEW p \in Peer, Left(p), ~cancelledRef, counterparty' # p, dmRef' # p,
         \A t \in Task : AtWork(t, p)' => AtWork(t, p)
  PROVE  Left(p)'
  BY DEF Left

\* A new run of the effect for another counterparty starts nothing of the old thread.
LEMMA RunLeaves ==
  ASSUME ConvInv, NEW p \in Peer, NEW q \in Peer, NEW c, RunEffect(q, c), q # p,
         \A t \in Task : AtWork(t, p) => ~Attaching(t) /\ t = unsubRef
  PROVE  Left(p)'
<1>1. /\ counterparty' = q /\ dmRef' = NoPeer /\ NoPeer # p /\ streams' = CloseCurrent
  BY NoPeerAssumption DEF RunEffect, NoPeerAssumption
<1>2. \A t \in Task : tasks'[t] = tasks[t] \/ tasks'[t].peer = q
  BY DEF RunEffect, Started, ConvInv, TasksOK
<1>3. ASSUME NEW t \in Task, AtWork(t, p)' PROVE FALSE
  <2>1. tasks'[t] = tasks[t]
    BY <1>2, <1>3 DEF AtWork
  <2>2. 0 \in streams'[t] => 0 \in streams[t] /\ t # unsubRef
    BY <1>1, Bounds DEF CloseCurrent, Closed, ConvInv, HookOK
  <2>3. AtWork(t, p) /\ (Attaching(t) \/ t # unsubRef)
    BY <1>3, <2>1, <2>2 DEF AtWork, Attaching, Open
  <2>4. QED
    BY <2>3
<1>4. QED
  BY <1>1, <1>3 DEF Left

LEMMA HostLeaves ==
  ASSUME ConvInv, NEW p \in Peer, Left(p), ~cancelledRef, counterparty' # p, Host
  PROVE  Left(p)' /\ lastRead'[p] = lastRead[p]
<1>1. lastRead' = lastRead
  BY DEF Host, Mount, ChangePeer, ClientTick, RunEffect, Unmount, Background, Foreground, network
<1>2. ASSUME NEW q \in Peer, NEW c, RunEffect(q, c) PROVE Left(p)'
  BY <1>2, RunLeaves DEF Left, RunEffect
<1>3. CASE Unmount
  BY <1>1, <1>3 DEF Unmount, Left
<1>4. CASE Background
  <2>1. /\ dmRef' = dmRef /\ tasks' = tasks
        /\ \A t \in Task : 0 \in streams'[t] => 0 \in streams[t]
    BY <1>4 DEF Background, refs, Closed
  <2>2. \A t \in Task : AtWork(t, p)' => AtWork(t, p)
    BY <2>1 DEF AtWork, Attaching, Open
  <2>3. QED
    BY <1>1, <2>1, <2>2, StaysLeft DEF Left
<1>5. CASE Foreground
  <2>1. /\ dmRef' = dmRef /\ dmRef # p
        /\ \A t \in Task : 0 \in streams'[t] => 0 \in streams[t]
        /\ \A t \in Task : tasks'[t] = tasks[t] \/ tasks'[t].peer = dmRef
    BY <1>5 DEF Foreground, CloseCurrent, Closed, Started, Left, ConvInv, HookOK, TasksOK
  <2>2. \A t \in Task : AtWork(t, p)' => AtWork(t, p)
    BY <2>1 DEF AtWork, Attaching, Open
  <2>3. QED
    BY <1>1, <2>1, <2>2, StaysLeft
<1>6. CASE Mount \/ ChangePeer \/ ClientTick
  BY <1>1, <1>2, <1>6 DEF Mount, ChangePeer, ClientTick, ConvInv, HookOK
<1>7. QED
  BY <1>1, <1>3, <1>4, <1>5, <1>6 DEF Host

\* A task that goes on is not of the thread that was left, or it is past its attach.
LEMMA TaskLeaves ==
  ASSUME ConvInv, NEW p \in Peer, Left(p), ~cancelledRef, counterparty' # p,
         NEW t \in Task, Continues(t)
  PROVE  Left(p)' /\ lastRead'[p] = lastRead[p]
<1>1. /\ tasks \in [Task -> TaskState] /\ streams \in [Task -> SUBSET (0..MaxNet)]
      /\ lastRead \in [Peer -> 0..MaxNet] /\ tasks[t].pc # "unused"
  BY DEF ConvInv, HookOK, TasksOK, AcksOK, Continues, LookupReturns, HistoryReturns, StreamOpens,
         StreamReturns, Rejects, CreateReturns, PublishSettles, SdkStores, Await
<1>2. /\ \A u \in Task : ~AtWork(u, p)
      /\ dmRef # p /\ tasks[t].peer = p => ~Attaching(t)
  BY DEF Left, AtWork
<1>3. /\ \A u \in Task \ {t} : tasks'[u] = tasks[u] /\ streams'[u] = streams[u]
      /\ tasks'[t].peer = tasks[t].peer
  BY <1>1 DEF Continues, LookupReturns, HistoryReturns, StreamOpens, StreamReturns, Rejects,
              CreateReturns, PublishSettles, SdkStores, MoveTo, TaskState
<1>4. CASE tasks[t].peer # p
  <2>1. \A u \in Task : AtWork(u, p)' => AtWork(u, p)
    BY <1>3, <1>4 DEF AtWork, Attaching, Open
  <2>2. dmRef' \in {dmRef, tasks[t].peer}
    BY DEF Continues, LookupReturns, HistoryReturns, StreamOpens, StreamReturns, Rejects,
           CreateReturns, PublishSettles, SdkStores, refs
  <2>3. lastRead'[p] = lastRead[p]
    BY <1>1, <1>4 DEF Continues, LookupReturns, HistoryReturns, StreamOpens, StreamReturns, Rejects,
           CreateReturns, PublishSettles, SdkStores, network, Read
  <2>4. dmRef' # p
    BY <1>2, <1>4, <2>2 DEF Left
  <2>5. QED
    BY <2>1, <2>3, <2>4, StaysLeft
<1>5. CASE tasks[t].peer = p
  <2>1. ~Attaching(t) /\ ~Open(t)
    BY <1>2, <1>5 DEF AtWork
  <2>2. Rejects(t) \/ PublishSettles(t) \/ \E n \in Net : SdkStores(t, n)
    BY <2>1 DEF Attaching, Continues, LookupReturns, HistoryReturns, StreamOpens, StreamReturns,
                CreateReturns
  <2>3. /\ UNCHANGED <<dmRef, lastRead, streams>>
        /\ tasks'[t].pc \in {"ended", "publishing"}
    BY <1>1, <2>2 DEF Rejects, PublishSettles, SdkStores, MoveTo, refs, network, TaskState
  <2>4. \A u \in Task : AtWork(u, p)' => AtWork(u, p)
    BY <1>3, <2>1, <2>3 DEF AtWork, Attaching, Open
  <2>5. dmRef # p
    BY DEF Left
  <2>6. QED
    BY <2>3, <2>4, <2>5, StaysLeft
<1>6. QED
  BY <1>4, <1>5

\* Nor is a send, a stream that delivers, or anything the network does.
LEMMA OthersLeave ==
  ASSUME ConvInv, NEW p \in Peer, Left(p), ~cancelledRef, counterparty' # p,
         \/ \E t \in Task : Send(t)
         \/ \E n \in Net : SdkPublishes(n)
         \/ \E n \in Net, q \in Peer : PeerSends(n, q)
         \/ \E t \in Task, n \in Net : StreamDelivers(t, n)
  PROVE  Left(p)' /\ lastRead'[p] = lastRead[p]
<1>1. /\ tasks \in [Task -> TaskState] /\ streams \in [Task -> SUBSET (0..MaxNet)]
      /\ lastRead \in [Peer -> 0..MaxNet]
  BY DEF ConvInv, HookOK, TasksOK, AcksOK
<1>2. dmRef # p /\ counterparty # p /\ dmRef' = dmRef
  BY DEF Left, Send, SdkPublishes, PeerSends, StreamDelivers, refs
<1>3. ASSUME NEW t \in Task, Send(t) PROVE Left(p)' /\ lastRead'[p] = lastRead[p]
  <2>1. /\ UNCHANGED <<streams, lastRead>>
        /\ \A u \in Task : tasks'[u] = tasks[u] \/ tasks'[u].peer \in {dmRef, counterparty}
    BY <1>1, <1>3 DEF Send, Started, network
  <2>2. \A u \in Task : AtWork(u, p)' => AtWork(u, p)
    BY <1>2, <2>1 DEF AtWork, Attaching, Open
  <2>3. QED
    BY <1>2, <2>1, <2>2, StaysLeft
<1>4. ASSUME NEW t \in Task, NEW n \in Net, StreamDelivers(t, n)
      PROVE  Left(p)' /\ lastRead'[p] = lastRead[p]
  <2>1. tasks' = tasks /\ streams' = [streams EXCEPT ![t] = @ \cup {n}]
        /\ Open(t) /\ Handles(n, tasks[t].peer)
    BY <1>4 DEF StreamDelivers
  <2>2. tasks[t].peer # p
    BY <2>1 DEF Left, AtWork
  <2>3. lastRead'[p] = lastRead[p]
    BY <1>1, <2>1, <2>2 DEF Handles, Read
  <2>4. \A u \in Task : AtWork(u, p)' => AtWork(u, p)
    BY <1>1, <2>1, <2>2 DEF AtWork, Attaching, Open
  <2>5. QED
    BY <1>2, <2>3, <2>4, StaysLeft
<1>5. CASE \/ \E n \in Net : SdkPublishes(n)
           \/ \E n \in Net, q \in Peer : PeerSends(n, q)
  <2>1. UNCHANGED <<tasks, streams, lastRead>>
    BY <1>5 DEF SdkPublishes, PeerSends
  <2>2. \A u \in Task : AtWork(u, p)' => AtWork(u, p)
    BY <2>1 DEF AtWork, Attaching, Open
  <2>3. QED
    BY <1>2, <2>1, <2>2, StaysLeft
<1>6. QED
  BY <1>3, <1>4, <1>5

\* A history or a streamed message is read only where the flag is not set.
LEMMA CancelledReadsNothing ==
  ASSUME ConvInv, cancelledRef, Next
  PROVE  cancelledRef' /\ lastRead' = lastRead /\ counterparty' = counterparty
<1>1. ~mounted
  BY DEF ConvInv, HookOK
<1>2. CASE Host
  BY <1>1, <1>2 DEF Host, Mount, ChangePeer, ClientTick, Unmount, Background, Foreground
<1>3. ASSUME NEW t \in Task, Send(t) PROVE FALSE
  BY <1>1, <1>3 DEF Send
<1>4. CASE \E t \in Task : Continues(t)
  BY <1>4 DEF Continues, LookupReturns, HistoryReturns, StreamOpens, StreamReturns, Rejects,
              CreateReturns, PublishSettles, SdkStores, network, state, refs
<1>5. CASE \E t \in Task, n \in Net : StreamDelivers(t, n)
  BY <1>5 DEF StreamDelivers, Handles, state, refs
<1>6. CASE \/ \E n \in Net : SdkPublishes(n)
           \/ \E n \in Net, p \in Peer : PeerSends(n, p)
  BY <1>6 DEF SdkPublishes, PeerSends, state, refs
<1>7. QED
  BY <1>2, <1>3, <1>4, <1>5, <1>6 DEF Next

\* A change of counterparty or an unmount leaves a thread that is at rest.
LEMMA LeavesAtRest ==
  ASSUME ConvInv, NEW p \in Peer, Next, mounted', counterparty = p, counterparty' # p, AtRest(p)
  PROVE  Left(p)'
<1>1. CASE ChangePeer
  BY <1>1, RunLeaves DEF ChangePeer, AtRest
<1>2. CASE Mount
  <2>1. PICK q \in Peer : RunEffect(q, client)
    BY <1>2 DEF Mount
  <2>2. q # p
    BY <2>1 DEF RunEffect
  <2>3. QED
    BY <2>1, <2>2, RunLeaves DEF AtRest
<1>3. ASSUME ~ChangePeer, ~Mount PROVE counterparty' = counterparty
  <2>1. CASE Host
    BY <1>3, <2>1 DEF Host, ClientTick, RunEffect, Unmount, Background, Foreground
  <2>2. CASE \E t \in Task : Continues(t)
    BY <2>2 DEF Continues, LookupReturns, HistoryReturns, StreamOpens, StreamReturns, Rejects,
                CreateReturns, PublishSettles, SdkStores, state
  <2>3. CASE ~Host /\ ~\E t \in Task : Continues(t)
    BY <2>3 DEF Next, Send, SdkPublishes, PeerSends, StreamDelivers, state
  <2>4. QED
    BY <2>1, <2>2, <2>3
<1>4. QED
  BY <1>1, <1>2, <1>3

\* LeftStaysUnread for every instance: after an unmount the runs and the streams that are left
\* look at the shared flag, which nothing clears any more, before they move a watermark; after
\* a change of counterparty, which does clear it, none of a thread at rest is left to look.
THEOREM LeavesUnread == Spec => LeftStaysUnread
<1>1. Init => NothingBefore
  BY DEF Init, NothingBefore, Open, Unused, Closed
<1>2. NothingBefore /\ [Next]_vars => NothingBefore'
  <2>1. NothingBefore /\ UNCHANGED vars => NothingBefore'
    BY DEF NothingBefore, Open, vars, state, refs
  <2>2. QED
    BY <2>1, NothingBeforeStep
<1>3. ASSUME ConvInv, NothingBefore, NothingBefore', Next, NEW p \in Peer
      PROVE  /\ ~mounted' \/ (counterparty = p /\ counterparty' # p /\ AtRest(p)) => Left(p)'
             /\ Left(p) /\ counterparty' # p => Left(p)' /\ lastRead'[p] = lastRead[p]
  <2>1. ~mounted' => Left(p)'
    BY <1>3, NothingUnmounted, PTL
  <2>2. counterparty = p /\ counterparty' # p /\ AtRest(p) /\ mounted' => Left(p)'
    BY <1>3, LeavesAtRest
  <2>3. ASSUME Left(p), counterparty' # p, cancelledRef PROVE Left(p)' /\ lastRead'[p] = lastRead[p]
    BY <1>3, <2>3, CancelledReadsNothing DEF Left
  <2>4. ASSUME Left(p), counterparty' # p, ~cancelledRef PROVE Left(p)' /\ lastRead'[p] = lastRead[p]
    BY <1>3, <2>4, HostLeaves, TaskLeaves, OthersLeave DEF Next
  <2>5. QED
    BY <2>1, <2>2, <2>3, <2>4
<1>4. ConvInv /\ NothingBefore /\ NothingBefore' /\ [Next]_vars
        => [\A p \in Peer :
              /\ ~mounted' \/ (counterparty = p /\ counterparty' # p /\ AtRest(p)) => Left(p)'
              /\ Left(p) /\ counterparty' # p => Left(p)' /\ lastRead'[p] = lastRead[p]]_vars
  BY <1>3
<1>5. QED
  BY <1>1, <1>2, <1>4, AlwaysInv, PTL DEF Spec, LeftStaysUnread
=============================================================================
