-------------------------- MODULE ThreadSend_proofs --------------------------
(* Proofs about ThreadSend for every set of texts and files, every bound,   *)
(* every kind of SDK build, and whether or not bodies are distinct.         *)
EXTENDS ThreadSend, TLAPS

USE BoundAssumption DEF BoundAssumption

-----------------------------------------------------------------------------
(* Names *)

LEMMA IdFacts ==
  /\ \A k \in Op : LocalId(k) \in Id /\ IsLocalId(LocalId(k))
  /\ \A n \in Net : NetId(n) \in Id /\ ~IsLocalId(NetId(n)) /\ NetId(n) # NoId
  /\ \A n, m \in Net : NetId(n) = NetId(m) => n = m
  /\ \A k, j \in Op : LocalId(k) = LocalId(j) => k = j
  /\ \A k \in Op, n \in Net : LocalId(k) # NetId(n)
  /\ NoId \notin Id
  BY DEF Id, LocalId, NetId, IsLocalId, NoId, Op, Net

LEMMA IdCases ==
  ASSUME NEW id \in Id
  PROVE  (\E k \in Op : id = LocalId(k)) \/ (\E n \in Net : id = NetId(n))
  BY DEF Id

-----------------------------------------------------------------------------
(* What the operators of DeliveryState return: a list with unique ids, whose *)
(* bubbles were there before or are the one the operator speaks of.          *)

Unique(M) == \A b, c \in M : b.id = c.id => b = c

LEMMA MarkedResult ==
  ASSUME NEW M, M \subseteq Bubble, Unique(M),
         NEW id \in Id, NEW newId \in Id, NEW d \in Delivery,
         newId = id \/ ~Listed(M, newId)
  PROVE  /\ Marked(M, id, newId, d) \subseteq Bubble
         /\ Unique(Marked(M, id, newId, d))
         /\ \A c \in Marked(M, id, newId, d) :
               c \in M \/ (c.id = newId /\ c.delivery = d /\ Listed(M, id))
<1> DEFINE Mark(b) == IF b.id = id THEN [b EXCEPT !.id = newId, !.delivery = d] ELSE b
           R == Marked(M, id, newId, d)
<1>1. R = {Mark(b) : b \in M}
  BY DEF Marked
<1>2. \A b \in M : b.id = id => /\ Mark(b) \in Bubble
                                /\ Mark(b).id = newId
                                /\ Mark(b).delivery = d
  BY DEF Bubble
<1>3. \A b \in M : b.id # id => Mark(b) = b
  OBVIOUS
<1>4. R \subseteq Bubble
  BY <1>1, <1>2, <1>3
<1>5. Unique(R)
  <2> SUFFICES \A b, c \in M : Mark(b).id = Mark(c).id => Mark(b) = Mark(c)
    <3> HIDE DEF Mark
    <3> QED  BY <1>1 DEF Unique
  <2> TAKE b \in M, c \in M
  <2> HAVE Mark(b).id = Mark(c).id
  <2>1. CASE b.id = id /\ c.id = id
    BY <2>1 DEF Unique
  <2>2. CASE b.id # id /\ c.id # id
    BY <1>3, <2>2 DEF Unique
  <2>3. CASE b.id = id /\ c.id # id
    BY <1>2, <1>3, <2>3 DEF Listed
  <2>4. CASE b.id # id /\ c.id = id
    BY <1>2, <1>3, <2>4 DEF Listed
  <2>5. QED
    BY <2>1, <2>2, <2>3, <2>4
<1>6. \A c \in R : c \in M \/ (c.id = newId /\ c.delivery = d /\ Listed(M, id))
  BY <1>1, <1>2, <1>3 DEF Listed
<1>7. QED
  BY <1>4, <1>5, <1>6

LEMMA DiscardResult ==
  ASSUME NEW M, M \subseteq Bubble, Unique(M), NEW id
  PROVE  /\ DiscardMessage(M, id) \subseteq M
         /\ DiscardMessage(M, id) \subseteq Bubble
         /\ Unique(DiscardMessage(M, id))
  BY DEF DiscardMessage, Unique

LEMMA SetDeliveryResult ==
  ASSUME NEW M, M \subseteq Bubble, Unique(M),
         NEW id \in Id, NEW d \in Delivery, NEW newId \in Id \cup {NoId}
  PROVE  /\ SetDelivery(M, id, d, newId) \subseteq Bubble
         /\ Unique(SetDelivery(M, id, d, newId))
         /\ \A c \in SetDelivery(M, id, d, newId) :
               \/ c \in M
               \/ /\ c.id = (IF newId = NoId THEN id ELSE newId)
                  /\ c.delivery = d
                  /\ Listed(M, id)
<1>1. CASE newId \notin {NoId, id} /\ Listed(M, newId)
  BY <1>1, DiscardResult DEF SetDelivery
<1>2. CASE ~(newId \notin {NoId, id} /\ Listed(M, newId))
  <2> DEFINE key == IF newId = NoId THEN id ELSE newId
  <2>1. key \in Id /\ (key = id \/ ~Listed(M, key))
    BY <1>2
  <2>2. SetDelivery(M, id, d, newId) = Marked(M, id, key, d)
    BY <1>2 DEF SetDelivery
  <2> HIDE DEF key
  <2>3. /\ Marked(M, id, key, d) \subseteq Bubble
        /\ Unique(Marked(M, id, key, d))
        /\ \A c \in Marked(M, id, key, d) :
              c \in M \/ (c.id = key /\ c.delivery = d /\ Listed(M, id))
    BY <2>1, MarkedResult
  <2>4. QED
    BY <2>2, <2>3 DEF key
<1>3. QED
  BY <1>1, <1>2

LEMMA ReconcileSentResult ==
  ASSUME NEW M, M \subseteq Bubble, Unique(M),
         NEW id \in Id, NEW sentId \in Id, NEW d \in Delivery
  PROVE  /\ ReconcileSent(M, id, sentId, d) \subseteq Bubble
         /\ Unique(ReconcileSent(M, id, sentId, d))
         /\ \A c \in ReconcileSent(M, id, sentId, d) :
               c \in M \/ (c.id = sentId /\ c.delivery = d)
  BY MarkedResult, DiscardResult DEF ReconcileSent

LEMMA SettleRetryResult ==
  ASSUME NEW M, M \subseteq Bubble, Unique(M), NEW id \in Id, NEW d \in Delivery
  PROVE  /\ SettleRetry(M, id, d) \subseteq Bubble
         /\ Unique(SettleRetry(M, id, d))
         /\ \A c \in SettleRetry(M, id, d) :
               c \in M \/ (c.id = id /\ c.delivery = d /\ Listed(M, id))
<1>1. /\ SetDelivery(M, id, d, NoId) \subseteq Bubble
      /\ Unique(SetDelivery(M, id, d, NoId))
      /\ \A c \in SetDelivery(M, id, d, NoId) :
            c \in M \/ (c.id = id /\ c.delivery = d /\ Listed(M, id))
  BY SetDeliveryResult
<1>2. QED
  BY <1>1 DEF SettleRetry

LEMMA AttachUploadedResult ==
  ASSUME NEW M, M \subseteq Bubble, Unique(M), NEW id
  PROVE  /\ AttachUploaded(M, id) \subseteq Bubble
         /\ Unique(AttachUploaded(M, id))
         /\ \A c \in AttachUploaded(M, id) :
               \E b \in M : c.id = b.id /\ c.delivery = b.delivery
<1> DEFINE Up(b) == IF b.id = id /\ b.body \in File THEN [b EXCEPT !.uploaded = TRUE] ELSE b
<1>1. AttachUploaded(M, id) = {Up(b) : b \in M}
  BY DEF AttachUploaded
<1>2. \A b \in M : Up(b) \in Bubble /\ Up(b).id = b.id /\ Up(b).delivery = b.delivery
  BY DEF Bubble
<1> HIDE DEF Up
<1>3. QED
  BY <1>1, <1>2 DEF Unique

LEMMA MarkReadResult ==
  ASSUME NEW M, M \subseteq Bubble, Unique(M), NEW upToNs
  PROVE  /\ MarkReadUpTo(M, upToNs) \subseteq Bubble
         /\ Unique(MarkReadUpTo(M, upToNs))
         /\ \A c \in MarkReadUpTo(M, upToNs) :
               c \in M \/ \E b \in M : b.id = c.id /\ b.delivery \in {"none", "sent"}
<1> DEFINE Read(b) == IF b.delivery \in {"none", "sent"} /\ b.sentNs <= upToNs
                        THEN [b EXCEPT !.delivery = "read"] ELSE b
<1>1. MarkReadUpTo(M, upToNs) = {Read(b) : b \in M}
  BY DEF MarkReadUpTo
<1>2. \A b \in M : /\ Read(b) \in Bubble
                   /\ Read(b).id = b.id
                   /\ Read(b) = b \/ b.delivery \in {"none", "sent"}
  BY DEF Bubble, Delivery
<1> HIDE DEF Read
<1>3. QED
  BY <1>1, <1>2 DEF Unique

LEMMA MergeStreamedResult ==
  ASSUME NEW M, M \subseteq Bubble, Unique(M), NEW next \in Bubble
  PROVE  /\ MergeStreamed(M, next) \subseteq Bubble
         /\ Unique(MergeStreamed(M, next))
         /\ MergeStreamed(M, next) \subseteq M \cup {next}
<1>1. \A b \in M \ StandsInFor(M, next) : b.id # next.id
  BY DEF StandsInFor, Listed
<1>2. QED
  BY <1>1 DEF MergeStreamed, Unique

-----------------------------------------------------------------------------
(* The inductive invariant *)

\* A bubble that has an operation's or the SDK's name was given it by one, and shows as
\* sent, read or confirmed only when it was published.
Grounded(b) ==
    /\ \A k \in Op : b.id = LocalId(k) => ops[k].pc # "unused"
    /\ \A n \in Net : b.id = NetId(n) => sdk[n].state # "none"
    /\ b.delivery \in {"sent", "read", "none"} => \E n \in Net : b.id = NetId(n) /\ Published(n)

\* What a suspended operation will use when it resumes.
OpGrounded(k) ==
    /\ ops[k].pc # "unused" => ops[k].bubble \in Id /\ ops[k].body \in Body
    /\ ops[k].pc \in {"publishing", "sending"}
         => ops[k].net \in Net /\ sdk[ops[k].net].state # "none"
    /\ ops[k].pc = "republishing" => \E n \in Net : ops[k].bubble = NetId(n)

SdkTyped(n) == sdk[n].state # "none" => sdk[n].body \in Body

Inv ==
    /\ TypeOK
    /\ UniqueIds
    /\ \A b \in messages : Grounded(b)
    /\ \A k \in Op : OpGrounded(k)
    /\ \A n \in Net : SdkTyped(n)

\* What no step takes back.
Kept ==
    /\ \A n \in Net : sdk[n].state # "none" => sdk'[n].state # "none"
    /\ \A n \in Net : Published(n) => Published(n)'
    /\ \A k \in Op : ops[k].pc # "unused" => ops'[k].pc # "unused"

LEMMA StaysGrounded ==
  ASSUME Kept, NEW b, Grounded(b)
  PROVE  Grounded(b)'
  BY DEF Kept, Grounded

\* A bubble under the id of a grounded one, with a delivery that claims nothing, is grounded.
LEMMA ModestGrounded ==
  ASSUME Kept, NEW b, Grounded(b), NEW c, c.id = b.id,
         c.delivery \in {"pending", "unpublished", "failed"}
  PROVE  Grounded(c)'
  BY DEF Kept, Grounded

LEMMA StoredGrounded ==
  ASSUME NEW c, NEW n \in Net, c.id = NetId(n), (sdk[n].state # "none")',
         c.delivery \in {"sent", "read", "none"} => Published(n)'
  PROVE  Grounded(c)'
  BY IdFacts DEF Grounded

-----------------------------------------------------------------------------
(* Init and every step *)

LEMMA InitInv == Init => Inv
<1> SUFFICES ASSUME Init PROVE Inv
  OBVIOUS
<1>1. TypeOK
  <2>1. Unused \in Operation
    BY DEF Unused, Operation
  <2>2. 0 \in 0..MaxClock
    OBVIOUS
  <2>3. QED
    BY <2>1, <2>2 DEF Init, TypeOK, NotStored
<1>2. UniqueIds /\ \A b \in messages : Grounded(b)
  BY DEF Init, UniqueIds
<1>3. \A k \in Op : OpGrounded(k)
  BY DEF Init, OpGrounded, Unused
<1>4. \A n \in Net : SdkTyped(n)
  BY DEF Init, SdkTyped, NotStored
<1>5. QED
  BY <1>1, <1>2, <1>3, <1>4 DEF Inv

\* The outcome of an operation k that changes only its pc and the bubbles.
LEMMA FinishFacts ==
  ASSUME Inv, NEW k \in Op, NEW pc \in {"preparing", "storing", "done", "failed"},
         Finish(k, pc), ops[k].pc # "unused",
         \A n \in Net : sdk[n].state # "none" => sdk'[n].state # "none"
  PROVE  /\ ops' \in [Op -> Operation]
         /\ \A j \in Op : ops[j].pc # "unused" => ops'[j].pc # "unused"
         /\ \A j \in Op : OpGrounded(j)'
<1>1. ops \in [Op -> Operation]
  BY DEF Inv, TypeOK
<1>2. \A j \in Op : ops'[j] = IF j = k THEN [ops[k] EXCEPT !.pc = pc] ELSE ops[j]
  BY <1>1 DEF Finish
<1>3. ops' \in [Op -> Operation]
  BY <1>1 DEF Finish, Operation, Suspended
<1>4. ops'[k].pc = pc /\ ops'[k].bubble = ops[k].bubble /\ ops'[k].body = ops[k].body
  BY <1>1, <1>2 DEF Operation
<1>5. \A j \in Op : OpGrounded(j)'
  <2> TAKE j \in Op
  <2>1. CASE j = k
    BY <1>4, <2>1 DEF Inv, OpGrounded
  <2>2. CASE j # k
    BY <1>2, <2>2 DEF Inv, OpGrounded
  <2>3. QED
    BY <2>1, <2>2
<1>6. QED
  BY <1>2, <1>3, <1>4, <1>5

LEMMA PublishAllFacts ==
  ASSUME Inv, PublishAll
  PROVE  /\ sdk' \in [Net -> [state : {"none", "stored", "published", "echoed"},
                              body : Body \cup {NoBody}, sentNs : 0..MaxClock]]
         /\ \A n \in Net : sdk[n].state # "none" => sdk'[n].state # "none" /\ Published(n)'
         /\ \A n \in Net : Published(n) => Published(n)'
         /\ \A n \in Net : SdkTyped(n)'
<1>1. sdk \in [Net -> [state : {"none", "stored", "published", "echoed"},
                       body : Body \cup {NoBody}, sentNs : 0..MaxClock]]
  BY DEF Inv, TypeOK
<1>2. \A n \in Net : sdk'[n] = IF sdk[n].state = "stored"
                                 THEN [sdk[n] EXCEPT !.state = "published"] ELSE sdk[n]
  BY DEF PublishAll
<1>3. \A n \in Net : /\ sdk'[n].state = IF sdk[n].state = "stored" THEN "published"
                                          ELSE sdk[n].state
                     /\ sdk'[n].body = sdk[n].body
  BY <1>1, <1>2
<1>4. \A n \in Net : sdk[n].state \in {"none", "stored", "published", "echoed"}
  BY <1>1
<1>5. QED
  BY <1>1, <1>2, <1>3, <1>4 DEF Published, SdkTyped, Inv, PublishAll

\* One bubble of the operation reconciled with the message it sent.
LEMMA AckedStep ==
  ASSUME Inv, NEW k \in Op, ops[k].pc \in {"publishing", "sending"},
         NEW d \in {"sent", "unpublished"}, Acked(k, d),
         UNCHANGED <<clock, offers>>,
         PublishAll \/ (UNCHANGED sdk /\ d = "unpublished")
  PROVE  Inv'
<1>0. ops[k].net \in Net /\ sdk[ops[k].net].state # "none" /\ ops[k].bubble \in Id
  BY DEF Inv, OpGrounded
<1>1. PICK net \in Net : net = ops[k].net /\ sdk[net].state # "none" /\ ops[k].bubble \in Id
  BY <1>0
<1>2. /\ sdk' \in [Net -> [state : {"none", "stored", "published", "echoed"},
                           body : Body \cup {NoBody}, sentNs : 0..MaxClock]]
      /\ \A n \in Net : sdk[n].state # "none" => sdk'[n].state # "none"
      /\ \A n \in Net : Published(n) => Published(n)'
      /\ \A n \in Net : SdkTyped(n)'
      /\ d = "sent" => Published(net)'
  <2>1. CASE PublishAll
    BY <1>1, <2>1, PublishAllFacts
  <2>2. CASE UNCHANGED sdk /\ d = "unpublished"
    BY <2>2 DEF Inv, TypeOK, Published, SdkTyped
  <2>3. QED
    BY <2>1, <2>2
<1>3. Finish(k, "done") /\ UNCHANGED storedIds
  BY DEF Acked
<1>4. /\ ops' \in [Op -> Operation]
      /\ \A j \in Op : ops[j].pc # "unused" => ops'[j].pc # "unused"
      /\ \A j \in Op : OpGrounded(j)'
  BY <1>2, <1>3, FinishFacts
<1>5. Kept
  BY <1>2, <1>4 DEF Kept
<1>6. messages \subseteq Bubble /\ Unique(messages) /\ NetId(net) \in Id /\ d \in Delivery
  BY <1>1, IdFacts DEF Inv, TypeOK, UniqueIds, Unique, Delivery
<1>7. messages' = ReconcileSent(messages, ops[k].bubble, NetId(net), d)
  BY <1>1 DEF Acked
<1>8. /\ messages' \subseteq Bubble
      /\ Unique(messages')
      /\ \A c \in messages' : c \in messages \/ (c.id = NetId(net) /\ c.delivery = d)
  BY <1>1, <1>6, <1>7, ReconcileSentResult
<1>9. ASSUME NEW c \in messages' PROVE Grounded(c)'
  <2>1. CASE c \in messages
    BY <1>5, <2>1, StaysGrounded DEF Inv
  <2>2. CASE c.id = NetId(net) /\ c.delivery = d
    BY <1>1, <1>2, <2>2, StoredGrounded
  <2>3. QED
    BY <1>8, <2>1, <2>2
<1>10. TypeOK'
  BY <1>2, <1>3, <1>4, <1>8 DEF Inv, TypeOK
<1>11. QED
  BY <1>2, <1>4, <1>8, <1>9, <1>10 DEF Inv, UniqueIds, Unique

\* A failed operation's bubble, kept under the SDK's id when the error has one.
LEMMA FailsStep ==
  ASSUME Inv, NEW k \in Op, ops[k].pc # "unused", NEW messageId, Fails(k, messageId),
         \/ messageId = NoId
         \/ \E n \in Net : messageId = NetId(n) /\ sdk[n].state # "none",
         UNCHANGED <<sdk, clock, offers>>
  PROVE  Inv'
<1>1. Finish(k, "failed") /\ ops[k].bubble \in Id
  BY DEF Fails, Inv, OpGrounded
<1>2. /\ ops' \in [Op -> Operation]
      /\ \A j \in Op : ops[j].pc # "unused" => ops'[j].pc # "unused"
      /\ \A j \in Op : OpGrounded(j)'
  BY <1>1, FinishFacts
<1>3. Kept
  BY <1>2 DEF Kept, Published
<1>4. messageId \in Id \cup {NoId} /\ messages \subseteq Bubble /\ Unique(messages)
  BY IdFacts DEF Inv, TypeOK, UniqueIds, Unique
<1>5. messages' = SetDelivery(messages, ops[k].bubble, "failed", messageId)
  BY DEF Fails
<1>6. /\ messages' \subseteq Bubble
      /\ Unique(messages')
      /\ \A c \in messages' :
            \/ c \in messages
            \/ /\ c.id = (IF messageId = NoId THEN ops[k].bubble ELSE messageId)
               /\ c.delivery = "failed"
               /\ Listed(messages, ops[k].bubble)
  BY <1>1, <1>4, <1>5, SetDeliveryResult DEF Delivery
<1>7. ASSUME NEW c \in messages' PROVE Grounded(c)'
  <2>1. CASE c \in messages
    BY <1>3, <2>1, StaysGrounded DEF Inv
  <2>2. CASE /\ c.id = ops[k].bubble /\ c.delivery = "failed"
             /\ Listed(messages, ops[k].bubble)
    <3>1. PICK b \in messages : b.id = ops[k].bubble
      BY <2>2 DEF Listed
    <3>2. QED
      BY <1>3, <2>2, <3>1, ModestGrounded DEF Inv
  <2>3. CASE messageId # NoId /\ c.id = messageId /\ c.delivery = "failed"
    BY <2>3, StoredGrounded
  <2>4. QED
    BY <1>6, <2>1, <2>2, <2>3
<1>8. storedIds' \subseteq Id
  BY <1>4 DEF Fails, Inv, TypeOK
<1>9. TypeOK'
  BY <1>2, <1>6, <1>8 DEF Inv, TypeOK
<1>10. \A n \in Net : SdkTyped(n)'
  BY DEF Inv, SdkTyped
<1>11. QED
  BY <1>2, <1>6, <1>7, <1>9, <1>10 DEF Inv, UniqueIds, Unique

\* The steps that leave sdk, storedIds, clock and offers alone, given what they do to the
\* bubbles and the operations.
LEMMA QuietStep ==
  ASSUME Inv, UNCHANGED <<sdk, clock, offers>>, storedIds' \subseteq Id,
         ops' \in [Op -> Operation],
         \A j \in Op : ops[j].pc # "unused" => ops'[j].pc # "unused",
         \A j \in Op : OpGrounded(j)',
         messages' \subseteq Bubble, Unique(messages'),
         \A c \in messages' : Kept => Grounded(c)'
  PROVE  Inv'
<1>1. Kept
  BY DEF Kept, Published
<1>2. TypeOK'
  BY DEF Inv, TypeOK
<1>3. \A n \in Net : SdkTyped(n)'
  BY DEF Inv, SdkTyped
<1>4. QED
  BY <1>1, <1>2, <1>3 DEF Inv, UniqueIds, Unique

LEMMA SendStep ==
  ASSUME Inv, NEW k \in Op, NEW body \in Body, Send(k, body)
  PROVE  Inv'
<1> DEFINE b0 == [id |-> LocalId(k), body |-> body, sentNs |-> clock + 1,
                  delivery |-> "pending", uploaded |-> FALSE]
           o0 == [pc |-> IF body \in File THEN "uploading" ELSE "preparing",
                  bubble |-> LocalId(k), body |-> body, net |-> 0]
<1>1. clock + 1 \in 0..MaxClock /\ clock' = clock + 1
  BY DEF Send, Inv, TypeOK
<1>2. b0 \in Bubble
  BY <1>1, IdFacts DEF Bubble, Delivery
<1>3. o0 \in Operation /\ o0.pc \in {"uploading", "preparing"} /\ o0.bubble \in Id /\ o0.body \in Body
  BY IdFacts DEF Operation, Suspended
<1>4. ops[k].pc = "unused"
  <2>1. k <= k
    BY DEF Op
  <2>2. QED
    BY <2>1 DEF Send, NextOp
<1>5. messages' = messages \cup {b0} /\ ops' = [ops EXCEPT ![k] = o0]
  BY DEF Send
<1>6. b0.id = LocalId(k) /\ b0.delivery = "pending"
  OBVIOUS
<1> HIDE DEF b0, o0
<1>7. \A b \in messages : b.id # LocalId(k)
  BY <1>4 DEF Inv, Grounded
<1>8. messages' \subseteq Bubble /\ Unique(messages')
  BY <1>2, <1>5, <1>6, <1>7 DEF Inv, TypeOK, UniqueIds, Unique
<1>9. /\ ops' \in [Op -> Operation]
      /\ \A j \in Op : ops'[j] = IF j = k THEN o0 ELSE ops[j]
  BY <1>3, <1>5 DEF Inv, TypeOK
<1>10. UNCHANGED <<sdk, storedIds, offers>>
  BY DEF Send
<1>11. Kept
  BY <1>3, <1>9, <1>10 DEF Kept, Published
<1>12. \A j \in Op : OpGrounded(j)'
  BY <1>3, <1>9, <1>10 DEF Inv, OpGrounded
<1>13. ASSUME NEW c \in messages' PROVE Grounded(c)'
  <2>1. CASE c \in messages
    BY <1>11, <2>1, StaysGrounded DEF Inv
  <2>2. CASE c = b0
    <3>1. ops'[k].pc # "unused"
      BY <1>3, <1>9
    <3>2. QED
      BY <1>6, <2>2, <3>1, IdFacts DEF Grounded
  <2>3. QED
    BY <1>5, <2>1, <2>2
<1>14. TypeOK'
  BY <1>1, <1>8, <1>9, <1>10 DEF Inv, TypeOK
<1>15. \A n \in Net : SdkTyped(n)'
  BY <1>10 DEF Inv, SdkTyped
<1>16. QED
  BY <1>8, <1>12, <1>13, <1>14, <1>15 DEF Inv, UniqueIds, Unique

LEMMA RetryStep ==
  ASSUME Inv, NEW k \in Op, NEW b \in messages, RetryMessage(k, b)
  PROVE  Inv'
<1>1. b \in Bubble /\ b.id \in Id /\ b.body \in Body /\ Grounded(b)
  BY DEF Inv, TypeOK, Bubble
<1>2. PICK o0 \in Operation :
        /\ ops' = [ops EXCEPT ![k] = o0]
        /\ o0.pc \in {"republishing", "uploading", "preparing"}
        /\ o0.bubble \in Id /\ o0.body \in Body
        /\ o0.pc = "republishing" => \E n \in Net : o0.bubble = NetId(n)
  <2>1. \A pc \in {"republishing", "uploading", "preparing"} :
           LET o == [pc |-> pc, bubble |-> b.id, body |-> b.body, net |-> 0]
           IN  o \in Operation /\ o.pc = pc /\ o.bubble = b.id /\ o.body \in Body
    BY <1>1 DEF Operation, Suspended
  <2>2. \E pc \in {"republishing", "uploading", "preparing"} :
           /\ ops' = [ops EXCEPT ![k] = [pc |-> pc, bubble |-> b.id, body |-> b.body, net |-> 0]]
           /\ pc = "republishing" => ~IsLocalId(b.id)
    BY DEF RetryMessage, Held
  <2>3. ~IsLocalId(b.id) => \E n \in Net : b.id = NetId(n)
    BY <1>1, IdCases, IdFacts
  <2>4. QED
    BY <1>1, <2>1, <2>2, <2>3
<1>3. storedIds' \subseteq Id /\ UNCHANGED <<sdk, clock, offers>>
  BY <1>1 DEF RetryMessage, Inv, TypeOK
<1>4. messages' = SetDelivery(messages, b.id, "pending", NoId)
  BY DEF RetryMessage
<1>5. /\ messages' \subseteq Bubble
      /\ Unique(messages')
      /\ \A c \in messages' : c \in messages \/ (c.id = b.id /\ c.delivery = "pending")
  <2>1. messages \subseteq Bubble /\ Unique(messages) /\ "pending" \in Delivery
    BY DEF Inv, TypeOK, UniqueIds, Unique, Delivery
  <2>2. QED
    BY <1>1, <1>4, <2>1, SetDeliveryResult
<1>6. /\ ops' \in [Op -> Operation]
      /\ \A j \in Op : ops'[j] = IF j = k THEN o0 ELSE ops[j]
  BY <1>2 DEF Inv, TypeOK
<1>7. \A j \in Op : ops[j].pc # "unused" => ops'[j].pc # "unused"
  BY <1>2, <1>6
<1>8. \A j \in Op : OpGrounded(j)'
  BY <1>2, <1>3, <1>6 DEF Inv, OpGrounded
<1>9. ASSUME Kept, NEW c \in messages' PROVE Grounded(c)'
  <2>1. CASE c \in messages
    BY <1>9, <2>1, StaysGrounded DEF Inv
  <2>2. CASE c.id = b.id /\ c.delivery = "pending"
    BY <1>1, <1>9, <2>2, ModestGrounded
  <2>3. QED
    BY <1>5, <2>1, <2>2
<1>10. QED
  BY <1>3, <1>5, <1>6, <1>7, <1>8, <1>9, QuietStep

LEMMA DiscardStep ==
  ASSUME Inv, NEW b \in messages, DiscardFailed(b)
  PROVE  Inv'
<1>1. messages' \subseteq messages /\ messages' \subseteq Bubble /\ Unique(messages')
  BY DiscardResult DEF DiscardFailed, Inv, TypeOK, UniqueIds, Unique
<1>2. UNCHANGED <<storedIds, ops, sdk, clock, offers>>
  BY DEF DiscardFailed
<1>3. \A j \in Op : OpGrounded(j)'
  BY <1>2 DEF Inv, OpGrounded
<1>4. ASSUME Kept, NEW c \in messages' PROVE Grounded(c)'
  BY <1>1, <1>4, StaysGrounded DEF Inv
<1>5. QED
  BY <1>1, <1>2, <1>3, <1>4, QuietStep DEF Inv, TypeOK

\* The upload returned: the bubble keeps its id and its delivery.
LEMMA UploadReturnsStep ==
  ASSUME Inv, NEW k \in Op, UploadReturns(k)
  PROVE  Inv'
<1>1. Finish(k, "preparing") /\ ops[k].pc # "unused"
      /\ UNCHANGED <<storedIds, sdk, clock, offers>>
  BY DEF UploadReturns
<1>2. /\ ops' \in [Op -> Operation]
      /\ \A j \in Op : ops[j].pc # "unused" => ops'[j].pc # "unused"
      /\ \A j \in Op : OpGrounded(j)'
  BY <1>1, FinishFacts
<1>3. /\ messages' \subseteq Bubble
      /\ Unique(messages')
      /\ \A c \in messages' : \E b \in messages : c.id = b.id /\ c.delivery = b.delivery
  BY AttachUploadedResult DEF UploadReturns, Inv, TypeOK, UniqueIds, Unique
<1>4. ASSUME Kept, NEW c \in messages' PROVE Grounded(c)'
  <2>1. PICK b \in messages : c.id = b.id /\ c.delivery = b.delivery
    BY <1>3
  <2>2. Grounded(b)'
    BY <1>4, StaysGrounded DEF Inv
  <2>3. QED
    BY <2>1, <2>2 DEF Grounded
<1>5. QED
  BY <1>1, <1>2, <1>3, <1>4, QuietStep DEF Inv, TypeOK

LEMMA UploadRefusedStep ==
  ASSUME Inv, NEW k \in Op, UploadRefused(k)
  PROVE  Inv'
<1>1. Finish(k, "done") /\ ops[k].pc # "unused"
      /\ UNCHANGED <<storedIds, sdk, clock, offers>>
  BY DEF UploadRefused
<1>2. /\ ops' \in [Op -> Operation]
      /\ \A j \in Op : ops[j].pc # "unused" => ops'[j].pc # "unused"
      /\ \A j \in Op : OpGrounded(j)'
  BY <1>1, FinishFacts
<1>3. messages' \subseteq messages /\ messages' \subseteq Bubble /\ Unique(messages')
  BY DiscardResult DEF UploadRefused, Inv, TypeOK, UniqueIds, Unique
<1>4. ASSUME Kept, NEW c \in messages' PROVE Grounded(c)'
  BY <1>3, <1>4, StaysGrounded DEF Inv
<1>5. QED
  BY <1>1, <1>2, <1>3, <1>4, QuietStep DEF Inv, TypeOK

LEMMA PrepareReturnsStep ==
  ASSUME Inv, NEW k \in Op, PrepareReturns(k)
  PROVE  Inv'
<1>1. Finish(k, "storing") /\ ops[k].pc # "unused"
      /\ UNCHANGED <<messages, storedIds, sdk, clock, offers>>
  BY DEF PrepareReturns
<1>2. /\ ops' \in [Op -> Operation]
      /\ \A j \in Op : ops[j].pc # "unused" => ops'[j].pc # "unused"
      /\ \A j \in Op : OpGrounded(j)'
  BY <1>1, FinishFacts
<1>3. messages' \subseteq Bubble /\ Unique(messages')
  BY <1>1 DEF Inv, TypeOK, UniqueIds, Unique
<1>4. ASSUME Kept, NEW c \in messages' PROVE Grounded(c)'
  BY <1>1, <1>4, StaysGrounded DEF Inv
<1>5. QED
  BY <1>1, <1>2, <1>3, <1>4, QuietStep DEF Inv, TypeOK

\* A message enters the SDK's store, or one of the store changes its state.
LEMMA SdkChange ==
  ASSUME Inv, NEW n \in Net,
         NEW m \in [state : {"stored", "published", "echoed"}, body : Body,
                    sentNs : 0..MaxClock],
         sdk' = [sdk EXCEPT ![n] = m],
         Published(n) => m.state \in {"published", "echoed"}
  PROVE  /\ sdk' \in [Net -> [state : {"none", "stored", "published", "echoed"},
                              body : Body \cup {NoBody}, sentNs : 0..MaxClock]]
         /\ \A i \in Net : sdk[i].state # "none" => sdk'[i].state # "none"
         /\ \A i \in Net : Published(i) => Published(i)'
         /\ \A i \in Net : SdkTyped(i)'
         /\ sdk'[n] = m
<1>1. sdk \in [Net -> [state : {"none", "stored", "published", "echoed"},
                       body : Body \cup {NoBody}, sentNs : 0..MaxClock]]
  BY DEF Inv, TypeOK
<1>2. \A i \in Net : sdk'[i] = IF i = n THEN m ELSE sdk[i]
  BY <1>1
<1>3. m \in [state : {"none", "stored", "published", "echoed"},
             body : Body \cup {NoBody}, sentNs : 0..MaxClock]
  OBVIOUS
<1>4. QED
  BY <1>1, <1>2, <1>3 DEF Published, SdkTyped, Inv

LEMMA SdkStoresStep ==
  ASSUME Inv, NEW k \in Op, NEW n \in Net, SdkStores(k, n)
  PROVE  Inv'
<1> DEFINE m == [state |-> "stored", body |-> ops[k].body, sentNs |-> clock]
           pc == IF offers = "prepare" THEN "publishing" ELSE "sending"
           o0 == [ops[k] EXCEPT !.pc = pc, !.net = n]
<1>1. /\ ops[k].pc = "storing" /\ ops[k].body \in Body /\ ops[k].bubble \in Id
      /\ ops[k] \in Operation
  BY DEF SdkStores, Inv, OpGrounded, TypeOK
<1>2. sdk[n].state = "none"
  <2>1. n <= n
    BY DEF Net
  <2>2. QED
    BY <2>1 DEF SdkStores, NextNet
<1>3. /\ m \in [state : {"stored", "published", "echoed"}, body : Body, sentNs : 0..MaxClock]
      /\ m.state = "stored"
  BY <1>1 DEF Inv, TypeOK
<1>4. /\ o0 \in Operation /\ o0.pc \in {"publishing", "sending"} /\ o0.net = n
      /\ o0.bubble \in Id /\ o0.body \in Body
  <2>1. pc \in {"publishing", "sending"} /\ n \in 0..MaxNet
    BY DEF Net
  <2> HIDE DEF pc
  <2>2. QED
    BY <1>1, <2>1 DEF Operation, Suspended
<1>5. sdk' = [sdk EXCEPT ![n] = m]
  BY DEF SdkStores, Stored
<1>6. ops' = [ops EXCEPT ![k] = o0]
  BY DEF SdkStores
<1>7. UNCHANGED <<messages, storedIds, clock, offers>>
  BY DEF SdkStores
<1> HIDE DEF m, o0
<1>8. ~Published(n)
  BY <1>2 DEF Published
<1>9. /\ sdk' \in [Net -> [state : {"none", "stored", "published", "echoed"},
                           body : Body \cup {NoBody}, sentNs : 0..MaxClock]]
      /\ \A i \in Net : sdk[i].state # "none" => sdk'[i].state # "none"
      /\ \A i \in Net : Published(i) => Published(i)'
      /\ \A i \in Net : SdkTyped(i)'
      /\ sdk'[n] = m
  BY <1>3, <1>5, <1>8, SdkChange
<1>10. /\ ops' \in [Op -> Operation]
       /\ \A j \in Op : ops'[j] = IF j = k THEN o0 ELSE ops[j]
  BY <1>4, <1>6 DEF Inv, TypeOK
<1>11. Kept
  BY <1>4, <1>9, <1>10 DEF Kept
<1>12. ASSUME NEW j \in Op PROVE OpGrounded(j)'
  <2>1. CASE j = k
    BY <1>3, <1>4, <1>9, <1>10, <2>1 DEF OpGrounded
  <2>2. CASE j # k
    BY <1>9, <1>10, <2>2 DEF Inv, OpGrounded
  <2>3. QED
    BY <2>1, <2>2
<1>13. \A b \in messages' : Grounded(b)'
  BY <1>7, <1>11, StaysGrounded DEF Inv
<1>14. TypeOK'
  BY <1>7, <1>9, <1>10 DEF Inv, TypeOK
<1>15. QED
  BY <1>7, <1>9, <1>12, <1>13, <1>14 DEF Inv, UniqueIds

\* The steps that change only the SDK's messages, and perhaps the clock.
LEMMA SdkOnlyStep ==
  ASSUME Inv, NEW n \in Net,
         NEW m \in [state : {"stored", "published", "echoed"}, body : Body,
                    sentNs : 0..MaxClock],
         sdk' = [sdk EXCEPT ![n] = m],
         Published(n) => m.state \in {"published", "echoed"},
         clock' \in 0..MaxClock,
         UNCHANGED <<messages, storedIds, ops, offers>>
  PROVE  Inv'
<1>1. /\ sdk' \in [Net -> [state : {"none", "stored", "published", "echoed"},
                           body : Body \cup {NoBody}, sentNs : 0..MaxClock]]
      /\ \A i \in Net : sdk[i].state # "none" => sdk'[i].state # "none"
      /\ \A i \in Net : Published(i) => Published(i)'
      /\ \A i \in Net : SdkTyped(i)'
  BY SdkChange
<1>2. Kept
  BY <1>1 DEF Kept
<1>3. \A b \in messages' : Grounded(b)'
  BY <1>2, StaysGrounded DEF Inv
<1>4. \A j \in Op : OpGrounded(j)'
  BY <1>1 DEF Inv, OpGrounded
<1>5. TypeOK'
  BY <1>1 DEF Inv, TypeOK
<1>6. QED
  BY <1>1, <1>3, <1>4, <1>5 DEF Inv, UniqueIds

LEMMA EchoStep ==
  ASSUME Inv, NEW n \in Net, Echo(n)
  PROVE  Inv'
<1> DEFINE m == [sdk[n] EXCEPT !.state = "echoed"]
           next == [id |-> NetId(n), body |-> sdk[n].body, sentNs |-> sdk[n].sentNs,
                    delivery |-> "none", uploaded |-> sdk[n].body \in File]
<1>1. /\ sdk[n].state = "published" /\ sdk[n].body \in Body /\ sdk[n].sentNs \in 0..MaxClock
      /\ sdk[n] \in [state : {"none", "stored", "published", "echoed"},
                     body : Body \cup {NoBody}, sentNs : 0..MaxClock]
  BY DEF Echo, Inv, TypeOK, SdkTyped
<1>2. /\ m \in [state : {"stored", "published", "echoed"}, body : Body, sentNs : 0..MaxClock]
      /\ m.state = "echoed"
  BY <1>1
<1>3. next \in Bubble /\ next.id = NetId(n) /\ next.delivery = "none"
  <2>1. NetId(n) \in Id /\ (sdk[n].body \in File) \in BOOLEAN
    BY IdFacts
  <2>2. QED
    BY <1>1, <2>1 DEF Bubble, Delivery
<1>4. sdk' = [sdk EXCEPT ![n] = m] /\ UNCHANGED <<storedIds, ops, clock, offers>>
  BY DEF Echo
<1>5. messages' = MergeStreamed(messages, next)
  BY DEF Echo
<1> HIDE DEF m, next
<1>6. /\ sdk' \in [Net -> [state : {"none", "stored", "published", "echoed"},
                           body : Body \cup {NoBody}, sentNs : 0..MaxClock]]
      /\ \A i \in Net : sdk[i].state # "none" => sdk'[i].state # "none"
      /\ \A i \in Net : Published(i) => Published(i)'
      /\ \A i \in Net : SdkTyped(i)'
      /\ sdk'[n] = m
  BY <1>2, <1>4, SdkChange
<1>7. Kept
  BY <1>4, <1>6 DEF Kept
<1>8. /\ messages' \subseteq Bubble
      /\ Unique(messages')
      /\ messages' \subseteq messages \cup {next}
  BY <1>3, <1>5, MergeStreamedResult DEF Inv, TypeOK, UniqueIds, Unique
<1>9. ASSUME NEW c \in messages' PROVE Grounded(c)'
  <2>1. CASE c \in messages
    BY <1>7, <2>1, StaysGrounded DEF Inv
  <2>2. CASE c = next
    <3>1. (sdk[n].state # "none")' /\ Published(n)'
      BY <1>2, <1>6 DEF Published
    <3>2. QED
      BY <1>3, <2>2, <3>1, StoredGrounded
  <2>3. QED
    BY <1>8, <2>1, <2>2
<1>10. \A j \in Op : OpGrounded(j)'
  BY <1>4, <1>6 DEF Inv, OpGrounded
<1>11. TypeOK'
  BY <1>4, <1>6, <1>8 DEF Inv, TypeOK
<1>12. QED
  BY <1>6, <1>8, <1>9, <1>10, <1>11 DEF Inv, UniqueIds, Unique

LEMMA ReceiptStep ==
  ASSUME Inv, NEW upToNs, ReceiptArrives(upToNs)
  PROVE  Inv'
<1>1. UNCHANGED <<storedIds, ops, sdk, clock, offers>>
  BY DEF ReceiptArrives
<1>2. /\ messages' \subseteq Bubble
      /\ Unique(messages')
      /\ \A c \in messages' :
            c \in messages \/ \E b \in messages : b.id = c.id /\ b.delivery \in {"none", "sent"}
  BY MarkReadResult DEF ReceiptArrives, Inv, TypeOK, UniqueIds, Unique
<1>3. \A j \in Op : OpGrounded(j)'
  BY <1>1 DEF Inv, OpGrounded
<1>4. ASSUME Kept, NEW c \in messages' PROVE Grounded(c)'
  <2>1. CASE c \in messages
    BY <1>4, <2>1, StaysGrounded DEF Inv
  <2>2. CASE \E b \in messages : b.id = c.id /\ b.delivery \in {"none", "sent"}
    <3>1. PICK b \in messages : b.id = c.id /\ b.delivery \in {"none", "sent"}
      BY <2>2
    <3>2. Grounded(b)' /\ \E n \in Net : b.id = NetId(n) /\ Published(n)'
      BY <1>4, <3>1, StaysGrounded DEF Inv, Grounded, Kept
    <3>3. QED
      BY <3>1, <3>2 DEF Grounded
  <2>3. QED
    BY <1>2, <2>1, <2>2
<1>5. QED
  BY <1>1, <1>2, <1>3, <1>4, QuietStep DEF Inv, TypeOK

LEMMA RepublishSettlesStep ==
  ASSUME Inv, NEW k \in Op, RepublishSettles(k)
  PROVE  Inv'
<1>1. /\ ops[k].pc # "unused" /\ ops[k].bubble \in Id
      /\ Finish(k, "done") /\ UNCHANGED <<storedIds, clock, offers>>
  BY DEF RepublishSettles, Inv, OpGrounded
<1>2. PICK d \in {"sent", "unpublished", "failed"} :
        /\ messages' = SettleRetry(messages, ops[k].bubble, d)
        /\ PublishAll \/ (UNCHANGED sdk /\ d # "sent")
  BY DEF RepublishSettles
<1>3. messages \subseteq Bubble /\ Unique(messages) /\ d \in Delivery
  BY DEF Inv, TypeOK, UniqueIds, Unique, Delivery
<1>4. /\ messages' \subseteq Bubble
      /\ Unique(messages')
      /\ \A c \in messages' :
            \/ c \in messages
            \/ c.id = ops[k].bubble /\ c.delivery = d /\ Listed(messages, ops[k].bubble)
  BY <1>1, <1>2, <1>3, SettleRetryResult
<1>5. /\ sdk' \in [Net -> [state : {"none", "stored", "published", "echoed"},
                           body : Body \cup {NoBody}, sentNs : 0..MaxClock]]
      /\ \A n \in Net : sdk[n].state # "none"
            => sdk'[n].state # "none" /\ (d = "sent" => Published(n)')
      /\ \A n \in Net : Published(n) => Published(n)'
      /\ \A n \in Net : SdkTyped(n)'
  <2>1. CASE PublishAll
    BY <2>1, PublishAllFacts
  <2>2. CASE UNCHANGED sdk /\ d # "sent"
    BY <2>2 DEF Inv, TypeOK, Published, SdkTyped
  <2>3. QED
    BY <1>2, <2>1, <2>2
<1>6. /\ ops' \in [Op -> Operation]
      /\ \A j \in Op : ops[j].pc # "unused" => ops'[j].pc # "unused"
      /\ \A j \in Op : OpGrounded(j)'
  BY <1>1, <1>5, FinishFacts
<1>7. Kept
  BY <1>5, <1>6 DEF Kept
<1>8. ASSUME NEW c \in messages' PROVE Grounded(c)'
  <2>1. CASE c \in messages
    BY <1>7, <2>1, StaysGrounded DEF Inv
  <2>2. CASE c.id = ops[k].bubble /\ c.delivery = d /\ Listed(messages, ops[k].bubble)
    <3>1. PICK b \in messages : b.id = c.id
      BY <2>2 DEF Listed
    <3>2. Grounded(b)
      BY DEF Inv
    <3>3. CASE d \in {"unpublished", "failed"}
      BY <1>7, <2>2, <3>1, <3>2, <3>3, ModestGrounded
    <3>4. CASE d = "sent"
      <4>1. PICK n \in Net : c.id = NetId(n)
        BY <2>2 DEF RepublishSettles, Inv, OpGrounded
      <4>2. QED
        BY <1>5, <2>2, <3>1, <3>2, <4>1, StoredGrounded DEF Grounded
    <3>5. QED
      BY <3>3, <3>4
  <2>3. QED
    BY <1>4, <2>1, <2>2
<1>9. TypeOK'
  BY <1>1, <1>4, <1>5, <1>6 DEF Inv, TypeOK
<1>10. QED
  BY <1>4, <1>5, <1>6, <1>8, <1>9 DEF Inv, UniqueIds, Unique

LEMMA SettlesStep ==
  ASSUME Inv, NEW k \in Op, Settles(k)
  PROVE  Inv'
<1>1. CASE UploadReturns(k)
  BY <1>1, UploadReturnsStep
<1>2. CASE UploadRefused(k)
  BY <1>2, UploadRefusedStep
<1>3. CASE PrepareReturns(k)
  BY <1>3, PrepareReturnsStep
<1>4. CASE FailsUnstored(k)
  BY <1>4, FailsStep DEF FailsUnstored
<1>5. CASE \E n \in Net : SdkStores(k, n)
  BY <1>5, SdkStoresStep
<1>6. \A n \in Net : n = ops[k].net /\ ops[k].pc \in {"publishing", "sending"}
                       => sdk[n].state # "none"
  BY DEF Inv, OpGrounded
<1>7. ops[k].pc \in {"publishing", "sending"} => ops[k].net \in Net
  BY DEF Inv, OpGrounded
<1>8. CASE PublishSettles(k)
  <2>1. ops[k].pc = "publishing" /\ UNCHANGED <<clock, offers>>
    BY <1>8 DEF PublishSettles
  <2>2. CASE PublishAll /\ Acked(k, "sent")
    BY <2>1, <2>2, AckedStep
  <2>3. CASE UNCHANGED sdk /\ Acked(k, "unpublished")
    BY <2>1, <2>3, AckedStep
  <2>4. CASE UNCHANGED sdk /\ Fails(k, NetId(ops[k].net))
    BY <1>6, <1>7, <2>1, <2>4, FailsStep
  <2>5. QED
    BY <1>8, <2>2, <2>3, <2>4 DEF PublishSettles
<1>9. CASE PublishTimesOut(k)
  <2>1. /\ ops[k].pc = "publishing" /\ Acked(k, "unpublished") /\ UNCHANGED sdk
        /\ UNCHANGED <<clock, offers>>
    BY <1>9 DEF PublishTimesOut
  <2>2. QED
    BY <2>1, AckedStep
<1>10. CASE SendSettles(k)
  <2>1. ops[k].pc = "sending" /\ UNCHANGED <<clock, offers>>
    BY <1>10 DEF SendSettles
  <2>2. CASE PublishAll /\ Acked(k, "sent")
    BY <2>1, <2>2, AckedStep
  <2>3. CASE UNCHANGED sdk /\ Acked(k, "unpublished")
    BY <2>1, <2>3, AckedStep
  <2>4. CASE UNCHANGED sdk /\ Fails(k, NetId(ops[k].net))
    BY <1>6, <1>7, <2>1, <2>4, FailsStep
  <2>5. CASE UNCHANGED sdk /\ Fails(k, NoId)
    BY <2>1, <2>5, FailsStep
  <2>6. QED
    BY <1>10, <2>2, <2>3, <2>4, <2>5 DEF SendSettles
<1>11. CASE RepublishSettles(k)
  BY <1>11, RepublishSettlesStep
<1>12. QED
  BY <1>1, <1>2, <1>3, <1>4, <1>5, <1>8, <1>9, <1>10, <1>11 DEF Settles

LEMMA EnvironmentStep ==
  ASSUME Inv, Environment
  PROVE  Inv'
<1>1. ASSUME NEW n \in Net, SdkPublishes(n) PROVE Inv'
  <2> DEFINE m == [sdk[n] EXCEPT !.state = "published"]
  <2>1. sdk[n].state = "stored" /\ sdk[n].body \in Body
    BY <1>1 DEF SdkPublishes, Inv, SdkTyped
  <2>2. /\ m \in [state : {"stored", "published", "echoed"}, body : Body, sentNs : 0..MaxClock]
        /\ m.state = "published"
    BY <2>1 DEF Inv, TypeOK
  <2>3. /\ sdk' = [sdk EXCEPT ![n] = m]
        /\ UNCHANGED <<messages, storedIds, ops, clock, offers>>
    BY <1>1 DEF SdkPublishes
  <2> HIDE DEF m
  <2>4. clock' \in 0..MaxClock
    BY <2>3 DEF Inv, TypeOK
  <2>5. QED
    BY <2>2, <2>3, <2>4, SdkOnlyStep
<1>2. ASSUME NEW n \in Net, NEW body \in Body, OtherDeviceSends(n, body) PROVE Inv'
  <2> DEFINE m == [state |-> "published", body |-> body, sentNs |-> clock + 1]
  <2>1. clock + 1 \in 0..MaxClock /\ clock' = clock + 1
    BY <1>2 DEF OtherDeviceSends, Inv, TypeOK
  <2>2. /\ m \in [state : {"stored", "published", "echoed"}, body : Body, sentNs : 0..MaxClock]
        /\ m.state = "published"
    BY <2>1
  <2>3. sdk' = [sdk EXCEPT ![n] = m] /\ UNCHANGED <<messages, storedIds, ops, offers>>
    BY <1>2 DEF OtherDeviceSends, Stored
  <2> HIDE DEF m
  <2>4. QED
    BY <2>1, <2>2, <2>3, SdkOnlyStep
<1>3. ASSUME NEW n \in Net, Echo(n) PROVE Inv'
  BY <1>3, EchoStep
<1>4. ASSUME NEW upToNs \in 0..MaxClock, ReceiptArrives(upToNs) PROVE Inv'
  BY <1>4, ReceiptStep
<1>5. QED
  BY <1>1, <1>2, <1>3, <1>4 DEF Environment

LEMMA StepInv == Inv /\ [Next]_vars => Inv'
<1> SUFFICES ASSUME Inv, [Next]_vars PROVE Inv'
  OBVIOUS
<1>1. CASE User
  BY <1>1, SendStep, RetryStep, DiscardStep DEF User
<1>2. CASE \E k \in Op : Settles(k)
  BY <1>2, SettlesStep
<1>3. CASE Environment
  BY <1>3, EnvironmentStep
<1>4. CASE UNCHANGED vars
  <2>1. UNCHANGED <<messages, storedIds, ops, sdk, clock, offers>>
    BY <1>4 DEF vars
  <2>2. /\ \A b \in messages : Grounded(b)'
        /\ \A k \in Op : OpGrounded(k)'
        /\ \A n \in Net : SdkTyped(n)'
    BY <2>1 DEF Inv, Grounded, OpGrounded, SdkTyped, Published
  <2>3. QED
    BY <2>1, <2>2 DEF Inv, TypeOK, UniqueIds
<1>5. QED
  BY <1>1, <1>2, <1>3, <1>4 DEF Next

LEMMA AlwaysInv == Spec => []Inv
  BY InitInv, StepInv, PTL DEF Spec

-----------------------------------------------------------------------------
(* Theorems *)

\* Every variable of the send side keeps its type.
THEOREM TypeCorrect == Spec => []TypeOK
<1>1. Inv => TypeOK
  BY DEF Inv
<1>2. QED
  BY <1>1, AlwaysInv, PTL

\* reconcileSent, setDelivery's rekey, settleRetry and mergeStreamed never list an id
\* twice, in whatever order acks, failures, retries and echoes come.
THEOREM IdsStayUnique == Spec => []UniqueIds
<1>1. Inv => UniqueIds
  BY DEF Inv
<1>2. QED
  BY <1>1, AlwaysInv, PTL

\* A bubble shows as sent, read or confirmed only when its message was published.
THEOREM SentMeansPublished == Spec => []ShownSentIsPublished
<1>1. Inv => ShownSentIsPublished
  BY DEF Inv, Grounded, ShownSentIsPublished
<1>2. QED
  BY <1>1, AlwaysInv, PTL

-----------------------------------------------------------------------------
(* With prepareMessage: what a retry may work on.                           *)

\* An operation at work on a message that the SDK does not have yet, or has not answered for.
PreStore(k) == ops[k].pc \in {"uploading", "preparing", "storing"}
Active(k) == PreStore(k) \/ ops[k].pc = "publishing"

\* A send works on a local bubble; every stored message that failed is known as stored, so
\* that its retry republishes.
SendsLocal == \A k \in Op : Active(k) => IsLocalId(ops[k].bubble)
NeverSends == \A k \in Op : ops[k].pc # "sending"
FailedIsStored == \A b \in messages : b.delivery = "failed" /\ ~IsLocalId(b.id) => b.id \in storedIds
RepublishesStored == \A k \in Op : ops[k].pc = "republishing" => ops[k].bubble \in storedIds
LocalIsOpen == \A b \in messages : IsLocalId(b.id) => b.delivery \in {"pending", "failed"}

PrepInv == offers = "prepare" =>
             SendsLocal /\ NeverSends /\ FailedIsStored /\ RepublishesStored /\ LocalIsOpen

\* Finish changes one operation's pc and nothing else of any operation.
LEMMA FinishExact ==
  ASSUME Inv, NEW k \in Op, NEW pc, Finish(k, pc)
  PROVE  \A j \in Op : /\ ops'[j].pc = IF j = k THEN pc ELSE ops[j].pc
                       /\ ops'[j].bubble = ops[j].bubble
                       /\ ops'[j].body = ops[j].body
                       /\ ops'[j].net = ops[j].net
<1>1. \A j \in Op : ops[j] \in Operation /\ ops \in [Op -> Operation]
  BY DEF Inv, TypeOK
<1>2. \A j \in Op : ops'[j] = IF j = k THEN [ops[k] EXCEPT !.pc = pc] ELSE ops[j]
  BY <1>1 DEF Finish
<1>3. QED
  BY <1>1, <1>2 DEF Operation

\* The operation that a send or a retry starts.
LEMMA StartExact ==
  ASSUME Inv, NEW k \in Op, NEW o, ops' = [ops EXCEPT ![k] = o]
  PROVE  \A j \in Op : ops'[j] = IF j = k THEN o ELSE ops[j]
  BY DEF Inv, TypeOK

\* A retry resends only a failed bubble that the SDK never had.
LEMMA RetryWork ==
  ASSUME Inv, PrepInv, offers = "prepare", NEW k \in Op, NEW b \in messages,
         RetryMessage(k, b)
  PROVE  /\ ops[k].pc = "unused"
         /\ b.id \in Id /\ b.body \in Body
         /\ \/ /\ ops' = [ops EXCEPT ![k] = [pc |-> "republishing", bubble |-> b.id,
                                             body |-> b.body, net |-> 0]]
               /\ storedIds' = storedIds \cup {b.id}
               /\ ~IsLocalId(b.id) /\ ~Confirmed(b)
            \/ /\ ops' = [ops EXCEPT ![k] =
                    [pc |-> IF b.body \in File /\ ~b.uploaded THEN "uploading" ELSE "preparing",
                     bubble |-> b.id, body |-> b.body, net |-> 0]]
               /\ storedIds' = storedIds
               /\ IsLocalId(b.id) /\ b.delivery = "failed"
<1>1. ops[k].pc = "unused"
  <2>1. k <= k
    BY DEF Op
  <2>2. QED
    BY <2>1 DEF RetryMessage, NextOp
<1>2. b.id \in Id /\ b.body \in Body
  BY DEF Inv, TypeOK, Bubble
<1>3. b.delivery = "failed" /\ ~Held(b) => IsLocalId(b.id)
  BY DEF PrepInv, FailedIsStored, Held
<1>4. Held(b) => ~IsLocalId(b.id) /\ ~Confirmed(b)
  BY DEF Held, Confirmed
<1>5. QED
  BY <1>1, <1>2, <1>3, <1>4 DEF RetryMessage

LEMMA PrepInit == Init => PrepInv
  BY DEF Init, PrepInv, SendsLocal, NeverSends, FailedIsStored, RepublishesStored,
         LocalIsOpen, Active, PreStore, Unused

\* What a step may do to bubbles and operations without touching PrepInv.
LEMMA PrepStays ==
  ASSUME PrepInv, offers = "prepare", offers' = offers, storedIds \subseteq storedIds',
         \A j \in Op : Active(j)' => IsLocalId(ops'[j].bubble),
         \A j \in Op : ops'[j].pc # "sending",
         \A j \in Op : ops'[j].pc = "republishing" => ops'[j].bubble \in storedIds',
         \A c \in messages' :
            \/ c \in messages
            \/ /\ c.delivery = "failed" /\ ~IsLocalId(c.id) => c.id \in storedIds'
               /\ IsLocalId(c.id) => c.delivery \in {"pending", "failed"}
  PROVE  PrepInv'
  BY DEF PrepInv, SendsLocal, NeverSends, FailedIsStored, RepublishesStored, LocalIsOpen

\* The steps that finish or suspend an operation.
LEMMA PrepFinish ==
  ASSUME Inv, PrepInv, offers = "prepare", offers' = offers, storedIds \subseteq storedIds',
         NEW k \in Op, NEW pc \in {"preparing", "storing", "done", "failed"}, Finish(k, pc),
         pc \in {"preparing", "storing"} => Active(k),
         \A c \in messages' :
            \/ c \in messages
            \/ /\ c.delivery = "failed" /\ ~IsLocalId(c.id) => c.id \in storedIds'
               /\ IsLocalId(c.id) => c.delivery \in {"pending", "failed"}
  PROVE  PrepInv'
<1>1. \A j \in Op : /\ ops'[j].pc = IF j = k THEN pc ELSE ops[j].pc
                    /\ ops'[j].bubble = ops[j].bubble
  BY FinishExact
<1>2. \A j \in Op : Active(j)' => Active(j)
  BY <1>1 DEF Active, PreStore
<1>3. \A j \in Op : Active(j)' => IsLocalId(ops'[j].bubble)
  BY <1>1, <1>2 DEF PrepInv, SendsLocal
<1>4. \A j \in Op : ops'[j].pc # "sending"
  BY <1>1 DEF PrepInv, NeverSends
<1>5. \A j \in Op : ops'[j].pc = "republishing" => ops'[j].bubble \in storedIds'
  BY <1>1 DEF PrepInv, RepublishesStored
<1>6. QED
  BY <1>3, <1>4, <1>5, PrepStays

-----------------------------------------------------------------------------
(* What each operator of DeliveryState makes of each bubble: it keeps the   *)
(* body, and every bubble it returns comes from one of the list.            *)

LEMMA MarkedDerives ==
  ASSUME NEW M, M \subseteq Bubble, NEW id \in Id, NEW newId \in Id, NEW d \in Delivery
  PROVE  /\ \A c \in Marked(M, id, newId, d) : \E b \in M :
               /\ c.body = b.body /\ c.uploaded = b.uploaded
               /\ \/ c = b /\ b.id # id
                  \/ b.id = id /\ c.id = newId /\ c.delivery = d
         /\ \A b \in M : \E c \in Marked(M, id, newId, d) :
               \/ c = b /\ b.id # id
               \/ b.id = id /\ c.id = newId /\ c.delivery = d
         /\ (\A b, c \in M : b.body = c.body => b = c)
              => \A b, c \in Marked(M, id, newId, d) : b.body = c.body => b = c
<1> DEFINE Mark(b) == IF b.id = id THEN [b EXCEPT !.id = newId, !.delivery = d] ELSE b
<1>1. Marked(M, id, newId, d) = {Mark(b) : b \in M}
  BY DEF Marked
<1>2. \A b \in M : /\ Mark(b).body = b.body /\ Mark(b).uploaded = b.uploaded
                   /\ \/ Mark(b) = b /\ b.id # id
                      \/ b.id = id /\ Mark(b).id = newId /\ Mark(b).delivery = d
  BY DEF Bubble
<1> HIDE DEF Mark
<1>3. QED
  BY <1>1, <1>2

LEMMA AttachDerives ==
  ASSUME NEW M, M \subseteq Bubble, NEW id
  PROVE  /\ \A c \in AttachUploaded(M, id) : \E b \in M :
               /\ c.id = b.id /\ c.body = b.body /\ c.delivery = b.delivery
               /\ b.uploaded => c.uploaded
               /\ b.id = id /\ b.body \in File => c.uploaded
         /\ \A b \in M : \E c \in AttachUploaded(M, id) : c.id = b.id /\ c.delivery = b.delivery
         /\ (\A b, c \in M : b.body = c.body => b = c)
              => \A b, c \in AttachUploaded(M, id) : b.body = c.body => b = c
<1> DEFINE Up(b) == IF b.id = id /\ b.body \in File THEN [b EXCEPT !.uploaded = TRUE] ELSE b
<1>1. AttachUploaded(M, id) = {Up(b) : b \in M}
  BY DEF AttachUploaded
<1>2. \A b \in M : /\ Up(b).id = b.id /\ Up(b).body = b.body /\ Up(b).delivery = b.delivery
                   /\ b.uploaded => Up(b).uploaded
                   /\ b.id = id /\ b.body \in File => Up(b).uploaded
  BY DEF Bubble
<1> HIDE DEF Up
<1>3. QED
  BY <1>1, <1>2

LEMMA MarkReadDerives ==
  ASSUME NEW M, M \subseteq Bubble, NEW upToNs
  PROVE  /\ \A c \in MarkReadUpTo(M, upToNs) : \E b \in M :
               /\ c.id = b.id /\ c.body = b.body /\ c.uploaded = b.uploaded
               /\ c = b \/ (b.delivery \in {"none", "sent"} /\ c.delivery = "read")
         /\ \A b \in M : \E c \in MarkReadUpTo(M, upToNs) :
               /\ c.id = b.id
               /\ c = b \/ (b.delivery \in {"none", "sent"} /\ c.delivery = "read")
         /\ (\A b, c \in M : b.body = c.body => b = c)
              => \A b, c \in MarkReadUpTo(M, upToNs) : b.body = c.body => b = c
<1> DEFINE Read(b) == IF b.delivery \in {"none", "sent"} /\ b.sentNs <= upToNs
                        THEN [b EXCEPT !.delivery = "read"] ELSE b
<1>1. MarkReadUpTo(M, upToNs) = {Read(b) : b \in M}
  BY DEF MarkReadUpTo
<1>2. \A b \in M : /\ Read(b).id = b.id /\ Read(b).body = b.body /\ Read(b).uploaded = b.uploaded
                   /\ \/ Read(b) = b
                      \/ b.delivery \in {"none", "sent"} /\ Read(b).delivery = "read"
  BY DEF Bubble
<1> HIDE DEF Read
<1>3. QED
  BY <1>1, <1>2

-----------------------------------------------------------------------------
(* Every step keeps PrepInv.                                                *)

LEMMA PrepUser ==
  ASSUME Inv, PrepInv, offers = "prepare", User
  PROVE  PrepInv'
<1>1. ASSUME NEW k \in Op, NEW body \in Body, Send(k, body) PROVE PrepInv'
  <2> DEFINE o == [pc |-> IF body \in File THEN "uploading" ELSE "preparing",
                   bubble |-> LocalId(k), body |-> body, net |-> 0]
  <2>0. ops' = [ops EXCEPT ![k] = o]
    BY <1>1 DEF Send
  <2>2. o.pc \in {"uploading", "preparing"} /\ IsLocalId(o.bubble)
    BY IdFacts
  <2>3. \A c \in messages' : c \in messages \/ (c.delivery = "pending" /\ c.id = LocalId(k))
    BY <1>1 DEF Send
  <2>4. offers' = offers /\ storedIds' = storedIds
    BY <1>1 DEF Send
  <2> HIDE DEF o
  <2>1. \A j \in Op : ops'[j] = IF j = k THEN o ELSE ops[j]
    BY <2>0, StartExact
  <2>5. \A j \in Op : Active(j)' => IsLocalId(ops'[j].bubble)
    BY <2>1, <2>2 DEF PrepInv, SendsLocal, Active, PreStore
  <2>6. QED
    BY <2>1, <2>2, <2>3, <2>4, <2>5, PrepStays DEF PrepInv, NeverSends, RepublishesStored
<1>2. ASSUME NEW k \in Op, NEW b \in messages, RetryMessage(k, b) PROVE PrepInv'
  <2>1. PICK o :
          /\ ops' = [ops EXCEPT ![k] = o]
          /\ o.pc \in {"republishing", "uploading", "preparing"}
          /\ o.pc = "republishing" => o.bubble \in storedIds'
          /\ o.pc # "republishing" => IsLocalId(o.bubble)
    <3> DEFINE r(pc) == [pc |-> pc, bubble |-> b.id, body |-> b.body, net |-> 0]
    <3>1. \A pc : r(pc).pc = pc /\ r(pc).bubble = b.id
      OBVIOUS
    <3>2. \E pc \in {"republishing", "uploading", "preparing"} :
             /\ ops' = [ops EXCEPT ![k] = r(pc)]
             /\ pc = "republishing" => b.id \in storedIds'
             /\ pc # "republishing" => IsLocalId(b.id)
      BY <1>2, RetryWork
    <3> HIDE DEF r
    <3>3. QED
      BY <3>1, <3>2
  <2>2. \A j \in Op : ops'[j] = IF j = k THEN o ELSE ops[j]
    BY <2>1, StartExact
  <2>3. b.id \in Id /\ storedIds \subseteq storedIds' /\ offers' = offers
    BY <1>2, RetryWork DEF RetryMessage
  <2>4. \A c \in messages' : c \in messages \/ c.delivery = "pending"
    <3>1. messages \subseteq Bubble /\ Unique(messages) /\ "pending" \in Delivery
      BY DEF Inv, TypeOK, UniqueIds, Unique, Delivery
    <3>2. QED
      BY <1>2, <2>3, <3>1, SetDeliveryResult DEF RetryMessage
  <2>5. \A j \in Op : Active(j)' => IsLocalId(ops'[j].bubble)
    BY <2>1, <2>2 DEF PrepInv, SendsLocal, Active, PreStore
  <2>6. QED
    BY <2>1, <2>2, <2>3, <2>4, <2>5, PrepStays DEF PrepInv, NeverSends, RepublishesStored
<1>3. ASSUME NEW b \in messages, DiscardFailed(b) PROVE PrepInv'
  <2>1. messages' \subseteq messages
    BY <1>3 DEF DiscardFailed, DiscardMessage
  <2>2. UNCHANGED <<storedIds, ops, offers>>
    BY <1>3 DEF DiscardFailed
  <2>3. QED
    BY <2>1, <2>2, PrepStays
       DEF PrepInv, SendsLocal, NeverSends, RepublishesStored, Active, PreStore
<1>4. QED
  BY <1>1, <1>2, <1>3 DEF User

LEMMA PrepSettles ==
  ASSUME Inv, PrepInv, offers = "prepare", NEW k \in Op, Settles(k)
  PROVE  PrepInv'
<1>1. /\ messages \subseteq Bubble /\ Unique(messages)
      /\ ops[k].pc # "unused" => ops[k].bubble \in Id
      /\ Active(k) => IsLocalId(ops[k].bubble)
      /\ ops[k].pc = "publishing" => ops[k].net \in Net
  BY DEF Inv, TypeOK, UniqueIds, Unique, OpGrounded, PrepInv, SendsLocal
<1>2. CASE UploadReturns(k)
  <2>1. /\ Finish(k, "preparing") /\ Active(k) /\ offers' = offers /\ storedIds' = storedIds
        /\ messages' = AttachUploaded(messages, ops[k].bubble)
    BY <1>2 DEF UploadReturns, Active, PreStore
  <2>2. ASSUME NEW c \in messages'
        PROVE  /\ c.delivery = "failed" /\ ~IsLocalId(c.id) => c.id \in storedIds'
               /\ IsLocalId(c.id) => c.delivery \in {"pending", "failed"}
    <3>1. PICK b \in messages : c.id = b.id /\ c.delivery = b.delivery
      BY <1>1, <2>1, AttachDerives
    <3>2. QED
      BY <2>1, <3>1 DEF PrepInv, FailedIsStored, LocalIsOpen
  <2>3. QED
    BY <2>1, <2>2, PrepFinish
<1>3. CASE UploadRefused(k)
  <2>1. messages' \subseteq messages
    BY <1>3 DEF UploadRefused, DiscardMessage
  <2>2. QED
    BY <1>3, <2>1, PrepFinish DEF UploadRefused
<1>4. CASE PrepareReturns(k)
  BY <1>4, PrepFinish DEF PrepareReturns, Active, PreStore
<1>5. ASSUME NEW messageId \in Id \cup {NoId}, Fails(k, messageId), Active(k),
             offers' = offers, messageId # NoId => ~IsLocalId(messageId)
      PROVE  PrepInv'
  <2>1. \A c \in messages' :
           \/ c \in messages
           \/ /\ c.id = (IF messageId = NoId THEN ops[k].bubble ELSE messageId)
              /\ c.delivery = "failed"
    <3>1. ops[k].bubble \in Id /\ "failed" \in Delivery
      BY <1>1, <1>5 DEF Active, PreStore, Delivery
    <3>2. QED
      BY <1>1, <1>5, <3>1, SetDeliveryResult DEF Fails
  <2>2. QED
    BY <1>1, <1>5, <2>1, PrepFinish DEF Fails
<1>6. ASSUME NEW d \in {"sent", "unpublished"}, Acked(k, d), ops[k].pc = "publishing",
             offers' = offers
      PROVE  PrepInv'
  <2>1. PICK net \in Net : net = ops[k].net
    BY <1>1, <1>6
  <2>2. \A c \in messages' : c \in messages \/ (c.id = NetId(net) /\ c.delivery = d)
    BY <1>1, <1>6, <2>1, IdFacts, ReconcileSentResult DEF Acked, Delivery
  <2>3. ~IsLocalId(NetId(net))
    BY IdFacts
  <2>4. QED
    BY <1>6, <2>2, <2>3, PrepFinish DEF Acked
<1>7. CASE FailsUnstored(k)
  BY <1>5, <1>7 DEF FailsUnstored, Active, PreStore
<1>8. CASE \E n \in Net : SdkStores(k, n)
  <2>1. PICK n \in Net : SdkStores(k, n)
    BY <1>8
  <2> DEFINE o == [ops[k] EXCEPT !.pc = "publishing", !.net = n]
  <2>2. ops' = [ops EXCEPT ![k] = o]
    BY <2>1 DEF SdkStores
  <2>3. o.pc = "publishing" /\ o.bubble = ops[k].bubble
    BY DEF Inv, TypeOK, Operation
  <2> HIDE DEF o
  <2>4. \A j \in Op : ops'[j] = IF j = k THEN o ELSE ops[j]
    BY <2>2, StartExact
  <2>5. UNCHANGED <<messages, storedIds, offers>> /\ Active(k)
    BY <2>1 DEF SdkStores, Active, PreStore
  <2>6. \A j \in Op : Active(j)' => IsLocalId(ops'[j].bubble)
    BY <2>3, <2>4, <2>5 DEF PrepInv, SendsLocal, Active, PreStore
  <2>7. QED
    BY <2>3, <2>4, <2>5, <2>6, PrepStays DEF PrepInv, NeverSends, RepublishesStored
<1>9. \A n \in Net : NetId(n) \in Id /\ ~IsLocalId(NetId(n))
  BY IdFacts
<1>10. CASE PublishSettles(k)
  BY <1>1, <1>5, <1>6, <1>9, <1>10 DEF PublishSettles, Active
<1>11. CASE PublishTimesOut(k)
  BY <1>6, <1>11 DEF PublishTimesOut
<1>12. CASE SendSettles(k)
  BY <1>12 DEF SendSettles, PrepInv, NeverSends
<1>13. CASE RepublishSettles(k)
  <2>1. PICK d \in {"sent", "unpublished", "failed"} :
          messages' = SettleRetry(messages, ops[k].bubble, d)
    BY <1>13 DEF RepublishSettles
  <2>2. /\ Finish(k, "done") /\ offers' = offers /\ storedIds' = storedIds
        /\ ops[k].bubble \in Id /\ ops[k].bubble \in storedIds /\ ~IsLocalId(ops[k].bubble)
    BY <1>1, <1>13, <1>9 DEF RepublishSettles, PrepInv, RepublishesStored, Inv, OpGrounded
  <2>3. \A c \in messages' : c \in messages \/ c.id = ops[k].bubble
    BY <1>1, <2>1, <2>2, SettleRetryResult DEF Delivery
  <2>4. QED
    BY <2>2, <2>3, PrepFinish
<1>14. QED
  BY <1>2, <1>3, <1>4, <1>7, <1>8, <1>10, <1>11, <1>12, <1>13 DEF Settles

LEMMA PrepEnvironment ==
  ASSUME Inv, PrepInv, offers = "prepare", Environment
  PROVE  PrepInv'
<1>1. UNCHANGED <<storedIds, ops, offers>>
  BY DEF Environment, SdkPublishes, OtherDeviceSends, Echo, ReceiptArrives
<1>2. ASSUME NEW c \in messages'
      PROVE  \/ c \in messages
             \/ /\ c.delivery = "failed" /\ ~IsLocalId(c.id) => c.id \in storedIds'
                /\ IsLocalId(c.id) => c.delivery \in {"pending", "failed"}
  <2>1. CASE UNCHANGED messages
    BY <2>1
  <2>2. ASSUME NEW n \in Net, Echo(n)
        PROVE  c \in messages \/ (c.id = NetId(n) /\ c.delivery = "none")
    BY <2>2 DEF Echo, MergeStreamed
  <2>3. ASSUME NEW upToNs, ReceiptArrives(upToNs)
        PROVE  \/ c \in messages
               \/ c.delivery = "read" /\ ~IsLocalId(c.id)
    <3>1. PICK b \in messages :
            /\ c.id = b.id
            /\ c = b \/ (b.delivery \in {"none", "sent"} /\ c.delivery = "read")
      BY <2>3, MarkReadDerives DEF ReceiptArrives, Inv, TypeOK
    <3>2. QED
      BY <3>1 DEF PrepInv, LocalIsOpen
  <2>4. QED
    BY <2>1, <2>2, <2>3, IdFacts DEF Environment, SdkPublishes, OtherDeviceSends
<1>3. QED
  BY <1>1, <1>2, PrepStays
     DEF PrepInv, SendsLocal, NeverSends, RepublishesStored, Active, PreStore

LEMMA OffersFixed == [Next]_vars => offers' = offers
  BY DEF Next, vars, User, Send, RetryMessage, DiscardFailed, Settles, UploadReturns,
         UploadRefused, PrepareReturns, FailsUnstored, SdkStores, PublishSettles,
         PublishTimesOut, SendSettles, RepublishSettles, Environment, SdkPublishes,
         OtherDeviceSends, Echo, ReceiptArrives

LEMMA PrepStep == Inv /\ PrepInv /\ [Next]_vars => PrepInv'
<1> SUFFICES ASSUME Inv, PrepInv, [Next]_vars PROVE PrepInv'
  OBVIOUS
<1>1. CASE offers # "prepare"
  BY <1>1, OffersFixed DEF PrepInv
<1>2. CASE offers = "prepare" /\ UNCHANGED vars
  BY <1>2 DEF vars, PrepInv, SendsLocal, NeverSends, FailedIsStored, RepublishesStored,
              LocalIsOpen, Active, PreStore
<1>3. CASE offers = "prepare" /\ Next
  BY <1>3, PrepUser, PrepSettles, PrepEnvironment DEF Next
<1>4. QED
  BY <1>1, <1>2, <1>3

LEMMA AlwaysPrep == Spec => []PrepInv
  BY PrepInit, PrepStep, AlwaysInv, PTL DEF Spec

-----------------------------------------------------------------------------
(* Confirmed bubbles                                                         *)

FinalStep == \A b \in messages : Confirmed(b) => \A c \in messages' : c.id = b.id => Confirmed(c)

\* A bubble of the new list that is a confirmed one of the old list, is confirmed itself, or
\* has an id that no confirmed bubble has.
LEMMA FinalBy ==
  ASSUME Inv, \A c \in messages' : \/ c \in messages \/ Confirmed(c) \/ IsLocalId(c.id)
                                   \/ ~Listed(messages, c.id)
                                   \/ \E b \in messages : b.id = c.id /\ ~Confirmed(b)
                                   \/ \E b \in messages : b.id = c.id /\ c.delivery = b.delivery
  PROVE  FinalStep
<1> SUFFICES ASSUME NEW b \in messages, Confirmed(b), NEW c \in messages', c.id = b.id
             PROVE  Confirmed(c)
  BY DEF FinalStep
<1>1. \A x \in messages : x.id = b.id => x = b
  BY DEF Inv, UniqueIds
<1>2. ~IsLocalId(b.id)
  <2>1. PICK n \in Net : b.id = NetId(n)
    BY DEF Inv, Grounded, Confirmed
  <2>2. QED
    BY <2>1, IdFacts
<1>3. QED
  BY <1>1, <1>2 DEF Listed, Confirmed

LEMMA FinalNext ==
  ASSUME Inv, PrepInv, offers = "prepare", [Next]_vars
  PROVE  FinalStep
<1>1. /\ messages \subseteq Bubble /\ Unique(messages)
      /\ \A k \in Op : ops[k].pc # "unused" => ops[k].bubble \in Id
      /\ \A k \in Op : Active(k) => IsLocalId(ops[k].bubble)
      /\ \A k \in Op : ops[k].pc = "publishing" => ops[k].net \in Net
      /\ \A n \in Net : NetId(n) \in Id /\ ~IsLocalId(NetId(n)) /\ NetId(n) # NoId
  BY IdFacts DEF Inv, TypeOK, UniqueIds, Unique, OpGrounded, PrepInv, SendsLocal
<1>2. ASSUME messages' \subseteq messages PROVE FinalStep
  BY <1>2, FinalBy
<1>3. ASSUME NEW k \in Op, NEW body \in Body, Send(k, body) PROVE FinalStep
  <2>1. \A c \in messages' : c \in messages \/ c.id = LocalId(k)
    BY <1>3 DEF Send
  <2>2. QED
    BY <2>1, IdFacts, FinalBy
<1>4. ASSUME NEW k \in Op, NEW b \in messages, RetryMessage(k, b) PROVE FinalStep
  <2>1. ~Confirmed(b) /\ b.id \in Id
    BY <1>4, RetryWork DEF Confirmed
  <2>2. \A c \in messages' : c \in messages \/ c.id = b.id
    BY <1>1, <1>4, <2>1, SetDeliveryResult DEF RetryMessage, Delivery
  <2>3. QED
    BY <2>1, <2>2, FinalBy
<1>5. ASSUME NEW k \in Op, NEW messageId \in Id \cup {NoId}, Fails(k, messageId), Active(k),
             messageId # NoId => ~IsLocalId(messageId)
      PROVE  FinalStep
  <2>1. ops[k].bubble \in Id /\ IsLocalId(ops[k].bubble) /\ "failed" \in Delivery
    BY <1>1, <1>5 DEF Active, PreStore, Delivery
  <2>2. CASE messageId # NoId /\ Listed(messages, messageId)
    <3>1. messages' \subseteq messages
      BY <1>5, <2>1, <2>2 DEF Fails, SetDelivery, DiscardMessage
    <3>2. QED
      BY <1>2, <3>1
  <2>3. CASE messageId = NoId \/ ~Listed(messages, messageId)
    <3>1. \A c \in messages' :
             c \in messages \/ c.id = (IF messageId = NoId THEN ops[k].bubble ELSE messageId)
      BY <1>1, <1>5, <2>1, SetDeliveryResult DEF Fails
    <3>2. QED
      BY <2>1, <2>3, <3>1, FinalBy
  <2>4. QED
    BY <2>2, <2>3
<1>6. ASSUME NEW k \in Op, NEW d \in {"sent", "unpublished"}, Acked(k, d),
             ops[k].pc = "publishing"
      PROVE  FinalStep
  <2>1. PICK net \in Net : net = ops[k].net
    BY <1>1, <1>6
  <2>2. messages' = ReconcileSent(messages, ops[k].bubble, NetId(net), d)
    BY <1>6, <2>1 DEF Acked
  <2>3. CASE Listed(messages, NetId(net))
    BY <1>2, <2>2, <2>3 DEF ReconcileSent, DiscardMessage
  <2>4. CASE ~Listed(messages, NetId(net))
    <3>1. \A c \in messages' : c \in messages \/ c.id = NetId(net)
      BY <1>1, <1>6, <2>2, ReconcileSentResult DEF Delivery
    <3>2. QED
      BY <2>4, <3>1, FinalBy
  <2>5. QED
    BY <2>3, <2>4
<1>7. ASSUME NEW k \in Op, Settles(k) PROVE FinalStep
  <2>1. CASE UploadReturns(k)
    <3>1. \A c \in messages' : \E b \in messages : c.id = b.id /\ c.delivery = b.delivery
      BY <1>1, <2>1, AttachDerives DEF UploadReturns
    <3>2. QED
      BY <3>1, FinalBy
  <2>2. CASE UploadRefused(k) \/ PrepareReturns(k) \/ \E n \in Net : SdkStores(k, n)
    BY <1>2, <2>2 DEF UploadRefused, PrepareReturns, SdkStores, DiscardMessage
  <2>3. CASE FailsUnstored(k)
    BY <1>5, <2>3 DEF FailsUnstored, Active, PreStore
  <2>4. CASE PublishSettles(k)
    BY <1>1, <1>5, <1>6, <2>4 DEF PublishSettles, Active
  <2>5. CASE PublishTimesOut(k)
    BY <1>6, <2>5 DEF PublishTimesOut
  <2>6. CASE SendSettles(k)
    BY <2>6 DEF SendSettles, PrepInv, NeverSends
  <2>7. CASE RepublishSettles(k)
    <3>1. PICK d \in {"sent", "unpublished", "failed"} :
            messages' = SettleRetry(messages, ops[k].bubble, d)
      BY <2>7 DEF RepublishSettles
    <3>2. CASE \E b \in messages : b.id = ops[k].bubble /\ b.delivery = "pending"
      <4>1. \A c \in messages' : c \in messages \/ c.id = ops[k].bubble
        BY <1>1, <2>7, <3>1, SettleRetryResult DEF RepublishSettles, Delivery
      <4>2. QED
        BY <3>2, <4>1, FinalBy DEF Confirmed
    <3>3. CASE ~\E b \in messages : b.id = ops[k].bubble /\ b.delivery = "pending"
      BY <1>2, <3>1, <3>3 DEF SettleRetry
    <3>4. QED
      BY <3>2, <3>3
  <2>8. QED
    BY <1>7, <2>1, <2>2, <2>3, <2>4, <2>5, <2>6, <2>7 DEF Settles
<1>8. ASSUME NEW n \in Net, Echo(n) PROVE FinalStep
  <2>1. \A c \in messages' : c \in messages \/ Confirmed(c)
    BY <1>8 DEF Echo, MergeStreamed, Confirmed
  <2>2. QED
    BY <2>1, FinalBy
<1>9. ASSUME NEW upToNs, ReceiptArrives(upToNs) PROVE FinalStep
  <2>1. \A c \in messages' : c \in messages \/ Confirmed(c)
    BY <1>1, <1>9, MarkReadDerives DEF ReceiptArrives, Confirmed
  <2>2. QED
    BY <2>1, FinalBy
<1>10. QED
  BY <1>2, <1>3, <1>4, <1>7, <1>8, <1>9
     DEF Next, vars, User, Environment, DiscardFailed, DiscardMessage, SdkPublishes,
         OtherDeviceSends

\* With prepareMessage, no ack, failure, republish outcome or late echo takes back what the
\* network confirmed: setDelivery and reconcileSent drop the bubble of an operation whose
\* message is already listed, and settleRetry looks for a pending one.
THEOREM ConfirmedStays == Spec => ConfirmedIsFinal
<1>1. Inv /\ PrepInv /\ [Next]_vars
        => [offers = "prepare" =>
              \A b \in messages : Confirmed(b)
                => \A c \in messages' : c.id = b.id => Confirmed(c)]_vars
  BY FinalNext DEF FinalStep
<1>2. QED
  BY <1>1, AlwaysInv, AlwaysPrep, PTL DEF Spec, ConfirmedIsFinal

-----------------------------------------------------------------------------
(* With prepareMessage and distinct bodies, a body names what was composed:  *)
(* one operation at a time works on it, the SDK stores it once, and one      *)
(* bubble shows it.                                                          *)

OneWriter == \A j, k \in Op : Active(j) /\ Active(k) /\ ops[j].body = ops[k].body => j = k
NotYetStored == \A k \in Op, n \in Net : PreStore(k) => sdk[n].body # ops[k].body
StoredAsComposed == \A k \in Op : ops[k].pc = "publishing" => sdk[ops[k].net].body = ops[k].body
OneCopy == \A m, n \in Net : sdk[m].body = sdk[n].body /\ sdk[m].body # NoBody => m = n
WorksOnOwn ==
    \A k, j \in Op : Active(k) /\ ops[k].bubble = LocalId(j)
                       => ops[j].pc # "unused" /\ ops[j].body = ops[k].body

WorkInv == OneWriter /\ NotYetStored /\ StoredAsComposed /\ OneCopy /\ WorksOnOwn

\* A bubble shows what its id stands for.
ShowsOwn(b) ==
    /\ \A n \in Net : b.id = NetId(n) => b.body = sdk[n].body
    /\ \A j \in Op : b.id = LocalId(j) => b.body = ops[j].body

\* A local bubble that failed is at rest: nothing works on it and the SDK does not have it.
AtRest(b) ==
    IsLocalId(b.id) /\ b.delivery = "failed" =>
        /\ \A k \in Op : Active(k) => ops[k].body # b.body
        /\ \A n \in Net : sdk[n].body # b.body

\* The operation at work on what a bubble shows knows the bubble by name.
KnownToWork(b) ==
    \A k \in Op : Active(k) /\ ops[k].body = b.body =>
        b.id = ops[k].bubble \/ (ops[k].pc = "publishing" /\ b.id = NetId(ops[k].net))

\* The digest of a file is on its bubble before the SDK can have the message.
DigestKnown(b) ==
    b.body \in File =>
        /\ \A k \in Op : ops[k].pc \in {"preparing", "storing"} /\ ops[k].body = b.body => b.uploaded
        /\ \A n \in Net : sdk[n].body = b.body => b.uploaded

BubbleInv(b) == ShowsOwn(b) /\ AtRest(b) /\ KnownToWork(b) /\ DigestKnown(b)

OneEach == \A b, c \in messages : b.body = c.body => b = c

Copies == WorkInv /\ OneEach /\ \A b \in messages : BubbleInv(b)
CopyInv == offers = "prepare" /\ DistinctBodies => Copies

\* A step that starts no send and stores nothing.
SameWork ==
    /\ \A k \in Op : Active(k)' =>
          /\ Active(k) /\ PreStore(k)' = PreStore(k)
          /\ ops'[k].bubble = ops[k].bubble /\ ops'[k].body = ops[k].body
          /\ ops'[k].net = ops[k].net
    /\ \A k \in Op : ops[k].pc # "unused" => ops'[k].pc # "unused" /\ ops'[k].body = ops[k].body
    /\ \A n \in Net : sdk'[n].body = sdk[n].body

LEMMA SameWorkInv ==
  ASSUME Inv, WorkInv, SameWork
  PROVE  WorkInv'
<1>1. \A k \in Op : Active(k)' => /\ Active(k) /\ PreStore(k)' = PreStore(k)
                                  /\ ops[k].pc # "unused" /\ ops'[k].pc # "unused"
                                  /\ (ops'[k].pc = "publishing" <=> ops[k].pc = "publishing")
  BY DEF SameWork, Active, PreStore
<1>2. OneWriter'
  BY <1>1 DEF SameWork, WorkInv, OneWriter
<1>3. NotYetStored'
  BY <1>1 DEF SameWork, WorkInv, NotYetStored, Active
<1>4. \A k \in Op : ops[k].pc = "publishing" => ops[k].net \in Net
  BY DEF Inv, OpGrounded
<1>5. StoredAsComposed'
  <2> SUFFICES ASSUME NEW k \in Op, ops'[k].pc = "publishing"
               PROVE  sdk'[ops'[k].net].body = ops'[k].body
    BY DEF StoredAsComposed
  <2>1. Active(k)'
    BY DEF Active
  <2>2. ops[k].pc = "publishing" /\ ops'[k].net = ops[k].net /\ ops'[k].body = ops[k].body
    BY <1>1, <2>1 DEF SameWork
  <2>3. QED
    BY <1>4, <2>2 DEF SameWork, WorkInv, StoredAsComposed
<1>6. OneCopy'
  BY DEF SameWork, WorkInv, OneCopy
<1>7. WorksOnOwn'
  BY <1>1 DEF SameWork, WorkInv, WorksOnOwn
<1>8. QED
  BY <1>2, <1>3, <1>5, <1>6, <1>7 DEF WorkInv

\* Under such a step a bubble that keeps its id and body keeps its invariant, unless it just
\* failed, or an upload just ended.
LEMMA BubbleKept ==
  ASSUME Inv, SameWork, NEW b \in messages, BubbleInv(b),
         NEW c, c.id = b.id, c.body = b.body, b.uploaded => c.uploaded,
         \/ c.delivery = "failed" /\ IsLocalId(c.id) => b.delivery = "failed"
         \/ /\ \A k \in Op : Active(k)' => ops[k].body # b.body
            /\ \A n \in Net : sdk[n].body # b.body,
         c.body \in File => \A k \in Op :
            ops'[k].pc \in {"preparing", "storing"} /\ ops'[k].body = c.body
              => c.uploaded \/ ops[k].pc \in {"preparing", "storing"}
  PROVE  BubbleInv(c)'
<1>1. \A j \in Op : b.id = LocalId(j) => ops[j].pc # "unused"
  BY DEF Inv, Grounded
<1>2. \A k \in Op : Active(k)' => /\ Active(k)
                                  /\ (ops'[k].pc = "publishing" <=> ops[k].pc = "publishing")
  BY DEF SameWork, Active, PreStore
<1>3. ShowsOwn(c)'
  BY <1>1 DEF BubbleInv, ShowsOwn, SameWork
<1>4. AtRest(c)'
  BY <1>2 DEF BubbleInv, AtRest, SameWork
<1>5. KnownToWork(c)'
  BY <1>2 DEF BubbleInv, KnownToWork, SameWork
<1>6. DigestKnown(c)'
  <2>1. \A k \in Op : ops'[k].pc \in {"preparing", "storing"} => ops'[k].body = ops[k].body
    BY DEF SameWork, Active, PreStore
  <2>2. QED
    BY <2>1 DEF BubbleInv, DigestKnown, SameWork
<1>7. QED
  BY <1>3, <1>4, <1>5, <1>6 DEF BubbleInv

\* A bubble under the id of the message that the SDK stored of it.
LEMMA BubbleStored ==
  ASSUME NEW c, NEW n \in Net, c.id = NetId(n), sdk'[n].body = c.body,
         c.body \in File => c.uploaded,
         \A k \in Op : Active(k)' /\ ops'[k].body = c.body
                         => ops'[k].pc = "publishing" /\ ops'[k].net = n
  PROVE  BubbleInv(c)'
  BY IdFacts DEF BubbleInv, ShowsOwn, AtRest, KnownToWork, DigestKnown

\* An operation that ends or goes on, while the SDK stores nothing new.
LEMMA FinishSameWork ==
  ASSUME Inv, NEW k \in Op, ops[k].pc # "unused", NEW pc, Finish(k, pc),
         \/ pc \in {"done", "failed"}
         \/ pc \in {"preparing", "storing"} /\ PreStore(k),
         \A n \in Net : sdk'[n].body = sdk[n].body
  PROVE  SameWork
<1>1. \A j \in Op : /\ ops'[j].pc = IF j = k THEN pc ELSE ops[j].pc
                    /\ ops'[j].bubble = ops[j].bubble
                    /\ ops'[j].body = ops[j].body
                    /\ ops'[j].net = ops[j].net
  BY FinishExact
<1>2. QED
  BY <1>1 DEF SameWork, Active, PreStore

\* What an operation calls its bubble shows what the operation composed.
LEMMA OwnBody ==
  ASSUME Inv, PrepInv, offers = "prepare", WorkInv, NEW k \in Op, Active(k),
         NEW b \in messages, b.id = ops[k].bubble, BubbleInv(b)
  PROVE  b.body = ops[k].body
<1>1. PICK j \in Op : ops[k].bubble = LocalId(j)
  BY IdCases, IdFacts DEF Inv, OpGrounded, PrepInv, SendsLocal, Active, PreStore
<1>2. ops[j].body = ops[k].body
  BY <1>1 DEF WorkInv, WorksOnOwn
<1>3. QED
  BY <1>1, <1>2 DEF BubbleInv, ShowsOwn

LEMMA CopyInit == Init => CopyInv
<1> SUFFICES ASSUME Init PROVE CopyInv
  OBVIOUS
<1>1. \A k \in Op : ~Active(k) /\ ~PreStore(k) /\ ops[k].pc # "publishing"
  BY DEF Init, Unused, Active, PreStore
<1>2. \A n \in Net : sdk[n].body = NoBody
  BY DEF Init, NotStored
<1>3. QED
  BY <1>1, <1>2 DEF Init, CopyInv, Copies, WorkInv, OneWriter, NotYetStored,
                    StoredAsComposed, OneCopy, WorksOnOwn, OneEach

\* Every body that is listed is an operation's or the SDK's.
LEMMA BodiesKnown ==
  ASSUME Inv, NEW b \in messages, BubbleInv(b)
  PROVE  \/ \E j \in Op : b.body = ops[j].body
         \/ \E n \in Net : b.body = sdk[n].body
<1>1. b.id \in Id
  BY DEF Inv, TypeOK, Bubble
<1>2. QED
  BY <1>1, IdCases DEF BubbleInv, ShowsOwn

LEMMA CopySend ==
  ASSUME Inv, PrepInv, Copies, offers = "prepare", DistinctBodies,
         NEW k \in Op, NEW body \in Body, Send(k, body)
  PROVE  Copies'
<1> DEFINE b0 == [id |-> LocalId(k), body |-> body, sentNs |-> clock + 1,
                  delivery |-> "pending", uploaded |-> FALSE]
           o == [pc |-> IF body \in File THEN "uploading" ELSE "preparing",
                 bubble |-> LocalId(k), body |-> body, net |-> 0]
<1>1. /\ \A j \in Op : ops[j].body # body
      /\ \A n \in Net : sdk[n].body # body
  BY DEF Send, NewBody
<1>2. ops[k].pc = "unused"
  <2>1. k <= k
    BY DEF Op
  <2>2. QED
    BY <2>1 DEF Send, NextOp
<1>3. ops' = [ops EXCEPT ![k] = o] /\ messages' = messages \cup {b0} /\ sdk' = sdk
  BY DEF Send
<1>4. /\ o.pc \in {"uploading", "preparing"} /\ (body \in File => o.pc = "uploading")
      /\ o.bubble = LocalId(k) /\ o.body = body
      /\ b0.id = LocalId(k) /\ b0.body = body /\ b0.delivery = "pending"
  OBVIOUS
<1> HIDE DEF b0, o
<1>5. \A j \in Op : ops'[j] = IF j = k THEN o ELSE ops[j]
  BY <1>3, StartExact
<1>6. \A b \in messages : b.body # body /\ b.id # LocalId(k)
  BY <1>1, <1>2, BodiesKnown DEF Copies, Inv, Grounded
<1>7. \A j \in Op : j # k => /\ Active(j)' = Active(j) /\ PreStore(j)' = PreStore(j)
                             /\ ops'[j] = ops[j]
  BY <1>5 DEF Active, PreStore
<1>8. PreStore(k)' /\ ~Active(k) /\ ops'[k] = o
  BY <1>2, <1>4, <1>5 DEF Active, PreStore
<1>9. WorkInv'
  <2>1. OneWriter'
    BY <1>1, <1>4, <1>7, <1>8 DEF Copies, WorkInv, OneWriter
  <2>2. NotYetStored'
    BY <1>1, <1>3, <1>4, <1>7, <1>8 DEF Copies, WorkInv, NotYetStored
  <2>3. StoredAsComposed'
    BY <1>3, <1>4, <1>7, <1>8 DEF Copies, WorkInv, StoredAsComposed
  <2>4. OneCopy'
    BY <1>3 DEF Copies, WorkInv, OneCopy
  <2>5. WorksOnOwn'
    BY <1>2, <1>4, <1>7, <1>8, IdFacts DEF Copies, WorkInv, WorksOnOwn
  <2>6. QED
    BY <2>1, <2>2, <2>3, <2>4, <2>5 DEF WorkInv
<1>10. OneEach'
  BY <1>3, <1>4, <1>6 DEF Copies, OneEach
<1>11. ASSUME NEW c \in messages' PROVE BubbleInv(c)'
  <2>1. CASE c \in messages
    <3>1. BubbleInv(c) /\ c.body # body /\ c.id # LocalId(k)
      BY <1>6, <2>1 DEF Copies
    <3>2. ShowsOwn(c)' /\ AtRest(c)' /\ KnownToWork(c)'
      BY <1>3, <1>4, <1>7, <1>8, <3>1 DEF BubbleInv, ShowsOwn, AtRest, KnownToWork
    <3>3. DigestKnown(c)'
      BY <1>3, <1>4, <1>7, <1>8, <3>1 DEF BubbleInv, DigestKnown
    <3>4. QED
      BY <3>2, <3>3 DEF BubbleInv
  <2>2. CASE c = b0
    <3>1. ShowsOwn(c)' /\ AtRest(c)'
      BY <1>4, <1>8, <2>2, IdFacts DEF ShowsOwn, AtRest
    <3>2. KnownToWork(c)'
      BY <1>1, <1>4, <1>7, <1>8, <2>2 DEF KnownToWork
    <3>3. DigestKnown(c)'
      BY <1>1, <1>3, <1>4, <1>7, <1>8, <2>2 DEF DigestKnown
    <3>4. QED
      BY <3>1, <3>2, <3>3 DEF BubbleInv
  <2>3. QED
    BY <1>3, <2>1, <2>2
<1>12. QED
  BY <1>9, <1>10, <1>11 DEF Copies

\* Bubbles that come, one each, from the old list, under a step that starts and stores nothing.
LEMMA CopyDerived ==
  ASSUME Inv, Copies, SameWork, OneEach',
         \A c \in messages' : \E b \in messages :
            /\ c.id = b.id /\ c.body = b.body
            /\ b.uploaded => c.uploaded
            /\ \/ c.delivery = "failed" /\ IsLocalId(c.id) => b.delivery = "failed"
               \/ /\ \A k \in Op : Active(k)' => ops[k].body # b.body
                  /\ \A n \in Net : sdk[n].body # b.body
            /\ c.body \in File => \A k \in Op :
                  ops'[k].pc \in {"preparing", "storing"} /\ ops'[k].body = c.body
                    => c.uploaded \/ ops[k].pc \in {"preparing", "storing"}
  PROVE  Copies'
<1>1. ASSUME NEW c \in messages' PROVE BubbleInv(c)'
  <2>1. PICK b \in messages :
            /\ c.id = b.id /\ c.body = b.body
            /\ b.uploaded => c.uploaded
            /\ \/ c.delivery = "failed" /\ IsLocalId(c.id) => b.delivery = "failed"
               \/ /\ \A k \in Op : Active(k)' => ops[k].body # b.body
                  /\ \A n \in Net : sdk[n].body # b.body
            /\ c.body \in File => \A k \in Op :
                  ops'[k].pc \in {"preparing", "storing"} /\ ops'[k].body = c.body
                    => c.uploaded \/ ops[k].pc \in {"preparing", "storing"}
    OBVIOUS
  <2>2. BubbleInv(b)
    BY DEF Copies
  <2>3. QED
    BY <2>1, <2>2, BubbleKept
<1>2. QED
  BY <1>1, SameWorkInv DEF Copies

\* Such a step that only takes bubbles away, and records no upload.
LEMMA CopyFewer ==
  ASSUME Inv, Copies, SameWork, messages' \subseteq messages,
         \A k \in Op : ops'[k].pc \in {"preparing", "storing"}
                         => ops[k].pc \in {"preparing", "storing"}
  PROVE  Copies'
<1>1. OneEach'
  BY DEF Copies, OneEach
<1>2. QED
  BY <1>1, CopyDerived

LEMMA CopyRetry ==
  ASSUME Inv, PrepInv, Copies, offers = "prepare",
         NEW k \in Op, NEW b \in messages, RetryMessage(k, b)
  PROVE  Copies'
<1>1. /\ ops[k].pc = "unused" /\ b.id \in Id /\ b.body \in Body
      /\ messages' = SetDelivery(messages, b.id, "pending", NoId) /\ sdk' = sdk
  BY RetryWork DEF RetryMessage
<1>2. messages' = Marked(messages, b.id, b.id, "pending")
  BY <1>1 DEF SetDelivery
<1>3. /\ \A c \in messages' : \E x \in messages :
            /\ c.body = x.body /\ c.uploaded = x.uploaded /\ c.id = x.id
            /\ c.delivery = "failed" => x.delivery = "failed" /\ x.id # b.id
      /\ OneEach'
  <2>1. messages \subseteq Bubble /\ "pending" \in Delivery /\ OneEach
    BY DEF Inv, TypeOK, Copies, Delivery
  <2>2. /\ \A c \in messages' : \E x \in messages :
             /\ c.body = x.body /\ c.uploaded = x.uploaded
             /\ \/ c = x /\ x.id # b.id
                \/ x.id = b.id /\ c.id = b.id /\ c.delivery = "pending"
        /\ OneEach => OneEach'
    BY <1>1, <1>2, <2>1, MarkedDerives DEF OneEach
  <2>3. QED
    BY <2>1, <2>2
<1>4. CASE ~IsLocalId(b.id)
  <2> DEFINE o == [pc |-> "republishing", bubble |-> b.id, body |-> b.body, net |-> 0]
  <2>1. ops' = [ops EXCEPT ![k] = o]
    BY <1>4, RetryWork
  <2>2. o.pc = "republishing"
    OBVIOUS
  <2> HIDE DEF o
  <2>3. \A j \in Op : ops'[j] = IF j = k THEN o ELSE ops[j]
    BY <2>1, StartExact
  <2>4. SameWork
    BY <1>1, <2>2, <2>3 DEF SameWork, Active, PreStore
  <2>5. \A j \in Op : ops'[j].pc \in {"preparing", "storing"}
                        => ops[j].pc \in {"preparing", "storing"}
    BY <2>2, <2>3
  <2>6. QED
    BY <1>3, <2>4, <2>5, CopyDerived
<1>5. CASE IsLocalId(b.id)
  <2> DEFINE pc == IF b.body \in File /\ ~b.uploaded THEN "uploading" ELSE "preparing"
             o == [pc |-> pc, bubble |-> b.id, body |-> b.body, net |-> 0]
  <2>1. ops' = [ops EXCEPT ![k] = o] /\ b.delivery = "failed"
    BY <1>5, RetryWork
  <2>2. /\ o.pc \in {"uploading", "preparing"} /\ o.bubble = b.id /\ o.body = b.body
        /\ o.pc = "preparing" /\ b.body \in File => b.uploaded
    OBVIOUS
  <2> HIDE DEF o
  <2>3. \A j \in Op : ops'[j] = IF j = k THEN o ELSE ops[j]
    BY <2>1, StartExact
  <2>4. \A j \in Op : j # k => /\ Active(j)' = Active(j) /\ PreStore(j)' = PreStore(j)
                               /\ ops'[j] = ops[j]
    BY <2>3 DEF Active, PreStore
  <2>5. PreStore(k)' /\ Active(k)' /\ ~Active(k) /\ ops'[k] = o
    BY <1>1, <2>2, <2>3 DEF Active, PreStore
  <2>6. /\ \A j \in Op : Active(j) => ops[j].body # b.body
        /\ \A n \in Net : sdk[n].body # b.body
        /\ BubbleInv(b)
    BY <1>5, <2>1 DEF Copies, BubbleInv, AtRest
  <2>7. PICK i \in Op : b.id = LocalId(i)
    BY <1>1, <1>5, IdCases, IdFacts
  <2>8. i # k /\ ops[i].pc # "unused" /\ ops[i].body = b.body
    BY <1>1, <2>6, <2>7 DEF Inv, Grounded, BubbleInv, ShowsOwn
  <2>9. WorkInv'
    <3>1. OneWriter'
      BY <2>2, <2>4, <2>5, <2>6 DEF Copies, WorkInv, OneWriter
    <3>2. NotYetStored'
      BY <1>1, <2>2, <2>4, <2>5, <2>6 DEF Copies, WorkInv, NotYetStored
    <3>3. StoredAsComposed'
      BY <1>1, <2>2, <2>4, <2>5 DEF Copies, WorkInv, StoredAsComposed
    <3>4. OneCopy'
      BY <1>1 DEF Copies, WorkInv, OneCopy
    <3>5. ASSUME NEW m \in Op, NEW j \in Op, Active(m)', ops'[m].bubble = LocalId(j)
          PROVE  ops'[j].pc # "unused" /\ ops'[j].body = ops'[m].body
      <4>1. CASE m = k
        BY <2>2, <2>4, <2>5, <2>7, <2>8, <3>5, <4>1, IdFacts
      <4>2. CASE m # k
        <5>1. ops[j].pc # "unused" /\ ops[j].body = ops[m].body
          BY <2>4, <3>5, <4>2 DEF Copies, WorkInv, WorksOnOwn
        <5>2. QED
          BY <1>1, <2>4, <4>2, <5>1
      <4>3. QED
        BY <4>1, <4>2
    <3>6. QED
      BY <3>1, <3>2, <3>3, <3>4, <3>5 DEF WorkInv, WorksOnOwn
  <2>10. ASSUME NEW c \in messages' PROVE BubbleInv(c)'
    <3>1. PICK x \in messages :
            /\ c.body = x.body /\ c.uploaded = x.uploaded /\ c.id = x.id
            /\ c.delivery = "failed" => x.delivery = "failed" /\ x.id # b.id
      BY <1>3
    <3>2. BubbleInv(x) /\ (x.body = b.body => x = b) /\ \A j \in Op : x.id = LocalId(j) => j # k
      BY <1>1 DEF Copies, OneEach, Inv, Grounded
    <3>3. ShowsOwn(c)'
      BY <1>1, <2>4, <3>1, <3>2 DEF BubbleInv, ShowsOwn
    <3>4. AtRest(c)'
      BY <1>1, <2>2, <2>4, <2>5, <3>1, <3>2 DEF BubbleInv, AtRest
    <3>5. KnownToWork(c)'
      BY <2>2, <2>4, <2>5, <3>1, <3>2 DEF BubbleInv, KnownToWork
    <3>6. DigestKnown(c)'
      BY <1>1, <2>2, <2>4, <2>5, <3>1, <3>2 DEF BubbleInv, DigestKnown
    <3>7. QED
      BY <3>3, <3>4, <3>5, <3>6 DEF BubbleInv
  <2>11. QED
    BY <1>3, <2>9, <2>10 DEF Copies
<1>6. QED
  BY <1>4, <1>5

LEMMA PublishAllBodies ==
  ASSUME Inv, PublishAll
  PROVE  \A n \in Net : sdk'[n].body = sdk[n].body
<1>1. \A n \in Net : sdk'[n] = IF sdk[n].state = "stored"
                                 THEN [sdk[n] EXCEPT !.state = "published"] ELSE sdk[n]
  BY DEF PublishAll
<1>2. QED
  BY <1>1 DEF Inv, TypeOK

\* An operation that ends and leaves only some of the bubbles there were.
LEMMA CopyEndsFewer ==
  ASSUME Inv, Copies, NEW k \in Op, ops[k].pc # "unused",
         NEW pc \in {"done", "failed"}, Finish(k, pc), messages' \subseteq messages,
         \A n \in Net : sdk'[n].body = sdk[n].body
  PROVE  Copies'
<1>1. SameWork
  BY FinishSameWork
<1>2. \A j \in Op : ops'[j].pc = IF j = k THEN pc ELSE ops[j].pc
  BY FinishExact
<1>3. QED
  BY <1>1, <1>2, CopyFewer

\* The bubble of an operation that ends takes the id of the message the SDK stored of it.
LEMMA CopyRekeyed ==
  ASSUME Inv, PrepInv, Copies, offers = "prepare", NEW k \in Op, ops[k].pc = "publishing",
         NEW pc \in {"done", "failed"}, Finish(k, pc), NEW d \in Delivery,
         NEW net \in Net, net = ops[k].net,
         messages' = Marked(messages, ops[k].bubble, NetId(net), d),
         \A n \in Net : sdk'[n].body = sdk[n].body
  PROVE  Copies'
<1>1. /\ messages \subseteq Bubble /\ ops[k].bubble \in Id /\ NetId(net) \in Id
      /\ OneEach /\ WorkInv /\ Active(k)
  BY IdFacts DEF Inv, TypeOK, OpGrounded, Copies, Active
<1>2. /\ \A c \in messages' : \E x \in messages :
            /\ c.body = x.body /\ c.uploaded = x.uploaded
            /\ \/ c = x /\ x.id # ops[k].bubble
               \/ x.id = ops[k].bubble /\ c.id = NetId(net) /\ c.delivery = d
      /\ OneEach'
  BY <1>1, MarkedDerives DEF OneEach
<1>3. SameWork
  BY FinishSameWork
<1>4. \A j \in Op : /\ ops'[j].pc = IF j = k THEN pc ELSE ops[j].pc
                    /\ ops'[j].body = ops[j].body
  BY FinishExact
<1>5. \A j \in Op : Active(j)' => j # k /\ Active(j)
  BY <1>4 DEF Active, PreStore
<1>6. ASSUME NEW c \in messages' PROVE BubbleInv(c)'
  <2>1. PICK x \in messages :
          /\ c.body = x.body /\ c.uploaded = x.uploaded
          /\ \/ c = x /\ x.id # ops[k].bubble
             \/ x.id = ops[k].bubble /\ c.id = NetId(net) /\ c.delivery = d
    BY <1>2
  <2>2. BubbleInv(x)
    BY DEF Copies
  <2>3. CASE c = x
    <3>1. \A j \in Op : ops'[j].pc \in {"preparing", "storing"}
                          => ops[j].pc \in {"preparing", "storing"}
      BY <1>4
    <3>2. QED
      BY <1>3, <2>2, <2>3, <3>1, BubbleKept
  <2>4. CASE x.id = ops[k].bubble /\ c.id = NetId(net)
    <3>1. x.body = ops[k].body /\ sdk[net].body = ops[k].body
      BY <1>1, <2>2, <2>4, OwnBody DEF WorkInv, StoredAsComposed
    <3>2. \A j \in Op : ~(Active(j)' /\ ops'[j].body = c.body)
      BY <1>1, <1>4, <1>5, <2>1, <3>1 DEF WorkInv, OneWriter
    <3>3. c.body \in File => c.uploaded
      BY <2>1, <2>2, <3>1 DEF BubbleInv, DigestKnown
    <3>4. QED
      BY <2>1, <2>4, <3>1, <3>2, <3>3, BubbleStored
  <2>5. QED
    BY <2>1, <2>3, <2>4
<1>7. QED
  BY <1>1, <1>2, <1>3, <1>6, SameWorkInv DEF Copies

\* A publish settles for the operation, as sent, stored or failed, or times out.
LEMMA CopyPublished ==
  ASSUME Inv, PrepInv, Copies, offers = "prepare", NEW k \in Op, ops[k].pc = "publishing",
         \/ \E d \in {"sent", "unpublished"} : Acked(k, d)
         \/ Fails(k, NetId(ops[k].net)),
         sdk' = sdk \/ PublishAll
  PROVE  Copies'
<1>1. \A n \in Net : sdk'[n].body = sdk[n].body
  BY PublishAllBodies
<1>2. PICK net \in Net : net = ops[k].net
  BY DEF Inv, OpGrounded
<1>3. /\ NetId(net) # NoId /\ NetId(net) # ops[k].bubble /\ ~IsLocalId(NetId(net))
  BY IdFacts DEF PrepInv, SendsLocal, Active
<1>4. PICK d \in Delivery, pc \in {"done", "failed"} :
        /\ Finish(k, pc)
        /\ messages' = IF Listed(messages, NetId(net))
                         THEN DiscardMessage(messages, ops[k].bubble)
                         ELSE Marked(messages, ops[k].bubble, NetId(net), d)
  <2>1. CASE Fails(k, NetId(net))
    BY <1>3, <2>1 DEF Fails, SetDelivery, Delivery
  <2>2. ASSUME NEW d \in {"sent", "unpublished"}, Acked(k, d)
        PROVE  /\ Finish(k, "done") /\ d \in Delivery
               /\ messages' = IF Listed(messages, NetId(net))
                                THEN DiscardMessage(messages, ops[k].bubble)
                                ELSE Marked(messages, ops[k].bubble, NetId(net), d)
    BY <1>2, <2>2 DEF Acked, ReconcileSent, Delivery
  <2>3. QED
    BY <1>2, <2>1, <2>2
<1>5. CASE Listed(messages, NetId(net))
  <2>1. messages' \subseteq messages
    BY <1>4, <1>5 DEF DiscardMessage
  <2>2. QED
    BY <1>1, <1>4, <2>1, CopyEndsFewer
<1>6. CASE ~Listed(messages, NetId(net))
  BY <1>1, <1>2, <1>4, <1>6, CopyRekeyed
<1>7. QED
  BY <1>5, <1>6

LEMMA CopyFailsUnstored ==
  ASSUME Inv, PrepInv, Copies, offers = "prepare", NEW k \in Op, FailsUnstored(k)
  PROVE  Copies'
<1>1. /\ PreStore(k) /\ Active(k) /\ Finish(k, "failed") /\ sdk' = sdk
      /\ ops[k].bubble \in Id /\ messages \subseteq Bubble /\ OneEach /\ WorkInv
      /\ "failed" \in Delivery
  BY DEF FailsUnstored, PreStore, Active, Fails, Inv, OpGrounded, TypeOK, Copies, Delivery
<1>2. messages' = Marked(messages, ops[k].bubble, ops[k].bubble, "failed")
  BY DEF FailsUnstored, Fails, SetDelivery
<1>3. /\ \A c \in messages' : \E x \in messages :
            /\ c.body = x.body /\ c.uploaded = x.uploaded
            /\ \/ c = x /\ x.id # ops[k].bubble
               \/ x.id = ops[k].bubble /\ c.id = ops[k].bubble /\ c.delivery = "failed"
      /\ OneEach'
  BY <1>1, <1>2, MarkedDerives DEF OneEach
<1>4. SameWork
  BY <1>1, FinishSameWork DEF PreStore
<1>5. \A j \in Op : /\ ops'[j].pc = IF j = k THEN "failed" ELSE ops[j].pc
                    /\ ops'[j].body = ops[j].body
  BY <1>1, FinishExact
<1>6. \A j \in Op : Active(j)' => j # k /\ Active(j)
  BY <1>5 DEF Active, PreStore
<1>7. ASSUME NEW x \in messages, x.id = ops[k].bubble
      PROVE  /\ \A j \in Op : Active(j)' => ops[j].body # x.body
             /\ \A n \in Net : sdk[n].body # x.body
  <2>1. x.body = ops[k].body
    BY <1>1, <1>7, OwnBody DEF Copies
  <2>2. QED
    BY <1>1, <1>6, <2>1 DEF WorkInv, OneWriter, NotYetStored
<1>8. \A j \in Op : ops'[j].pc \in {"preparing", "storing"}
                      => ops[j].pc \in {"preparing", "storing"}
  BY <1>5
<1>9. ASSUME NEW c \in messages' PROVE BubbleInv(c)'
  <2>1. PICK x \in messages :
            /\ c.body = x.body /\ c.uploaded = x.uploaded
            /\ \/ c = x /\ x.id # ops[k].bubble
               \/ x.id = ops[k].bubble /\ c.id = ops[k].bubble /\ c.delivery = "failed"
    BY <1>3
  <2>2. BubbleInv(x)
    BY DEF Copies
  <2>3. CASE c = x
    BY <1>4, <1>8, <2>2, <2>3, BubbleKept
  <2>4. CASE x.id = ops[k].bubble /\ c.id = x.id
    BY <1>4, <1>7, <1>8, <2>1, <2>2, <2>4, BubbleKept
  <2>5. QED
    BY <2>1, <2>3, <2>4
<1>10. QED
  BY <1>1, <1>3, <1>4, <1>9, SameWorkInv DEF Copies

LEMMA CopyUploadReturns ==
  ASSUME Inv, PrepInv, Copies, offers = "prepare", NEW k \in Op, UploadReturns(k)
  PROVE  Copies'
<1>1. /\ PreStore(k) /\ Active(k) /\ Finish(k, "preparing") /\ sdk' = sdk
      /\ messages \subseteq Bubble /\ OneEach /\ WorkInv /\ ops[k].pc = "uploading"
      /\ messages' = AttachUploaded(messages, ops[k].bubble)
  BY DEF UploadReturns, PreStore, Active, Inv, TypeOK, Copies
<1>2. /\ \A c \in messages' : \E x \in messages :
            /\ c.id = x.id /\ c.body = x.body /\ c.delivery = x.delivery
            /\ x.uploaded => c.uploaded
            /\ x.id = ops[k].bubble /\ x.body \in File => c.uploaded
      /\ OneEach'
  BY <1>1, AttachDerives DEF OneEach
<1>3. SameWork
  BY <1>1, FinishSameWork
<1>4. \A j \in Op : /\ ops'[j].pc = IF j = k THEN "preparing" ELSE ops[j].pc
                    /\ ops'[j].body = ops[j].body
  BY <1>1, FinishExact
<1>5. ASSUME NEW x \in messages, x.body = ops[k].body PROVE x.id = ops[k].bubble
  BY <1>1, <1>5 DEF Copies, BubbleInv, KnownToWork
<1>6. QED
  BY <1>2, <1>3, <1>4, <1>5, CopyDerived

LEMMA CopyRepublishSettles ==
  ASSUME Inv, Copies, NEW k \in Op, RepublishSettles(k)
  PROVE  Copies'
<1>1. /\ Finish(k, "done") /\ ops[k].pc = "republishing" /\ ops[k].bubble \in Id
      /\ ~IsLocalId(ops[k].bubble) /\ messages \subseteq Bubble /\ OneEach
  BY IdFacts DEF RepublishSettles, Inv, OpGrounded, TypeOK, Copies
<1>2. PICK d \in {"sent", "unpublished", "failed"} :
        /\ messages' = SettleRetry(messages, ops[k].bubble, d)
        /\ PublishAll \/ sdk' = sdk
  BY DEF RepublishSettles
<1>3. \A n \in Net : sdk'[n].body = sdk[n].body
  BY <1>2, PublishAllBodies
<1>4. SameWork
  BY <1>1, <1>3, FinishSameWork
<1>5. \A j \in Op : ops'[j].pc \in {"preparing", "storing"}
                      => ops[j].pc \in {"preparing", "storing"}
  BY <1>1, FinishExact
<1>6. CASE messages' = messages
  BY <1>4, <1>5, <1>6, CopyFewer
<1>7. CASE messages' # messages
  <2>1. messages' = Marked(messages, ops[k].bubble, ops[k].bubble, d) /\ d \in Delivery
    BY <1>2, <1>7 DEF SettleRetry, SetDelivery, Delivery
  <2>2. /\ \A c \in messages' : \E x \in messages :
              /\ c.body = x.body /\ c.uploaded = x.uploaded
              /\ \/ c = x /\ x.id # ops[k].bubble
                 \/ x.id = ops[k].bubble /\ c.id = ops[k].bubble /\ c.delivery = d
        /\ OneEach'
    BY <1>1, <2>1, MarkedDerives DEF OneEach
  <2>3. \A c \in messages' : \E x \in messages :
              /\ c.id = x.id /\ c.body = x.body /\ c.uploaded = x.uploaded
              /\ IsLocalId(c.id) => c = x
    BY <1>1, <2>2
  <2>4. QED
    BY <1>4, <1>5, <2>2, <2>3, CopyDerived
<1>8. QED
  BY <1>6, <1>7

\* The SDK stores what the operation composed, which it did not have.
LEMMA CopySdkStores ==
  ASSUME Inv, PrepInv, Copies, offers = "prepare", NEW k \in Op, NEW n \in Net,
         SdkStores(k, n)
  PROVE  Copies'
<1> DEFINE m == [state |-> "stored", body |-> ops[k].body, sentNs |-> clock]
           o == [ops[k] EXCEPT !.pc = "publishing", !.net = n]
<1>1. /\ ops[k].pc = "storing" /\ ops[k].body \in Body /\ messages' = messages
      /\ sdk[n].state = "none" /\ WorkInv /\ ops[k] \in Operation
  <2>1. n <= n
    BY DEF Net
  <2>2. QED
    BY <2>1 DEF SdkStores, NextNet, Inv, OpGrounded, TypeOK, Copies
<1>2. sdk' = [sdk EXCEPT ![n] = m] /\ ops' = [ops EXCEPT ![k] = o]
  BY DEF SdkStores, Stored
<1>3. /\ m.body = ops[k].body /\ o.pc = "publishing" /\ o.net = n
      /\ o.body = ops[k].body /\ o.bubble = ops[k].bubble
  BY <1>1 DEF Operation
<1> HIDE DEF m, o
<1>4. \A j \in Op : ops'[j] = IF j = k THEN o ELSE ops[j]
  BY <1>2, StartExact
<1>5. \A i \in Net : sdk'[i] = IF i = n THEN m ELSE sdk[i]
  BY <1>2 DEF Inv, TypeOK
<1>6. \A j \in Op : /\ Active(j)' = Active(j)
                    /\ ops'[j].body = ops[j].body /\ ops'[j].bubble = ops[j].bubble
                    /\ PreStore(j)' => j # k /\ PreStore(j)
  BY <1>1, <1>3, <1>4 DEF Active, PreStore
<1>7. /\ Active(k) /\ PreStore(k)
      /\ \A i \in Net : sdk[i].body # ops[k].body
      /\ \A j \in Op : Active(j) /\ ops[j].body = ops[k].body => j = k
  BY <1>1 DEF Active, PreStore, WorkInv, NotYetStored, OneWriter
<1>8. WorkInv'
  <2>1. OneWriter'
    BY <1>6 DEF Copies, WorkInv, OneWriter
  <2>2. NotYetStored'
    <3> SUFFICES ASSUME NEW j \in Op, NEW i \in Net, PreStore(j)'
                 PROVE  sdk'[i].body # ops'[j].body
      BY DEF NotYetStored
    <3>1. j # k /\ PreStore(j) /\ Active(j)
      BY <1>6 DEF Active
    <3>2. QED
      BY <1>3, <1>5, <1>6, <1>7, <3>1 DEF WorkInv, NotYetStored, Copies
  <2>3. StoredAsComposed'
    <3> SUFFICES ASSUME NEW j \in Op, ops'[j].pc = "publishing"
                 PROVE  sdk'[ops'[j].net].body = ops'[j].body
      BY DEF StoredAsComposed
    <3>1. CASE j = k
      BY <1>3, <1>4, <1>5, <3>1
    <3>2. CASE j # k
      <4>1. /\ ops'[j] = ops[j] /\ ops[j].net \in Net /\ sdk[ops[j].net].state # "none"
            /\ sdk[ops[j].net].body = ops[j].body
        BY <1>4, <3>2 DEF Inv, OpGrounded, Copies, WorkInv, StoredAsComposed
      <4>2. QED
        BY <1>1, <1>5, <4>1
    <3>3. QED
      BY <3>1, <3>2
  <2>4. OneCopy'
    BY <1>3, <1>5, <1>7 DEF Copies, WorkInv, OneCopy
  <2>5. WorksOnOwn'
    <3> SUFFICES ASSUME NEW i \in Op, NEW j \in Op, Active(i)', ops'[i].bubble = LocalId(j)
                 PROVE  ops'[j].pc # "unused" /\ ops'[j].body = ops'[i].body
      BY DEF WorksOnOwn
    <3>1. ops[j].pc # "unused" /\ ops[j].body = ops[i].body
      BY <1>6 DEF Copies, WorkInv, WorksOnOwn
    <3>2. QED
      BY <1>3, <1>4, <1>6, <3>1
  <2>6. QED
    BY <2>1, <2>2, <2>3, <2>4, <2>5 DEF WorkInv
<1>9. ASSUME NEW b \in messages PROVE BubbleInv(b)'
  <2>1. BubbleInv(b) /\ \A i \in Net : b.id = NetId(i) => i # n
    BY <1>1 DEF Copies, Inv, Grounded
  <2>2. ShowsOwn(b)'
    BY <1>5, <1>6, <2>1 DEF BubbleInv, ShowsOwn
  <2>3. AtRest(b)'
    BY <1>3, <1>5, <1>6, <1>7, <2>1 DEF BubbleInv, AtRest
  <2>4. KnownToWork(b)'
    <3> SUFFICES ASSUME NEW j \in Op, Active(j)', ops'[j].body = b.body
                 PROVE  \/ b.id = ops'[j].bubble
                        \/ ops'[j].pc = "publishing" /\ b.id = NetId(ops'[j].net)
      BY DEF KnownToWork
    <3>1. \/ b.id = ops[j].bubble
          \/ ops[j].pc = "publishing" /\ b.id = NetId(ops[j].net)
      BY <1>6, <2>1 DEF BubbleInv, KnownToWork
    <3>2. QED
      BY <1>1, <1>4, <1>6, <3>1
  <2>5. DigestKnown(b)'
    <3>1. b.body \in File /\ ops[k].body = b.body => b.uploaded
      BY <1>1, <2>1 DEF BubbleInv, DigestKnown
    <3>2. QED
      BY <1>3, <1>4, <1>5, <1>6, <2>1, <3>1 DEF BubbleInv, DigestKnown
  <2>6. QED
    BY <2>2, <2>3, <2>4, <2>5 DEF BubbleInv
<1>10. QED
  BY <1>1, <1>8, <1>9 DEF Copies, OneEach

LEMMA CopyOtherDevice ==
  ASSUME Inv, Copies, DistinctBodies, NEW n \in Net, NEW body \in Body,
         OtherDeviceSends(n, body)
  PROVE  Copies'
<1> DEFINE m == [state |-> "published", body |-> body, sentNs |-> clock + 1]
<1>1. /\ UNCHANGED <<messages, ops>> /\ sdk[n].state = "none"
      /\ \A j \in Op : ops[j].body # body
      /\ \A i \in Net : sdk[i].body # body
  <2>1. n <= n
    BY DEF Net
  <2>2. QED
    BY <2>1 DEF OtherDeviceSends, NextNet, NewBody
<1>2. sdk' = [sdk EXCEPT ![n] = m] /\ m.body = body
  BY DEF OtherDeviceSends, Stored
<1> HIDE DEF m
<1>3. \A i \in Net : sdk'[i] = IF i = n THEN m ELSE sdk[i]
  BY <1>2 DEF Inv, TypeOK
<1>4. \A j \in Op : Active(j)' = Active(j) /\ PreStore(j)' = PreStore(j)
  BY <1>1 DEF Active, PreStore
<1>5. WorkInv'
  <2>1. OneWriter' /\ WorksOnOwn'
    BY <1>1, <1>4 DEF Copies, WorkInv, OneWriter, WorksOnOwn
  <2>2. NotYetStored'
    BY <1>1, <1>2, <1>3, <1>4 DEF Copies, WorkInv, NotYetStored
  <2>3. StoredAsComposed'
    BY <1>1, <1>3 DEF Copies, WorkInv, StoredAsComposed, Inv, OpGrounded
  <2>4. OneCopy'
    BY <1>1, <1>2, <1>3 DEF Copies, WorkInv, OneCopy
  <2>5. QED
    BY <2>1, <2>2, <2>3, <2>4 DEF WorkInv
<1>6. ASSUME NEW b \in messages PROVE BubbleInv(b)'
  <2>1. /\ BubbleInv(b) /\ b.body # body
        /\ \A i \in Net : b.id = NetId(i) => i # n
    BY <1>1, BodiesKnown DEF Copies, Inv, Grounded
  <2>2. ShowsOwn(b)' /\ AtRest(b)' /\ KnownToWork(b)'
    BY <1>1, <1>2, <1>3, <1>4, <2>1 DEF BubbleInv, ShowsOwn, AtRest, KnownToWork
  <2>3. DigestKnown(b)'
    BY <1>1, <1>2, <1>3, <2>1 DEF BubbleInv, DigestKnown
  <2>4. QED
    BY <2>2, <2>3 DEF BubbleInv
<1>7. QED
  BY <1>1, <1>5, <1>6 DEF Copies, OneEach

\* An echo takes the place of every bubble that shows its body: the one under its id, or the
\* local one, which is in flight and whose digest is known.
LEMMA EchoReplaces ==
  ASSUME Inv, PrepInv, Copies, offers = "prepare", NEW n \in Net, sdk[n].body \in Body,
         NEW next, next.id = NetId(n), next.body = sdk[n].body,
         NEW b \in messages, b.body = next.body
  PROVE  b \in StandsInFor(messages, next)
<1>1. BubbleInv(b) /\ b.id \in Id /\ b.sentNs <= b.sentNs
  BY DEF Copies, Inv, TypeOK, Bubble
<1>2. \A c \in messages : c.body = b.body => c = b
  BY DEF Copies, OneEach
<1>3. CASE Listed(messages, next.id)
  <2>1. PICK c \in messages : c.id = NetId(n)
    BY <1>3 DEF Listed
  <2>2. c.body = sdk[n].body
    BY <2>1 DEF Copies, BubbleInv, ShowsOwn
  <2>3. c = b
    BY <1>2, <2>2
  <2>4. QED
    BY <1>3, <2>1, <2>3 DEF StandsInFor
<1>4. CASE ~Listed(messages, next.id)
  <2>1. IsLocalId(b.id)
    <3>1. \A i \in Net : b.id = NetId(i) => i = n
      BY <1>1, NoBodyAssumption DEF BubbleInv, ShowsOwn, Copies, WorkInv, OneCopy, NoBodyAssumption
    <3>2. QED
      BY <1>1, <1>4, <3>1, IdCases, IdFacts DEF Listed
  <2>2. b.delivery = "pending"
    BY <1>1, <2>1 DEF PrepInv, LocalIsOpen, BubbleInv, AtRest
  <2>3. b.body \in Text \/ (b.body \in File /\ b.uploaded)
    BY <1>1 DEF BubbleInv, DigestKnown, Body
  <2>4. EchoMatches(b, next)
    BY <2>2, <2>3 DEF EchoMatches, AwaitingEcho
  <2>5. \A c \in messages : EchoMatches(c, next) => c = b
    BY <1>2 DEF EchoMatches
  <2>6. QED
    BY <1>1, <1>4, <2>4, <2>5 DEF StandsInFor, Newest
<1>5. QED
  BY <1>3, <1>4

LEMMA CopyEcho ==
  ASSUME Inv, PrepInv, Copies, offers = "prepare", NEW n \in Net, Echo(n)
  PROVE  Copies'
<1>0. PICK next : next = [id |-> NetId(n), body |-> sdk[n].body, sentNs |-> sdk[n].sentNs,
                          delivery |-> "none", uploaded |-> sdk[n].body \in File]
  OBVIOUS
<1>1. /\ messages' = MergeStreamed(messages, next) /\ ops' = ops
      /\ sdk[n].body \in Body /\ sdk[n].body # NoBody
  BY <1>0, NoBodyAssumption DEF Echo, Inv, SdkTyped, NoBodyAssumption
<1>2. \A i \in Net : sdk'[i].body = sdk[i].body
  BY DEF Echo, Inv, TypeOK
<1>3. /\ next.id = NetId(n) /\ next.body = sdk[n].body
      /\ next.body \in File => next.uploaded
  BY <1>0
<1>4. SameWork
  BY <1>1, <1>2 DEF SameWork, Active, PreStore
<1>5. CASE messages' = messages
  BY <1>1, <1>4, <1>5, CopyFewer
<1>6. CASE messages' = (messages \ StandsInFor(messages, next)) \cup {next}
  <2>1. \A b \in messages' : b = next \/ (b \in messages /\ b.body # next.body)
    BY <1>1, <1>3, <1>6, EchoReplaces
  <2>2. OneEach'
    BY <2>1 DEF Copies, OneEach
  <2>3. BubbleInv(next)'
    <3>1. ASSUME NEW k \in Op, Active(k)', ops'[k].body = next.body
          PROVE  ops'[k].pc = "publishing" /\ ops'[k].net = n
      <4>1. Active(k) /\ ops[k].body = sdk[n].body
        BY <1>1, <1>3, <3>1 DEF Active, PreStore
      <4>2. ops[k].pc = "publishing"
        BY <4>1 DEF Copies, WorkInv, NotYetStored, Active
      <4>3. ops[k].net \in Net /\ sdk[ops[k].net].body = sdk[n].body
        BY <4>1, <4>2 DEF Copies, WorkInv, StoredAsComposed, Inv, OpGrounded
      <4>4. QED
        BY <1>1, <4>2, <4>3 DEF Copies, WorkInv, OneCopy
    <3>2. QED
      BY <1>2, <1>3, <3>1, BubbleStored
  <2>4. ASSUME NEW c \in messages, c \in messages' PROVE BubbleInv(c)'
    BY <1>1, <1>4, BubbleKept DEF Copies
  <2>5. QED
    BY <1>4, <2>1, <2>2, <2>3, <2>4, SameWorkInv DEF Copies
<1>7. QED
  BY <1>1, <1>5, <1>6 DEF MergeStreamed

LEMMA CopyReceipt ==
  ASSUME Inv, Copies, NEW upToNs, ReceiptArrives(upToNs)
  PROVE  Copies'
<1>1. UNCHANGED <<ops, sdk>> /\ messages \subseteq Bubble /\ OneEach
  BY DEF ReceiptArrives, Inv, TypeOK, Copies
<1>2. /\ \A c \in messages' : \E x \in messages :
            /\ c.id = x.id /\ c.body = x.body /\ c.uploaded = x.uploaded
            /\ c = x \/ (x.delivery \in {"none", "sent"} /\ c.delivery = "read")
      /\ OneEach'
  BY <1>1, MarkReadDerives DEF ReceiptArrives, OneEach
<1>3. SameWork
  BY <1>1 DEF SameWork, Active, PreStore
<1>4. \A c \in messages' : \E x \in messages :
            /\ c.id = x.id /\ c.body = x.body /\ c.uploaded = x.uploaded
            /\ c.delivery = "failed" => x.delivery = "failed"
  BY <1>2
<1>5. QED
  BY <1>1, <1>2, <1>3, <1>4, CopyDerived

LEMMA CopyStill ==
  ASSUME Inv, Copies, UNCHANGED ops, \A n \in Net : sdk'[n].body = sdk[n].body,
         messages' \subseteq messages
  PROVE  Copies'
<1>1. SameWork
  BY DEF SameWork, Active, PreStore
<1>2. QED
  BY <1>1, CopyFewer

LEMMA CopyNext ==
  ASSUME Inv, PrepInv, Copies, offers = "prepare", DistinctBodies, [Next]_vars
  PROVE  Copies'
<1>1. ASSUME NEW k \in Op, Settles(k) PROVE Copies'
  <2>1. CASE UploadReturns(k)
    BY <2>1, CopyUploadReturns
  <2>2. CASE UploadRefused(k)
    <3>1. messages' \subseteq messages /\ Finish(k, "done") /\ sdk' = sdk
          /\ ops[k].pc # "unused"
      BY <2>2 DEF UploadRefused, DiscardMessage
    <3>2. QED
      BY <3>1, CopyEndsFewer
  <2>3. CASE PrepareReturns(k)
    <3>1. /\ ops[k].pc = "preparing" /\ PreStore(k) /\ Finish(k, "storing")
          /\ UNCHANGED <<messages, sdk>>
      BY <2>3 DEF PrepareReturns, PreStore
    <3>2. SameWork
      BY <3>1, FinishSameWork
    <3>3. \A j \in Op : ops'[j].pc \in {"preparing", "storing"}
                          => ops[j].pc \in {"preparing", "storing"}
      BY <3>1, FinishExact
    <3>4. QED
      BY <3>1, <3>2, <3>3, CopyFewer
  <2>4. CASE FailsUnstored(k)
    BY <2>4, CopyFailsUnstored
  <2>5. CASE \E n \in Net : SdkStores(k, n)
    BY <2>5, CopySdkStores
  <2>6. CASE PublishSettles(k)
    BY <2>6, CopyPublished DEF PublishSettles
  <2>7. CASE PublishTimesOut(k)
    BY <2>7, CopyPublished DEF PublishTimesOut
  <2>8. CASE SendSettles(k)
    BY <2>8 DEF SendSettles, PrepInv, NeverSends
  <2>9. CASE RepublishSettles(k)
    BY <2>9, CopyRepublishSettles
  <2>10. QED
    BY <1>1, <2>1, <2>2, <2>3, <2>4, <2>5, <2>6, <2>7, <2>8, <2>9 DEF Settles
<1>2. CASE User
  <2>1. ASSUME NEW b \in messages, DiscardFailed(b) PROVE Copies'
    BY <2>1, CopyStill DEF DiscardFailed, DiscardMessage
  <2>2. QED
    BY <1>2, <2>1, CopySend, CopyRetry DEF User
<1>3. CASE Environment
  <2>1. ASSUME NEW n \in Net, SdkPublishes(n) PROVE Copies'
    <3>1. \A i \in Net : sdk'[i].body = sdk[i].body
      BY <2>1 DEF SdkPublishes, Inv, TypeOK
    <3>2. QED
      BY <2>1, <3>1, CopyStill DEF SdkPublishes
  <2>2. QED
    BY <1>3, <2>1, CopyOtherDevice, CopyEcho, CopyReceipt DEF Environment
<1>4. CASE UNCHANGED vars
  BY <1>4, CopyStill DEF vars
<1>5. QED
  BY <1>1, <1>2, <1>3, <1>4 DEF Next

LEMMA CopyStep == Inv /\ PrepInv /\ CopyInv /\ [Next]_vars => CopyInv'
  BY CopyNext, OffersFixed DEF CopyInv

LEMMA AlwaysCopy == Spec => []CopyInv
  BY CopyInit, CopyStep, AlwaysInv, AlwaysPrep, PTL DEF Spec

\* With prepareMessage, however often a send fails and is retried, the SDK stores what was
\* composed at most once: a retry resends only a bubble whose message the SDK never had.
THEOREM StoredOnce == Spec => []OneCopyForPeer
<1>1. CopyInv => OneCopyForPeer
  BY DEF CopyInv, Copies, WorkInv, OneCopy, OneCopyForPeer
<1>2. QED
  BY <1>1, AlwaysCopy, PTL

\* With prepareMessage an echo never double-bubbles: when it lands before the ack it finds
\* the bubble of the send, whose digest is recorded by then.
THEOREM ShownOnce == Spec => []OneBubble
<1>1. CopyInv => OneBubble
  BY DEF CopyInv, Copies, OneEach, OneBubble
<1>2. QED
  BY <1>1, AlwaysCopy, PTL

-----------------------------------------------------------------------------
(* With prepareMessage and distinct bodies, a failure has a bubble to show on. *)

Shows ==
    \A k \in Op :
        /\ PreStore(k) => Listed(messages, ops[k].bubble)
        /\ ops[k].pc = "publishing" =>
              \/ Listed(messages, ops[k].bubble)
              \/ \E b \in messages : b.id = NetId(ops[k].net) /\ Confirmed(b)
        /\ ops[k].pc = "publishing" =>
              \A b \in messages : b.id = NetId(ops[k].net) => Confirmed(b)

ShowInv == offers = "prepare" /\ DistinctBodies => Shows

\* An operation at work is where it was, got its message stored, or is new.
Onward ==
    \A k \in Op : Active(k)' =>
        \/ /\ PreStore(k)' /\ ~Active(k) /\ Listed(messages', ops'[k].bubble)
        \/ /\ PreStore(k)' /\ PreStore(k) /\ ops'[k].bubble = ops[k].bubble
        \/ /\ ops'[k].pc = "publishing" /\ PreStore(k) /\ ops'[k].bubble = ops[k].bubble
           /\ ~Listed(messages, NetId(ops'[k].net))
        \/ /\ ops'[k].pc = "publishing" /\ ops[k].pc = "publishing"
           /\ ops'[k].bubble = ops[k].bubble /\ ops'[k].net = ops[k].net

\* What a step owes to the bubbles of the operations at work and to the confirmed ones.
LEMMA ShowsBy ==
  ASSUME Inv, Shows, FinalStep, Onward,
         \A k \in Op : Active(k)' /\ Active(k) /\ Listed(messages, ops[k].bubble) =>
            \/ Listed(messages', ops[k].bubble)
            \/ /\ ops'[k].pc = "publishing"
               /\ \E b \in messages' : b.id = NetId(ops'[k].net) /\ Confirmed(b),
         \A b \in messages : Confirmed(b) => Listed(messages', b.id),
         \A c \in messages' :
            \/ Listed(messages, c.id)
            \/ Confirmed(c)
            \/ \A k \in Op : ops'[k].pc = "publishing" => c.id # NetId(ops'[k].net)
  PROVE  Shows'
<1>1. \A b \in messages : Confirmed(b) => \E c \in messages' : c.id = b.id /\ Confirmed(c)
  BY DEF FinalStep, Listed
<1>2. SUFFICES ASSUME NEW k \in Op
               PROVE  /\ PreStore(k)' => Listed(messages', ops'[k].bubble)
                      /\ ops'[k].pc = "publishing" =>
                            \/ Listed(messages', ops'[k].bubble)
                            \/ \E b \in messages' : b.id = NetId(ops'[k].net) /\ Confirmed(b)
                      /\ ops'[k].pc = "publishing" =>
                            \A b \in messages' : b.id = NetId(ops'[k].net) => Confirmed(b)
  BY DEF Shows
<1>3. CASE PreStore(k)'
  <2>1. Active(k)' /\ ops'[k].pc # "publishing"
    BY <1>3 DEF Active, PreStore
  <2>2. \/ Listed(messages', ops'[k].bubble)
        \/ PreStore(k) /\ ops'[k].bubble = ops[k].bubble
    BY <2>1 DEF Onward
  <2>3. QED
    BY <2>1, <2>2 DEF Shows, Active
<1>4. CASE ops'[k].pc = "publishing"
  <2>1. Active(k)' /\ ~PreStore(k)'
    BY <1>4 DEF Active, PreStore
  <2>2. /\ Active(k) /\ ops'[k].bubble = ops[k].bubble
        /\ \/ PreStore(k) /\ ~Listed(messages, NetId(ops'[k].net))
           \/ ops[k].pc = "publishing" /\ ops'[k].net = ops[k].net
    BY <2>1 DEF Onward, Active
  <2>3. \/ Listed(messages, ops[k].bubble)
        \/ \E b \in messages : b.id = NetId(ops'[k].net) /\ Confirmed(b)
    BY <2>2 DEF Shows
  <2>4. ASSUME NEW c \in messages', c.id = NetId(ops'[k].net) PROVE Confirmed(c)
    <3>1. CASE Listed(messages, c.id)
      <4>1. PICK b \in messages : b.id = c.id
        BY <3>1 DEF Listed
      <4>2. Confirmed(b)
        BY <2>2, <2>4, <3>1, <4>1 DEF Shows
      <4>3. QED
        BY <4>1, <4>2 DEF FinalStep
    <3>2. CASE ~Listed(messages, c.id)
      BY <1>4, <2>4, <3>2
    <3>3. QED
      BY <3>1, <3>2
  <2>5. QED
    BY <1>1, <2>1, <2>2, <2>3, <2>4
<1>5. QED
  BY <1>3, <1>4

\* The steps that keep every id that is listed and list no other.
LEMMA ShowsSameIds ==
  ASSUME Inv, Shows, FinalStep, Onward,
         \A b \in messages : Listed(messages', b.id),
         \A c \in messages' : Listed(messages, c.id)
  PROVE  Shows'
<1>1. \A k \in Op : Listed(messages, ops[k].bubble) => Listed(messages', ops[k].bubble)
  BY DEF Listed
<1>2. QED
  BY <1>1, ShowsBy

LEMMA FinishOnward ==
  ASSUME Inv, NEW k \in Op, NEW pc, Finish(k, pc),
         \/ pc \in {"done", "failed"}
         \/ pc \in {"preparing", "storing"} /\ PreStore(k)
  PROVE  Onward
<1>1. \A j \in Op : /\ ops'[j].pc = IF j = k THEN pc ELSE ops[j].pc
                    /\ ops'[j].bubble = ops[j].bubble
                    /\ ops'[j].net = ops[j].net
  BY FinishExact
<1>2. QED
  BY <1>1 DEF Onward, Active, PreStore

\* Two operations at work on one listed bubble are one.
LEMMA WorkApart ==
  ASSUME Inv, PrepInv, Copies, offers = "prepare", NEW j \in Op, NEW k \in Op,
         Active(j), Active(k), Listed(messages, ops[j].bubble),
         ops[j].bubble = ops[k].bubble
  PROVE  j = k
<1>1. PICK b \in messages : b.id = ops[j].bubble
  BY DEF Listed
<1>2. WorkInv /\ BubbleInv(b)
  BY DEF Copies
<1>3. b.body = ops[j].body /\ b.body = ops[k].body
  BY <1>1, <1>2, OwnBody
<1>4. QED
  BY <1>2, <1>3 DEF WorkInv, OneWriter

\* An operation that ends and drops its bubble; what it dropped was only its own.
LEMMA ShowsDropped ==
  ASSUME Inv, PrepInv, Copies, Shows, FinalStep, offers = "prepare",
         NEW k \in Op, Active(k), NEW pc \in {"done", "failed"}, Finish(k, pc),
         messages' = DiscardMessage(messages, ops[k].bubble)
  PROVE  Shows'
<1>1. Onward
  BY FinishOnward
<1>2. \A j \in Op : Active(j)' => j # k
  BY FinishExact DEF Active, PreStore
<1>3. ASSUME NEW j \in Op, Active(j)', Active(j), Listed(messages, ops[j].bubble)
      PROVE  Listed(messages', ops[j].bubble)
  <2>1. ops[j].bubble # ops[k].bubble
    BY <1>2, <1>3, WorkApart
  <2>2. QED
    BY <1>3, <2>1 DEF Listed, DiscardMessage
<1>4. ASSUME NEW b \in messages, Confirmed(b) PROVE Listed(messages', b.id)
  <2>1. b.id # ops[k].bubble
    BY <1>4, IdFacts DEF Inv, Grounded, Confirmed, PrepInv, SendsLocal
  <2>2. QED
    BY <2>1 DEF Listed, DiscardMessage
<1>5. \A c \in messages' : Listed(messages, c.id)
  BY DEF Listed, DiscardMessage
<1>6. QED
  BY <1>1, <1>3, <1>4, <1>5, ShowsBy

\* An operation that ends and whose bubble takes the id of the stored message.
LEMMA ShowsRekeyed ==
  ASSUME Inv, PrepInv, Copies, Shows, FinalStep, offers = "prepare",
         NEW k \in Op, ops[k].pc = "publishing", NEW pc \in {"done", "failed"}, Finish(k, pc),
         NEW net \in Net, net = ops[k].net, NEW d \in Delivery,
         messages' = Marked(messages, ops[k].bubble, NetId(net), d)
  PROVE  Shows'
<1>1. Onward /\ Active(k)
  BY FinishOnward DEF Active
<1>2. \A j \in Op : Active(j)' => j # k
  BY FinishExact DEF Active, PreStore
<1>3. /\ \A c \in messages' : \E b \in messages :
            \/ c = b /\ b.id # ops[k].bubble
            \/ b.id = ops[k].bubble /\ c.id = NetId(net)
      /\ \A b \in messages : b.id # ops[k].bubble => b \in messages'
  <2>1. messages \subseteq Bubble /\ ops[k].bubble \in Id /\ NetId(net) \in Id
    BY IdFacts DEF Inv, TypeOK, OpGrounded
  <2>2. QED
    BY <2>1, MarkedDerives
<1>4. ASSUME NEW j \in Op, Active(j)', Active(j), Listed(messages, ops[j].bubble)
      PROVE  Listed(messages', ops[j].bubble)
  <2>1. ops[j].bubble # ops[k].bubble
    BY <1>1, <1>2, <1>4, WorkApart
  <2>2. QED
    BY <1>3, <1>4, <2>1 DEF Listed
<1>5. ASSUME NEW b \in messages, Confirmed(b) PROVE Listed(messages', b.id)
  <2>1. b.id # ops[k].bubble
    BY <1>1, <1>5, IdFacts DEF Inv, Grounded, Confirmed, PrepInv, SendsLocal
  <2>2. QED
    BY <1>3, <2>1 DEF Listed
<1>6. ASSUME NEW j \in Op, ops'[j].pc = "publishing" PROVE NetId(net) # NetId(ops'[j].net)
  <2>1. ops[j].pc = "publishing" /\ ops'[j].net = ops[j].net /\ j # k
    BY <1>6, FinishExact
  <2>2. /\ ops[j].net \in Net
        /\ sdk[ops[j].net].body = ops[j].body /\ sdk[net].body = ops[k].body
    BY <2>1 DEF Inv, OpGrounded, Copies, WorkInv, StoredAsComposed
  <2>3. ops[j].net # net
    BY <1>1, <2>1, <2>2 DEF Copies, WorkInv, OneWriter, Active
  <2>4. QED
    BY <2>1, <2>2, <2>3, IdFacts
<1>7. \A c \in messages' : \/ Listed(messages, c.id)
                           \/ \A j \in Op : ops'[j].pc = "publishing" => c.id # NetId(ops'[j].net)
  BY <1>3, <1>6 DEF Listed
<1>8. QED
  BY <1>1, <1>4, <1>5, <1>7, ShowsBy

LEMMA ShowsPublished ==
  ASSUME Inv, PrepInv, Copies, Shows, FinalStep, offers = "prepare",
         NEW k \in Op, ops[k].pc = "publishing",
         \/ \E d \in {"sent", "unpublished"} : Acked(k, d)
         \/ Fails(k, NetId(ops[k].net))
  PROVE  Shows'
<1>1. PICK net \in Net : net = ops[k].net
  BY DEF Inv, OpGrounded
<1>2. NetId(net) # NoId /\ NetId(net) # ops[k].bubble /\ Active(k)
  BY IdFacts DEF PrepInv, SendsLocal, Active
<1>3. PICK d \in Delivery, pc \in {"done", "failed"} :
        /\ Finish(k, pc)
        /\ messages' = IF Listed(messages, NetId(net))
                         THEN DiscardMessage(messages, ops[k].bubble)
                         ELSE Marked(messages, ops[k].bubble, NetId(net), d)
  <2>1. CASE Fails(k, NetId(net))
    BY <1>2, <2>1 DEF Fails, SetDelivery, Delivery
  <2>2. ASSUME NEW d \in {"sent", "unpublished"}, Acked(k, d)
        PROVE  /\ Finish(k, "done") /\ d \in Delivery
               /\ messages' = IF Listed(messages, NetId(net))
                                THEN DiscardMessage(messages, ops[k].bubble)
                                ELSE Marked(messages, ops[k].bubble, NetId(net), d)
    BY <1>1, <2>2 DEF Acked, ReconcileSent, Delivery
  <2>3. QED
    BY <1>1, <2>1, <2>2
<1>4. CASE Listed(messages, NetId(net))
  BY <1>2, <1>3, <1>4, ShowsDropped
<1>5. CASE ~Listed(messages, NetId(net))
  BY <1>1, <1>3, <1>5, ShowsRekeyed
<1>6. QED
  BY <1>4, <1>5

LEMMA ShowsSettles ==
  ASSUME Inv, PrepInv, Copies, Shows, FinalStep, offers = "prepare",
         NEW k \in Op, Settles(k)
  PROVE  Shows'
<1>1. messages \subseteq Bubble /\ (ops[k].pc # "unused" => ops[k].bubble \in Id)
  BY DEF Inv, TypeOK, OpGrounded
<1>2. ASSUME messages' = Marked(messages, ops[k].bubble, ops[k].bubble, "failed") \/
             messages' = Marked(messages, ops[k].bubble, ops[k].bubble, "sent") \/
             messages' = Marked(messages, ops[k].bubble, ops[k].bubble, "unpublished"),
             Onward, ops[k].pc # "unused"
      PROVE  Shows'
  <2>1. PICK d \in Delivery : messages' = Marked(messages, ops[k].bubble, ops[k].bubble, d)
    BY <1>2 DEF Delivery
  <2>2. /\ \A c \in messages' : Listed(messages, c.id)
        /\ \A b \in messages : Listed(messages', b.id)
    <3>1. /\ \A c \in messages' : \E b \in messages : c = b \/ (b.id = ops[k].bubble /\ c.id = b.id)
          /\ \A b \in messages : \E c \in messages' : c = b \/ (b.id = ops[k].bubble /\ c.id = b.id)
      <4>1. ops[k].bubble \in Id
        BY <1>1, <1>2
      <4>2. QED
        BY <1>1, <2>1, <4>1, MarkedDerives
    <3>2. QED
      BY <3>1 DEF Listed
  <2>3. QED
    BY <1>2, <2>2, ShowsSameIds
<1>3. CASE UploadReturns(k)
  <2>1. /\ \A c \in messages' : Listed(messages, c.id)
        /\ \A b \in messages : Listed(messages', b.id)
    BY <1>1, <1>3, AttachDerives DEF UploadReturns, Listed
  <2>2. Onward
    BY <1>3, FinishOnward DEF UploadReturns, PreStore
  <2>3. QED
    BY <2>1, <2>2, ShowsSameIds
<1>4. CASE UploadRefused(k)
  BY <1>4, ShowsDropped DEF UploadRefused, Active, PreStore
<1>5. CASE PrepareReturns(k)
  <2>1. Onward /\ messages' = messages
    BY <1>5, FinishOnward DEF PrepareReturns, PreStore
  <2>2. QED
    BY <2>1, ShowsSameIds DEF Listed
<1>6. CASE FailsUnstored(k)
  <2>1. Onward /\ ops[k].pc # "unused"
    BY <1>6, FinishOnward DEF FailsUnstored, Fails
  <2>2. messages' = Marked(messages, ops[k].bubble, ops[k].bubble, "failed")
    BY <1>6 DEF FailsUnstored, Fails, SetDelivery
  <2>3. QED
    BY <1>2, <2>1, <2>2
<1>7. CASE \E n \in Net : SdkStores(k, n)
  <2>1. PICK n \in Net : SdkStores(k, n)
    BY <1>7
  <2> DEFINE o == [ops[k] EXCEPT !.pc = "publishing", !.net = n]
  <2>2. ops' = [ops EXCEPT ![k] = o] /\ messages' = messages /\ PreStore(k)
    BY <2>1 DEF SdkStores, PreStore
  <2>3. o.pc = "publishing" /\ o.bubble = ops[k].bubble /\ o.net = n
    BY DEF Inv, TypeOK, Operation
  <2> HIDE DEF o
  <2>4. \A j \in Op : ops'[j] = IF j = k THEN o ELSE ops[j]
    BY <2>2, StartExact
  <2>5. ~Listed(messages, NetId(n))
    <3>1. sdk[n].state = "none"
      <4>1. n <= n
        BY DEF Net
      <4>2. QED
        BY <2>1, <4>1 DEF SdkStores, NextNet
    <3>2. QED
      BY <3>1 DEF Inv, Grounded, Listed
  <2>6. Onward
    BY <2>2, <2>3, <2>4, <2>5 DEF Onward, Active, PreStore
  <2>7. QED
    BY <2>2, <2>6, ShowsSameIds DEF Listed
<1>8. CASE PublishSettles(k)
  BY <1>8, ShowsPublished DEF PublishSettles
<1>9. CASE PublishTimesOut(k)
  BY <1>9, ShowsPublished DEF PublishTimesOut
<1>10. CASE SendSettles(k)
  BY <1>10 DEF SendSettles, PrepInv, NeverSends
<1>11. CASE RepublishSettles(k)
  <2>1. Onward /\ ops[k].pc # "unused" /\ NoId \notin Id
    BY <1>11, FinishOnward, IdFacts DEF RepublishSettles
  <2>2. CASE messages' = messages
    BY <2>1, <2>2, ShowsSameIds DEF Listed
  <2>3. CASE messages' # messages
    BY <1>2, <1>11, <2>1, <2>3 DEF RepublishSettles, SettleRetry, SetDelivery
  <2>4. QED
    BY <2>2, <2>3
<1>12. QED
  BY <1>3, <1>4, <1>5, <1>6, <1>7, <1>8, <1>9, <1>10, <1>11 DEF Settles

LEMMA ShowsUser ==
  ASSUME Inv, PrepInv, Copies, Shows, FinalStep, offers = "prepare", User
  PROVE  Shows'
<1>1. ASSUME NEW k \in Op, NEW body \in Body, Send(k, body) PROVE Shows'
  <2> DEFINE o == [pc |-> IF body \in File THEN "uploading" ELSE "preparing",
                   bubble |-> LocalId(k), body |-> body, net |-> 0]
             b0 == [id |-> LocalId(k), body |-> body, sentNs |-> clock + 1,
                    delivery |-> "pending", uploaded |-> FALSE]
  <2>1. ops' = [ops EXCEPT ![k] = o] /\ messages' = messages \cup {b0}
    BY <1>1 DEF Send
  <2>2. o.pc \in {"uploading", "preparing"} /\ o.bubble = LocalId(k) /\ b0.id = LocalId(k)
    OBVIOUS
  <2> HIDE DEF o, b0
  <2>3. \A j \in Op : ops'[j] = IF j = k THEN o ELSE ops[j]
    BY <2>1, StartExact
  <2>4. ops[k].pc = "unused"
    <3>1. k <= k
      BY DEF Op
    <3>2. QED
      BY <1>1, <3>1 DEF Send, NextOp
  <2>5. Listed(messages', LocalId(k)) /\ \A id : Listed(messages, id) => Listed(messages', id)
    BY <2>1, <2>2 DEF Listed
  <2>6. Onward
    BY <2>2, <2>3, <2>4, <2>5 DEF Onward, Active, PreStore
  <2>7. \A c \in messages' :
           \/ Listed(messages, c.id)
           \/ \A j \in Op : ops'[j].pc = "publishing" => c.id # NetId(ops'[j].net)
    <3>1. \A j \in Op : ops'[j].pc = "publishing" => ops'[j].net \in Net
      BY <2>2, <2>3 DEF Inv, OpGrounded
    <3>2. QED
      BY <2>1, <2>2, <3>1, IdFacts DEF Listed
  <2>8. \A b \in messages : Listed(messages, b.id)
    BY DEF Listed
  <2>9. QED
    BY <2>5, <2>6, <2>7, <2>8, ShowsBy
<1>2. ASSUME NEW k \in Op, NEW b \in messages, RetryMessage(k, b) PROVE Shows'
  <2>1. PICK o :
          /\ ops' = [ops EXCEPT ![k] = o]
          /\ o.pc \in {"republishing", "uploading", "preparing"} /\ o.bubble = b.id
    <3> DEFINE r(pc) == [pc |-> pc, bubble |-> b.id, body |-> b.body, net |-> 0]
    <3>1. \A pc : r(pc).pc = pc /\ r(pc).bubble = b.id
      OBVIOUS
    <3>2. \E pc \in {"republishing", "uploading", "preparing"} : ops' = [ops EXCEPT ![k] = r(pc)]
      BY <1>2, RetryWork
    <3> HIDE DEF r
    <3>3. QED
      BY <3>1, <3>2
  <2>2. \A j \in Op : ops'[j] = IF j = k THEN o ELSE ops[j]
    BY <2>1, StartExact
  <2>3. ops[k].pc = "unused" /\ b.id \in Id
    BY <1>2, RetryWork
  <2>4. /\ \A c \in messages' : Listed(messages, c.id)
        /\ \A x \in messages : Listed(messages', x.id)
    <3>1. messages' = Marked(messages, b.id, b.id, "pending")
      BY <1>2 DEF RetryMessage, SetDelivery
    <3>2. messages \subseteq Bubble /\ "pending" \in Delivery
      BY DEF Inv, TypeOK, Delivery
    <3>3. QED
      BY <2>3, <3>1, <3>2, MarkedDerives DEF Listed
  <2>5. Onward
    BY <2>1, <2>2, <2>3, <2>4 DEF Onward, Active, PreStore
  <2>6. QED
    BY <2>4, <2>5, ShowsSameIds
<1>3. ASSUME NEW b \in messages, DiscardFailed(b) PROVE Shows'
  <2>1. /\ b.delivery = "failed" /\ ops' = ops
        /\ messages' = {x \in messages : x.id # b.id}
    BY <1>3 DEF DiscardFailed, DiscardMessage
  <2>2. Onward
    BY <2>1 DEF Onward, Active, PreStore
  <2>3. ASSUME NEW k \in Op, Active(k), Listed(messages, ops[k].bubble)
        PROVE  Listed(messages', ops[k].bubble)
    <3>1. ops[k].bubble # b.id
      <4>1. SUFFICES ASSUME b.id = ops[k].bubble PROVE FALSE
        OBVIOUS
      <4>2. BubbleInv(b) /\ b.body = ops[k].body /\ IsLocalId(b.id)
        BY <2>3, <4>1, OwnBody DEF Copies, PrepInv, SendsLocal
      <4>3. QED
        BY <2>1, <2>3, <4>2 DEF BubbleInv, AtRest
    <3>2. QED
      BY <2>1, <2>3, <3>1 DEF Listed
  <2>4. \A x \in messages : Confirmed(x) => Listed(messages', x.id)
    BY <2>1 DEF Confirmed, Inv, UniqueIds, Listed
  <2>5. \A c \in messages' : Listed(messages, c.id)
    BY <2>1 DEF Listed
  <2>6. QED
    BY <2>2, <2>3, <2>4, <2>5, ShowsBy
<1>4. QED
  BY <1>1, <1>2, <1>3 DEF User

LEMMA ShowsEcho ==
  ASSUME Inv, PrepInv, Copies, Shows, FinalStep, offers = "prepare", NEW n \in Net, Echo(n)
  PROVE  Shows'
<1>0. PICK next : next = [id |-> NetId(n), body |-> sdk[n].body, sentNs |-> sdk[n].sentNs,
                          delivery |-> "none", uploaded |-> sdk[n].body \in File]
  OBVIOUS
<1>1. /\ messages' = MergeStreamed(messages, next) /\ ops' = ops
      /\ sdk[n].body \in Body /\ sdk[n].body # NoBody
      /\ next.id = NetId(n) /\ next.body = sdk[n].body /\ Confirmed(next)
  BY <1>0, NoBodyAssumption DEF Echo, Inv, SdkTyped, NoBodyAssumption, Confirmed
<1>2. Onward
  BY <1>1 DEF Onward, Active, PreStore
<1>3. CASE messages' = messages
  BY <1>2, <1>3, ShowsSameIds DEF Listed
<1>4. CASE messages' = (messages \ StandsInFor(messages, next)) \cup {next}
  <2>1. ASSUME NEW k \in Op, Active(k), Listed(messages, ops[k].bubble)
        PROVE  \/ Listed(messages', ops[k].bubble)
               \/ /\ ops'[k].pc = "publishing"
                  /\ \E b \in messages' : b.id = NetId(ops'[k].net) /\ Confirmed(b)
    <3>1. PICK x \in messages : x.id = ops[k].bubble
      BY <2>1 DEF Listed
    <3>2. CASE x \notin StandsInFor(messages, next)
      BY <1>4, <3>1, <3>2 DEF Listed
    <3>3. CASE x \in StandsInFor(messages, next)
      <4>1. x.id # NetId(n)
        BY <2>1, <3>1, IdFacts DEF PrepInv, SendsLocal
      <4>2. x.body = sdk[n].body
        BY <1>1, <3>3, <4>1 DEF StandsInFor, Newest, EchoMatches
      <4>3. x.body = ops[k].body
        BY <2>1, <3>1, OwnBody DEF Copies
      <4>4. ops[k].pc = "publishing"
        BY <2>1, <4>2, <4>3 DEF Copies, WorkInv, NotYetStored, Active
      <4>5. ops[k].net \in Net /\ sdk[ops[k].net].body = ops[k].body
        BY <4>4 DEF Copies, WorkInv, StoredAsComposed, Inv, OpGrounded
      <4>6. ops[k].net = n
        BY <1>1, <4>2, <4>3, <4>5 DEF Copies, WorkInv, OneCopy
      <4>7. QED
        BY <1>1, <1>4, <4>4, <4>6
    <3>4. QED
      BY <3>2, <3>3
  <2>2. ASSUME NEW b \in messages, Confirmed(b) PROVE Listed(messages', b.id)
    <3>1. CASE b \in StandsInFor(messages, next)
      <4>1. b.id = next.id
        BY <2>2, <3>1 DEF StandsInFor, Newest, EchoMatches, AwaitingEcho, Confirmed
      <4>2. QED
        BY <1>4, <4>1 DEF Listed
    <3>2. CASE b \notin StandsInFor(messages, next)
      BY <1>4, <3>2 DEF Listed
    <3>3. QED
      BY <3>1, <3>2
  <2>3. \A c \in messages' : Listed(messages, c.id) \/ Confirmed(c)
    BY <1>1, <1>4 DEF Listed
  <2>4. QED
    BY <1>2, <2>1, <2>2, <2>3, ShowsBy
<1>5. QED
  BY <1>1, <1>3, <1>4 DEF MergeStreamed

LEMMA ShowsNext ==
  ASSUME Inv, PrepInv, Copies, Shows, offers = "prepare", [Next]_vars
  PROVE  Shows'
<1>1. FinalStep
  BY FinalNext
<1>2. ASSUME NEW k \in Op, Settles(k) PROVE Shows'
  BY <1>1, <1>2, ShowsSettles
<1>3. CASE User
  BY <1>1, <1>3, ShowsUser
<1>4. ASSUME NEW upToNs, ReceiptArrives(upToNs) PROVE Shows'
  <2>1. Onward
    BY <1>4 DEF ReceiptArrives, Onward, Active, PreStore
  <2>2. /\ \A c \in messages' : \E b \in messages : c.id = b.id
        /\ \A b \in messages : \E c \in messages' : c.id = b.id
    BY <1>4, MarkReadDerives DEF ReceiptArrives, Inv, TypeOK
  <2>3. QED
    BY <1>1, <2>1, <2>2, ShowsSameIds DEF Listed
<1>5. ASSUME NEW n \in Net, Echo(n) PROVE Shows'
  BY <1>1, <1>5, ShowsEcho
<1>6. ASSUME UNCHANGED <<messages, ops>> PROVE Shows'
  <2>1. Onward
    BY <1>6 DEF Onward, Active, PreStore
  <2>2. QED
    BY <1>1, <1>6, <2>1, ShowsSameIds DEF Listed
<1>7. CASE UNCHANGED vars
  BY <1>6, <1>7 DEF vars
<1>8. CASE Environment
  BY <1>4, <1>5, <1>6, <1>8 DEF Environment, SdkPublishes, OtherDeviceSends
<1>9. QED
  BY <1>2, <1>3, <1>7, <1>8 DEF Next

LEMMA ShowStep == Inv /\ PrepInv /\ CopyInv /\ ShowInv /\ [Next]_vars => ShowInv'
  BY ShowsNext, OffersFixed DEF ShowInv, CopyInv

LEMMA ShowInit == Init => ShowInv
  BY DEF Init, ShowInv, Shows, PreStore, Unused

LEMMA AlwaysShow == Spec => []ShowInv
  BY ShowInit, ShowStep, AlwaysInv, AlwaysPrep, AlwaysCopy, PTL DEF Spec

\* What a failure leaves of the operation's bubble, when its message is k's own.
FailureSeen(k) ==
    \E b \in messages' :
        \/ b.id \in {ops[k].bubble, NetId(ops[k].net)} /\ b.delivery = "failed"
        \/ b.id = NetId(ops[k].net) /\ Confirmed(b)

LEMMA FailureSeenNext ==
  ASSUME Inv, PrepInv, Shows, offers = "prepare", [Next]_vars,
         NEW k \in Op, ops[k].pc # "failed", ops'[k].pc = "failed"
  PROVE  FailureSeen(k)
<1>1. messages \subseteq Bubble /\ (ops[k].pc # "unused" => ops[k].bubble \in Id)
  BY DEF Inv, TypeOK, OpGrounded
<1>2. FailsUnstored(k) \/ (ops[k].pc = "publishing" /\ Fails(k, NetId(ops[k].net)))
  <2>1. ASSUME NEW j \in Op, NEW pc, Finish(j, pc) PROVE j = k /\ pc = "failed"
    BY <2>1, FinishExact
  <2>2. ASSUME NEW j \in Op, NEW o, ops' = [ops EXCEPT ![j] = o], o.pc # "failed" PROVE FALSE
    BY <2>2, StartExact
  <2>3. ASSUME NEW j \in Op, Settles(j)
        PROVE  FailsUnstored(k) \/ (ops[k].pc = "publishing" /\ Fails(k, NetId(ops[k].net)))
    <3>1. CASE UploadReturns(j) \/ UploadRefused(j) \/ PrepareReturns(j) \/ RepublishSettles(j)
      BY <2>1, <3>1 DEF UploadReturns, UploadRefused, PrepareReturns, RepublishSettles
    <3>2. CASE FailsUnstored(j)
      BY <2>1, <3>2 DEF FailsUnstored, Fails
    <3>3. ASSUME NEW n \in Net, SdkStores(j, n) PROVE FALSE
      <4> DEFINE o == [ops[j] EXCEPT !.pc = "publishing", !.net = n]
      <4>1. ops' = [ops EXCEPT ![j] = o]
        BY <3>3 DEF SdkStores
      <4>2. o.pc # "failed"
        BY DEF Inv, TypeOK, Operation
      <4> HIDE DEF o
      <4>3. QED
        BY <2>2, <4>1, <4>2
    <3>4. CASE PublishSettles(j) \/ PublishTimesOut(j)
      BY <2>1, <3>4 DEF PublishSettles, PublishTimesOut, Acked, Fails
    <3>5. CASE SendSettles(j)
      BY <3>5 DEF SendSettles, PrepInv, NeverSends
    <3>6. QED
      BY <2>3, <3>1, <3>2, <3>3, <3>4, <3>5 DEF Settles
  <2>4. ASSUME NEW j \in Op, NEW body \in Body, Send(j, body) PROVE FALSE
    <3> DEFINE o == [pc |-> IF body \in File THEN "uploading" ELSE "preparing",
                     bubble |-> LocalId(j), body |-> body, net |-> 0]
    <3>1. ops' = [ops EXCEPT ![j] = o] /\ o.pc # "failed"
      BY <2>4 DEF Send
    <3> HIDE DEF o
    <3>2. QED
      BY <2>2, <3>1
  <2>5. ASSUME NEW j \in Op, NEW b \in messages, RetryMessage(j, b) PROVE FALSE
    <3> DEFINE r(pc) == [pc |-> pc, bubble |-> b.id, body |-> b.body, net |-> 0]
    <3>1. \A pc : r(pc).pc = pc
      OBVIOUS
    <3>2. \E pc \in {"republishing", "uploading", "preparing"} : ops' = [ops EXCEPT ![j] = r(pc)]
      BY <2>5, RetryWork
    <3> HIDE DEF r
    <3>3. QED
      BY <2>2, <3>1, <3>2
  <2>6. CASE UNCHANGED ops
    BY <2>6
  <2>7. QED
    BY <2>3, <2>4, <2>5, <2>6
       DEF Next, vars, User, DiscardFailed, Environment, SdkPublishes, OtherDeviceSends, Echo,
           ReceiptArrives
<1>3. CASE FailsUnstored(k)
  <2>1. /\ messages' = Marked(messages, ops[k].bubble, ops[k].bubble, "failed")
        /\ "failed" \in Delivery /\ ops[k].bubble \in Id
    BY <1>1, <1>3 DEF FailsUnstored, Fails, SetDelivery, Delivery
  <2>2. PICK b \in messages : b.id = ops[k].bubble
    BY <1>3 DEF FailsUnstored, Shows, PreStore, Listed
  <2>3. \E c \in messages' : c.id = ops[k].bubble /\ c.delivery = "failed"
    BY <1>1, <2>1, <2>2, MarkedDerives
  <2>4. QED
    BY <2>3 DEF FailureSeen
<1>4. CASE ops[k].pc = "publishing" /\ Fails(k, NetId(ops[k].net))
  <2>1. PICK net \in Net : net = ops[k].net
    BY <1>4 DEF Inv, OpGrounded
  <2>2. /\ NetId(net) \notin {NoId, ops[k].bubble} /\ NetId(net) \in Id
        /\ ops[k].bubble \in Id /\ "failed" \in Delivery
    BY <1>1, <1>4, IdFacts DEF PrepInv, SendsLocal, Active, Delivery
  <2>3. ASSUME NEW b \in messages, b.id = NetId(net) PROVE FailureSeen(k)
    <3>1. messages' = DiscardMessage(messages, ops[k].bubble)
      BY <1>4, <2>1, <2>2, <2>3 DEF Fails, SetDelivery, Listed
    <3>2. Confirmed(b) /\ b \in messages'
      BY <1>4, <2>1, <2>2, <2>3, <3>1 DEF Shows, DiscardMessage
    <3>3. QED
      BY <2>1, <2>3, <3>2 DEF FailureSeen
  <2>4. CASE ~Listed(messages, NetId(net))
    <3>1. messages' = Marked(messages, ops[k].bubble, NetId(net), "failed")
      BY <1>4, <2>1, <2>2, <2>4 DEF Fails, SetDelivery
    <3>2. PICK b \in messages : b.id = ops[k].bubble
      BY <1>4, <2>1, <2>4 DEF Shows, Listed
    <3>3. \E c \in messages' : c.id = NetId(net) /\ c.delivery = "failed"
      BY <1>1, <2>2, <3>1, <3>2, MarkedDerives
    <3>4. QED
      BY <2>1, <3>3 DEF FailureSeen
  <2>5. QED
    BY <2>3, <2>4 DEF Listed
<1>5. QED
  BY <1>2, <1>3, <1>4

\* A delivery failure surfaces on the bubble: with prepareMessage, when no two sends have the
\* same body, a send that ends in failure has its bubble there, failed or confirmed.
THEOREM FailureSurfaces == ASSUME DistinctBodies PROVE Spec => FailureShows
<1>1. Inv /\ PrepInv /\ ShowInv /\ [Next]_vars
        => [\A k \in Op :
              offers = "prepare" /\ ops[k].pc # "failed" /\ ops'[k].pc = "failed" =>
                \E b \in messages' :
                    \/ b.id \in {ops[k].bubble, NetId(ops[k].net)} /\ b.delivery = "failed"
                    \/ b.id = NetId(ops[k].net) /\ Confirmed(b)]_vars
  BY FailureSeenNext DEF ShowInv, FailureSeen
<1>2. QED
  BY <1>1, AlwaysInv, AlwaysPrep, AlwaysShow, PTL DEF Spec, FailureShows
-----------------------------------------------------------------------------
(* Bubbles that look in flight, on every SDK build                           *)

\* A step that ends no operation, and starts one on every bubble it turns pending.
LEMMA WorkGoesOn ==
  ASSUME PendingIsWorkedOn,
         \A k \in Op : ops[k].pc \in Suspended =>
            ops'[k].pc \in Suspended /\ ops'[k].bubble = ops[k].bubble,
         \A c \in messages' : c.delivery = "pending" =>
            \/ \E b \in messages : b.id = c.id /\ b.delivery = "pending"
            \/ \E k \in Op : ops'[k].pc \in Suspended /\ ops'[k].bubble = c.id
  PROVE  PendingIsWorkedOn'
  BY DEF PendingIsWorkedOn

\* A step that ends one operation, and leaves no bubble pending under its name.
LEMMA WorkEnds ==
  ASSUME Inv, PendingIsWorkedOn, NEW k \in Op, NEW pc, Finish(k, pc),
         \A c \in messages' : c.delivery = "pending" =>
            \E b \in messages : b.id = c.id /\ b.delivery = "pending" /\ b.id # ops[k].bubble
  PROVE  PendingIsWorkedOn'
<1>1. \A j \in Op : /\ ops'[j].pc = IF j = k THEN pc ELSE ops[j].pc
                    /\ ops'[j].bubble = ops[j].bubble
  BY FinishExact
<1>2. QED
  BY <1>1 DEF PendingIsWorkedOn

\* The bubble of an operation gets its outcome, or is dropped.
LEMMA OutcomeEndsWork ==
  ASSUME Inv, PendingIsWorkedOn, NEW k \in Op, NEW pc, Finish(k, pc),
         ops[k].bubble \in Id, NEW newId \in Id, NEW d \in Delivery, d # "pending",
         \/ messages' = DiscardMessage(messages, ops[k].bubble)
         \/ messages' = Marked(messages, ops[k].bubble, newId, d)
  PROVE  PendingIsWorkedOn'
<1>1. messages \subseteq Bubble
  BY DEF Inv, TypeOK
<1>2. ASSUME NEW c \in messages', c.delivery = "pending"
      PROVE  c \in messages /\ c.id # ops[k].bubble
  <2>1. CASE messages' = DiscardMessage(messages, ops[k].bubble)
    BY <1>2, <2>1 DEF DiscardMessage
  <2>2. CASE messages' = Marked(messages, ops[k].bubble, newId, d)
    <3>1. \E b \in messages : \/ c = b /\ b.id # ops[k].bubble
                              \/ c.delivery = d
      BY <1>1, <2>2, MarkedDerives
    <3>2. QED
      BY <1>2, <3>1
  <2>3. QED
    BY <2>1, <2>2
<1>3. QED
  BY <1>2, WorkEnds

LEMMA FailsEndsWork ==
  ASSUME Inv, PendingIsWorkedOn, NEW k \in Op, ops[k].pc # "unused",
         NEW messageId \in Id \cup {NoId}, Fails(k, messageId)
  PROVE  PendingIsWorkedOn'
<1>1. Finish(k, "failed") /\ ops[k].bubble \in Id /\ "failed" \in Delivery
  BY DEF Fails, Inv, OpGrounded, Delivery
<1>2. \E newId \in Id : \/ messages' = DiscardMessage(messages, ops[k].bubble)
                        \/ messages' = Marked(messages, ops[k].bubble, newId, "failed")
  BY <1>1 DEF Fails, SetDelivery
<1>3. QED
  BY <1>1, <1>2, OutcomeEndsWork

LEMMA AckedEndsWork ==
  ASSUME Inv, PendingIsWorkedOn, NEW k \in Op, ops[k].pc \in {"publishing", "sending"},
         NEW d \in {"sent", "unpublished"}, Acked(k, d)
  PROVE  PendingIsWorkedOn'
<1>1. /\ Finish(k, "done") /\ ops[k].bubble \in Id /\ NetId(ops[k].net) \in Id
      /\ d \in Delivery /\ d # "pending"
  BY IdFacts DEF Acked, Inv, OpGrounded, Delivery
<1>2. \/ messages' = DiscardMessage(messages, ops[k].bubble)
      \/ messages' = Marked(messages, ops[k].bubble, NetId(ops[k].net), d)
  BY DEF Acked, ReconcileSent
<1>3. QED
  BY <1>1, <1>2, OutcomeEndsWork

LEMMA RepublishEndsWork ==
  ASSUME Inv, PendingIsWorkedOn, NEW k \in Op, RepublishSettles(k)
  PROVE  PendingIsWorkedOn'
<1>1. Finish(k, "done") /\ ops[k].bubble \in Id
  BY DEF RepublishSettles, Inv, OpGrounded
<1>2. PICK d \in {"sent", "unpublished", "failed"} :
        messages' = SettleRetry(messages, ops[k].bubble, d)
  BY DEF RepublishSettles
<1>3. CASE messages' = Marked(messages, ops[k].bubble, ops[k].bubble, d)
  BY <1>1, <1>3, OutcomeEndsWork DEF Delivery
<1>4. CASE /\ messages' = messages
           /\ ~\E b \in messages : b.id = ops[k].bubble /\ b.delivery = "pending"
  BY <1>1, <1>4, WorkEnds
<1>5. QED
  BY <1>2, <1>3, <1>4 DEF SettleRetry, SetDelivery

LEMMA SettlesEndsWork ==
  ASSUME Inv, PendingIsWorkedOn, NEW k \in Op, Settles(k)
  PROVE  PendingIsWorkedOn'
<1>1. /\ messages \subseteq Bubble /\ (ops[k].pc # "unused" => ops[k].bubble \in Id)
      /\ NoId \in Id \cup {NoId}
      /\ ops[k].pc \in {"publishing", "sending"} => NetId(ops[k].net) \in Id
  BY IdFacts DEF Inv, TypeOK, OpGrounded
<1>2. ASSUME NEW pc \in Suspended, Finish(k, pc), ops[k].pc \in Suspended,
             \A c \in messages' : \E b \in messages : b.id = c.id /\ b.delivery = c.delivery
      PROVE  PendingIsWorkedOn'
  <2>1. \A j \in Op : /\ ops'[j].pc = IF j = k THEN pc ELSE ops[j].pc
                      /\ ops'[j].bubble = ops[j].bubble
    BY <1>2, FinishExact
  <2>2. QED
    BY <1>2, <2>1, WorkGoesOn
<1>3. CASE UploadReturns(k)
  <2>1. \A c \in messages' : \E b \in messages : b.id = c.id /\ b.delivery = c.delivery
    BY <1>1, <1>3, AttachDerives DEF UploadReturns
  <2>2. QED
    BY <1>2, <1>3, <2>1 DEF UploadReturns, Suspended
<1>4. CASE UploadRefused(k)
  <2>1. Finish(k, "done") /\ ops[k].bubble \in Id /\ "failed" \in Delivery
    BY <1>1, <1>4 DEF UploadRefused, Delivery
  <2>2. QED
    BY <1>4, <2>1, OutcomeEndsWork DEF UploadRefused
<1>5. CASE PrepareReturns(k)
  BY <1>2, <1>5 DEF PrepareReturns, Suspended
<1>6. CASE FailsUnstored(k)
  BY <1>1, <1>6, FailsEndsWork DEF FailsUnstored
<1>7. CASE \E n \in Net : SdkStores(k, n)
  <2>1. PICK n \in Net : SdkStores(k, n)
    BY <1>7
  <2> DEFINE pc == IF offers = "prepare" THEN "publishing" ELSE "sending"
             o == [ops[k] EXCEPT !.pc = pc, !.net = n]
  <2>2. ops' = [ops EXCEPT ![k] = o] /\ messages' = messages
    BY <2>1 DEF SdkStores
  <2>3. o.pc \in Suspended /\ o.bubble = ops[k].bubble
    BY DEF Inv, TypeOK, Operation, Suspended
  <2> HIDE DEF o
  <2>4. \A j \in Op : ops'[j] = IF j = k THEN o ELSE ops[j]
    BY <2>2, StartExact
  <2>5. QED
    BY <2>2, <2>3, <2>4, WorkGoesOn
<1>8. CASE PublishSettles(k)
  BY <1>1, <1>8, AckedEndsWork, FailsEndsWork DEF PublishSettles
<1>9. CASE PublishTimesOut(k)
  BY <1>9, AckedEndsWork DEF PublishTimesOut
<1>10. CASE SendSettles(k)
  BY <1>1, <1>10, AckedEndsWork, FailsEndsWork DEF SendSettles
<1>11. CASE RepublishSettles(k)
  BY <1>11, RepublishEndsWork
<1>12. QED
  BY <1>3, <1>4, <1>5, <1>6, <1>7, <1>8, <1>9, <1>10, <1>11 DEF Settles

\* A send or a retry that starts works on the bubble it turned pending.
LEMMA StartsWork ==
  ASSUME Inv, PendingIsWorkedOn, NEW k \in Op, ops[k].pc = "unused", NEW o,
         ops' = [ops EXCEPT ![k] = o], o.pc \in Suspended,
         \A c \in messages' : c.delivery = "pending" =>
            \/ c.id = o.bubble
            \/ \E b \in messages : b.id = c.id /\ b.delivery = "pending"
  PROVE  PendingIsWorkedOn'
<1>1. \A j \in Op : ops'[j] = IF j = k THEN o ELSE ops[j]
  BY DEF Inv, TypeOK
<1>2. QED
  BY <1>1, WorkGoesOn DEF Suspended

LEMMA UserKeepsWork ==
  ASSUME Inv, PendingIsWorkedOn, User
  PROVE  PendingIsWorkedOn'
<1>1. ASSUME NEW k \in Op, NextOp(k) PROVE ops[k].pc = "unused"
  <2>1. k <= k
    BY DEF Op
  <2>2. QED
    BY <1>1, <2>1 DEF NextOp
<1>2. ASSUME NEW k \in Op, NEW body \in Body, Send(k, body) PROVE PendingIsWorkedOn'
  <2> DEFINE o == [pc |-> IF body \in File THEN "uploading" ELSE "preparing",
                   bubble |-> LocalId(k), body |-> body, net |-> 0]
  <2>1. /\ ops' = [ops EXCEPT ![k] = o] /\ ops[k].pc = "unused"
        /\ \A c \in messages' : c \in messages \/ c.id = LocalId(k)
    BY <1>1, <1>2 DEF Send
  <2>2. o.pc \in Suspended /\ o.bubble = LocalId(k)
    BY DEF Suspended
  <2> HIDE DEF o
  <2>3. QED
    BY <2>1, <2>2, StartsWork
<1>3. ASSUME NEW k \in Op, NEW b \in messages, RetryMessage(k, b) PROVE PendingIsWorkedOn'
  <2>1. PICK pc \in Suspended :
           ops' = [ops EXCEPT ![k] = [pc |-> pc, bubble |-> b.id, body |-> b.body, net |-> 0]]
    BY <1>3 DEF RetryMessage, Suspended
  <2> DEFINE o == [pc |-> pc, bubble |-> b.id, body |-> b.body, net |-> 0]
  <2>2. /\ ops' = [ops EXCEPT ![k] = o] /\ ops[k].pc = "unused"
        /\ messages' = Marked(messages, b.id, b.id, "pending")
        /\ messages \subseteq Bubble /\ b.id \in Id /\ "pending" \in Delivery
    BY <1>1, <1>3, <2>1 DEF RetryMessage, SetDelivery, Inv, TypeOK, Bubble, Delivery
  <2>3. \A c \in messages' : c \in messages \/ c.id = b.id
    BY <2>2, MarkedDerives
  <2>4. o.pc \in Suspended /\ o.bubble = b.id
    OBVIOUS
  <2> HIDE DEF o
  <2>5. QED
    BY <2>2, <2>3, <2>4, StartsWork
<1>4. ASSUME NEW b \in messages, DiscardFailed(b) PROVE PendingIsWorkedOn'
  BY <1>4, WorkGoesOn DEF DiscardFailed, DiscardMessage
<1>5. QED
  BY <1>2, <1>3, <1>4 DEF User

LEMMA EnvironmentKeepsWork ==
  ASSUME Inv, PendingIsWorkedOn, Environment
  PROVE  PendingIsWorkedOn'
<1>1. /\ ops' = ops
      /\ \A c \in messages' : c.delivery = "pending" => c \in messages
  <2>1. ASSUME NEW n \in Net, Echo(n)
        PROVE  ops' = ops /\ \A c \in messages' : c.delivery = "pending" => c \in messages
    BY <2>1 DEF Echo, MergeStreamed
  <2>2. ASSUME NEW upToNs, ReceiptArrives(upToNs)
        PROVE  ops' = ops /\ \A c \in messages' : c.delivery = "pending" => c \in messages
    <3>1. messages \subseteq Bubble
      BY DEF Inv, TypeOK
    <3>2. \A c \in messages' : c \in messages \/ c.delivery = "read"
      BY <2>2, <3>1, MarkReadDerives DEF ReceiptArrives
    <3>3. QED
      BY <2>2, <3>2 DEF ReceiptArrives
  <2>3. QED
    BY <2>1, <2>2 DEF Environment, SdkPublishes, OtherDeviceSends
<1>2. QED
  BY <1>1, WorkGoesOn

\* No bubble is left pending with nothing at work on it, whatever the installed SDK offers
\* and however many messages have the same text: every step that ends an operation takes its
\* bubble away, confirms it or gives it the outcome.
THEOREM PendingHasWork == Spec => []PendingIsWorkedOn
<1>1. Init => PendingIsWorkedOn
  BY DEF Init, PendingIsWorkedOn
<1>2. Inv /\ PendingIsWorkedOn /\ [Next]_vars => PendingIsWorkedOn'
  <2>1. CASE UNCHANGED vars
    BY <2>1 DEF vars, PendingIsWorkedOn
  <2>2. QED
    BY <2>1, UserKeepsWork, SettlesEndsWork, EnvironmentKeepsWork DEF Next
<1>3. QED
  BY <1>1, <1>2, AlwaysInv, PTL DEF Spec
-----------------------------------------------------------------------------
(* ThreadSend implements Outbox: what is seen and held of each body           *)

OneShows(M) == \A b, c \in M : b.body = c.body => b = c
OneHolds(S) == \A m, n \in Net : S[m].body = S[n].body /\ S[m].body # NoBody => m = n

LookIn(M, body) ==
    LET its == {b \in M : b.body = body}
    IN  IF its = {} THEN "absent"
        ELSE IF \E b, c \in its : b # c THEN "twice"
        ELSE LET b == CHOOSE c \in its : TRUE
             IN  IF Confirmed(b) THEN "confirmed" ELSE b.delivery
CopyIn(S, body) ==
    LET its == {n \in Net : S[n].body = body}
    IN  IF its = {} THEN "none"
        ELSE IF \E m, n \in its : m # n THEN "twice"
        ELSE IF \E n \in its : S[n].state \in {"published", "echoed"} THEN "published" ELSE "stored"

Face(b) == IF Confirmed(b) THEN "confirmed" ELSE b.delivery

LEMMA LookOfOne ==
  ASSUME NEW M, OneShows(M), NEW b \in M
  PROVE  LookIn(M, b.body) = Face(b)
<1>1. {x \in M : x.body = b.body} = {b}
  BY DEF OneShows
<1>2. (CHOOSE x \in {b} : TRUE) = b
  OBVIOUS
<1>3. QED
  BY <1>1, <1>2 DEF LookIn, Face

LEMMA LookOfNone ==
  ASSUME NEW M, NEW body, \A b \in M : b.body # body
  PROVE  LookIn(M, body) = "absent"
<1>1. {x \in M : x.body = body} = {}
  OBVIOUS
<1>2. QED
  BY <1>1 DEF LookIn

LEMMA SameLook ==
  ASSUME NEW M, NEW N, NEW body, \A b \in M \cup N : b.body = body => b \in M /\ b \in N
  PROVE  LookIn(M, body) = LookIn(N, body)
<1>1. {x \in M : x.body = body} = {x \in N : x.body = body}
  OBVIOUS
<1>2. QED
  BY <1>1 DEF LookIn

LEMMA CopyOfOne ==
  ASSUME NEW S, OneHolds(S), NEW n \in Net, S[n].body # NoBody
  PROVE  CopyIn(S, S[n].body) =
            IF S[n].state \in {"published", "echoed"} THEN "published" ELSE "stored"
<1>1. {m \in Net : S[m].body = S[n].body} = {n}
  BY DEF OneHolds
<1>2. QED
  BY <1>1 DEF CopyIn

LEMMA CopyOfNone ==
  ASSUME NEW S, NEW body, \A n \in Net : S[n].body # body
  PROVE  CopyIn(S, body) = "none"
<1>1. {m \in Net : S[m].body = body} = {}
  OBVIOUS
<1>2. QED
  BY <1>1 DEF CopyIn

LEMMA SameCopy ==
  ASSUME NEW R, NEW S, NEW body,
         \A n \in Net : R[n].body = body <=> S[n].body = body,
         \A n \in Net : S[n].body = body =>
            (R[n].state \in {"published", "echoed"} <=> S[n].state \in {"published", "echoed"})
  PROVE  CopyIn(R, body) = CopyIn(S, body)
<1> DEFINE its == {n \in Net : S[n].body = body}
<1>1. {n \in Net : R[n].body = body} = its
  OBVIOUS
<1>2. \A n \in its : R[n].state \in {"published", "echoed"}
                       <=> S[n].state \in {"published", "echoed"}
  OBVIOUS
<1> HIDE DEF its
<1>3. (\E n \in its : R[n].state \in {"published", "echoed"})
        <=> (\E n \in its : S[n].state \in {"published", "echoed"})
  BY <1>2
<1>4. QED
  BY <1>1, <1>3 DEF CopyIn, its

LEMMA LookCases ==
  ASSUME NEW M, M \subseteq Bubble, OneShows(M), NEW body
  PROVE  LookIn(M, body) \in {"absent", "pending", "unpublished", "failed", "sent", "confirmed"}
<1>1. ASSUME NEW b \in M, b.body = body
      PROVE  LookIn(M, body) = Face(b) /\ b.delivery \in Delivery
  BY <1>1, LookOfOne DEF Bubble
<1>2. QED
  BY <1>1, LookOfNone DEF Face, Confirmed, Delivery

LEMMA CopyCases ==
  ASSUME NEW S, OneHolds(S), NEW body, body # NoBody
  PROVE  CopyIn(S, body) \in {"none", "stored", "published"}
<1>1. ASSUME NEW n \in Net, S[n].body = body PROVE CopyIn(S, body) \in {"stored", "published"}
  BY <1>1, CopyOfOne
<1>2. QED
  BY <1>1, CopyOfNone

-----------------------------------------------------------------------------
(* What the operators of DeliveryState change of what is seen                 *)

LEMMA DroppedLook ==
  ASSUME NEW M, M \subseteq Bubble, Unique(M), OneShows(M), NEW b \in M, NEW body
  PROVE  LookIn(DiscardMessage(M, b.id), body) =
            IF body = b.body THEN "absent" ELSE LookIn(M, body)
<1> DEFINE R == DiscardMessage(M, b.id)
<1>1. \A c : c \in R <=> c \in M /\ c # b
  BY DEF DiscardMessage, Unique
<1>2. CASE body = b.body
  BY <1>1, <1>2, LookOfNone DEF OneShows
<1>3. CASE body # b.body
  BY <1>1, <1>3, SameLook
<1>4. QED
  BY <1>2, <1>3

LEMMA MarkedLook ==
  ASSUME NEW M, M \subseteq Bubble, Unique(M), OneShows(M), NEW b \in M,
         NEW newId \in Id, NEW d \in Delivery, NEW body
  PROVE  LookIn(Marked(M, b.id, newId, d), body) =
            IF body = b.body THEN (IF d \in {"none", "read"} THEN "confirmed" ELSE d)
                             ELSE LookIn(M, body)
<1> DEFINE b1 == [b EXCEPT !.id = newId, !.delivery = d]
           R == Marked(M, b.id, newId, d)
<1>1. R = (M \ {b}) \cup {b1}
  <2>1. \A x \in M : x.id = b.id <=> x = b
    BY DEF Unique
  <2>2. R = {IF x.id = b.id THEN [x EXCEPT !.id = newId, !.delivery = d] ELSE x : x \in M}
    BY DEF Marked
  <2>3. QED
    BY <2>1, <2>2
<1>2. b1.body = b.body /\ b1.delivery = d
  BY DEF Bubble
<1> HIDE DEF b1, R
<1>3. OneShows(R) /\ b1 \in R
  BY <1>1, <1>2 DEF OneShows
<1>4. CASE body = b.body
  BY <1>2, <1>3, <1>4, LookOfOne DEF Face, Confirmed, R
<1>5. CASE body # b.body
  <2>1. \A c \in M \cup R : c.body = body => c \in M /\ c \in R
    BY <1>1, <1>2, <1>5
  <2>2. QED
    BY <1>5, <2>1, SameLook DEF R
<1>6. QED
  BY <1>4, <1>5

LEMMA UploadedLook ==
  ASSUME NEW M, M \subseteq Bubble, OneShows(M), NEW id, NEW body
  PROVE  LookIn(AttachUploaded(M, id), body) = LookIn(M, body)
<1> DEFINE R == AttachUploaded(M, id)
           Up(b) == IF b.id = id /\ b.body \in File THEN [b EXCEPT !.uploaded = TRUE] ELSE b
<1>1. R = {Up(b) : b \in M} /\ \A b \in M : Up(b).body = b.body /\ Up(b).delivery = b.delivery
  BY DEF AttachUploaded, Bubble
<1> HIDE DEF R, Up
<1>2. OneShows(R)
  BY <1>1 DEF OneShows
<1>3. ASSUME NEW b \in M, b.body = body PROVE LookIn(R, body) = LookIn(M, body)
  <2>1. Up(b) \in R /\ Up(b).body = body /\ Face(Up(b)) = Face(b)
    BY <1>1, <1>3 DEF Face, Confirmed
  <2>2. QED
    BY <1>2, <1>3, <2>1, LookOfOne
<1>4. CASE \A b \in M : b.body # body
  <2>1. \A c \in R : c.body # body
    BY <1>1, <1>4
  <2>2. QED
    BY <1>4, <2>1, LookOfNone DEF R
<1>5. QED
  BY <1>3, <1>4 DEF R

\* A receipt confirms what showed as sent, and nothing else.
LEMMA ReadLook ==
  ASSUME NEW M, M \subseteq Bubble, OneShows(M), NEW upToNs, NEW body
  PROVE  \/ LookIn(MarkReadUpTo(M, upToNs), body) = LookIn(M, body)
         \/ /\ LookIn(MarkReadUpTo(M, upToNs), body) = "confirmed"
            /\ \E b \in M : b.body = body /\ b.delivery = "sent"
<1> DEFINE R == MarkReadUpTo(M, upToNs)
           Read(b) == IF b.delivery \in {"none", "sent"} /\ b.sentNs <= upToNs
                        THEN [b EXCEPT !.delivery = "read"] ELSE b
<1>1. /\ R = {Read(b) : b \in M}
      /\ \A b \in M : /\ Read(b).body = b.body
                      /\ \/ Read(b) = b
                         \/ b.delivery \in {"none", "sent"} /\ Read(b).delivery = "read"
  BY DEF MarkReadUpTo, Bubble
<1> HIDE DEF R, Read
<1>2. OneShows(R)
  BY <1>1 DEF OneShows
<1>3. ASSUME NEW b \in M, b.body = body
      PROVE  \/ LookIn(R, body) = LookIn(M, body)
             \/ LookIn(R, body) = "confirmed" /\ b.delivery = "sent"
  <2>1. Read(b) \in R /\ Read(b).body = body
    BY <1>1, <1>3
  <2>2. LookIn(R, body) = Face(Read(b)) /\ LookIn(M, body) = Face(b)
    BY <1>2, <1>3, <2>1, LookOfOne
  <2>3. QED
    BY <1>1, <2>2 DEF Face, Confirmed
<1>4. CASE \A b \in M : b.body # body
  <2>1. \A c \in R : c.body # body
    BY <1>1, <1>4
  <2>2. QED
    BY <1>4, <2>1, LookOfNone DEF R
<1>5. QED
  BY <1>3, <1>4 DEF R

-----------------------------------------------------------------------------
(* One body's step                                                           *)

Moves(s, c, s1, c1) ==
    \/ s = "absent" /\ c = "none" /\ s1 = "pending" /\ c1 = c
    \/ s = "pending" /\ c = "none" /\ s1 = "pending" /\ c1 = "stored"
    \/ c = "stored" /\ c1 = "published" /\ s1 = s
    \/ s = "pending" /\ c # "none" /\ s1 = "sent" /\ c1 = "published"
    \/ s = "pending" /\ c # "none" /\ s1 = "unpublished" /\ c1 = c
    \/ s = "pending" /\ s1 = "failed" /\ c1 = c
    \/ s = "pending" /\ c = "none" /\ s1 = "absent" /\ c1 = c
    \/ s \in {"failed", "unpublished"} /\ s1 = "pending" /\ c1 = c
    \/ s = "failed" /\ s1 = "absent" /\ c1 = c
    \/ c = "published" /\ s1 = "confirmed" /\ c1 = c
    \/ s = "absent" /\ c = "none" /\ s1 = "absent" /\ c1 = "published"
    \/ s1 = s /\ c1 = c

BodyMoves(body) == Moves(LookIn(messages, body), CopyIn(sdk, body),
                         LookIn(messages', body), CopyIn(sdk', body))

Bodies == \A body \in Body : BodyMoves(body)

LEMMA StepOfOutbox ==
  ASSUME Promised, Promised', Bodies,
         \A body \in Body : /\ LookIn(messages', body) \in O!Bubbles
                            /\ CopyIn(sdk', body) \in O!Copies
  PROVE  O!OutboxNext
<1>1. \A body \in Body : /\ LookPromised(body) = LookIn(messages, body)
                         /\ LookPromised(body)' = LookIn(messages', body)
                         /\ CopyPromised(body) = CopyIn(sdk, body)
                         /\ CopyPromised(body)' = CopyIn(sdk', body)
  BY DEF LookPromised, CopyPromised, LooksLike, LookIn, CopyOf, CopyIn, Published
<1>2. ASSUME NEW body \in Body PROVE O!MessageStep(body)
  <2>1. Moves(LookPromised(body), CopyPromised(body),
              LookPromised(body)', CopyPromised(body)')
    BY <1>1 DEF Bodies, BodyMoves
  <2>2. QED
    BY <2>1 DEF Moves, O!MessageStep, O!Composes, O!Stores, O!Publishes, O!Succeeds, O!Waits,
                O!Fails, O!Refuses, O!Retries, O!Discards, O!Confirms, O!SentElsewhere, O!Becomes
<1>3. /\ [body \in Body |-> LookPromised(body)]' \in [Body -> O!Bubbles]
      /\ [body \in Body |-> CopyPromised(body)]' \in [Body -> O!Copies]
  BY <1>1
<1>4. QED
  BY <1>2, <1>3 DEF O!OutboxNext

-----------------------------------------------------------------------------
(* What the SDK has not stored has no body                                   *)

EmptyInv == \A n \in Net : sdk[n].state = "none" => sdk[n].body = NoBody

LEMMA EmptyChange ==
  ASSUME Inv, EmptyInv, NEW n \in Net, NEW m, sdk' = [sdk EXCEPT ![n] = m], m.state # "none"
  PROVE  EmptyInv'
<1>1. \A i \in Net : sdk'[i] = IF i = n THEN m ELSE sdk[i]
  BY DEF Inv, TypeOK
<1>2. QED
  BY <1>1 DEF EmptyInv

LEMMA EmptyStep == Inv /\ EmptyInv /\ [Next]_vars => EmptyInv'
<1> SUFFICES ASSUME Inv, EmptyInv, [Next]_vars PROVE EmptyInv'
  OBVIOUS
<1>1. CASE UNCHANGED sdk
  BY <1>1 DEF EmptyInv
<1>2. CASE PublishAll
  <2>1. \A n \in Net : sdk'[n] = IF sdk[n].state = "stored"
                                   THEN [sdk[n] EXCEPT !.state = "published"] ELSE sdk[n]
    BY <1>2 DEF PublishAll
  <2>2. \A n \in Net : sdk'[n].body = sdk[n].body /\ (sdk'[n].state = "none" => sdk[n].state = "none")
    BY <2>1 DEF Inv, TypeOK
  <2>3. QED
    BY <2>2 DEF EmptyInv
<1>3. ASSUME NEW n \in Net, NEW body, NEW state \in {"stored", "published"}, NEW sentNs,
             Stored(n, body, state, sentNs)
      PROVE  EmptyInv'
  <2> DEFINE m == [state |-> state, body |-> body, sentNs |-> sentNs]
  <2>1. sdk' = [sdk EXCEPT ![n] = m] /\ m.state # "none"
    BY <1>3 DEF Stored
  <2> HIDE DEF m
  <2>2. QED
    BY <2>1, EmptyChange
<1>4. ASSUME NEW n \in Net, NEW state \in {"published", "echoed"},
             sdk' = [sdk EXCEPT ![n].state = state]
      PROVE  EmptyInv'
  <2> DEFINE m == [sdk[n] EXCEPT !.state = state]
  <2>1. sdk' = [sdk EXCEPT ![n] = m] /\ m.state # "none"
    BY <1>4 DEF Inv, TypeOK
  <2> HIDE DEF m
  <2>2. QED
    BY <2>1, EmptyChange
<1>5. ASSUME NEW k \in Op, Settles(k) PROVE EmptyInv'
  BY <1>1, <1>2, <1>3, <1>5
     DEF Settles, UploadReturns, UploadRefused, PrepareReturns, FailsUnstored, SdkStores,
         PublishSettles, PublishTimesOut, SendSettles, RepublishSettles
<1>6. CASE User
  BY <1>1, <1>6 DEF User, Send, RetryMessage, DiscardFailed
<1>7. CASE Environment
  BY <1>1, <1>3, <1>4, <1>7
     DEF Environment, SdkPublishes, OtherDeviceSends, Echo, ReceiptArrives
<1>8. CASE UNCHANGED vars
  BY <1>1, <1>8 DEF vars
<1>9. QED
  BY <1>5, <1>6, <1>7, <1>8 DEF Next

LEMMA AlwaysEmpty == Spec => []EmptyInv
<1>1. Init => EmptyInv
  BY DEF Init, EmptyInv, NotStored
<1>2. QED
  BY <1>1, EmptyStep, AlwaysInv, PTL DEF Spec

-----------------------------------------------------------------------------
(* The steps                                                                 *)

LEMMA SeenAndHeld ==
  ASSUME Inv, Copies
  PROVE  /\ messages \subseteq Bubble /\ Unique(messages) /\ OneShows(messages) /\ OneHolds(sdk)
         /\ \A body \in Body : body # NoBody
         /\ \A n \in Net : sdk[n].state # "none" => sdk[n].body \in Body
  BY NoBodyAssumption
     DEF Inv, TypeOK, UniqueIds, Unique, Copies, OneEach, OneShows, WorkInv, OneCopy, OneHolds,
         NoBodyAssumption, SdkTyped

LEMMA SdkStill ==
  ASSUME UNCHANGED sdk
  PROVE  \A body : CopyIn(sdk', body) = CopyIn(sdk, body)
  OBVIOUS

LEMMA SeenStill ==
  ASSUME messages' = messages
  PROVE  \A body : LookIn(messages', body) = LookIn(messages, body)
  OBVIOUS

\* A publish call gets out everything that is stored.
LEMMA PublishAllCopies ==
  ASSUME Inv, Copies, PublishAll, NEW body \in Body
  PROVE  /\ \/ CopyIn(sdk', body) = CopyIn(sdk, body)
            \/ CopyIn(sdk, body) = "stored" /\ CopyIn(sdk', body) = "published"
         /\ \A n \in Net : sdk[n].body = body /\ sdk[n].state # "none"
               => CopyIn(sdk, body) # "none" /\ CopyIn(sdk', body) = "published"
<1>1. \A n \in Net : /\ sdk'[n].body = sdk[n].body
                     /\ sdk'[n].state = IF sdk[n].state = "stored" THEN "published"
                                          ELSE sdk[n].state
                     /\ sdk[n].state \in {"none", "stored", "published", "echoed"}
  <2>1. \A n \in Net : sdk'[n] = IF sdk[n].state = "stored"
                                   THEN [sdk[n] EXCEPT !.state = "published"] ELSE sdk[n]
    BY DEF PublishAll
  <2>2. QED
    BY <2>1 DEF Inv, TypeOK
<1>2. body # NoBody /\ OneHolds(sdk) /\ OneHolds(sdk')
  BY <1>1, SeenAndHeld DEF OneHolds
<1>3. ASSUME NEW n \in Net, sdk[n].body = body
      PROVE  /\ CopyIn(sdk, body) = IF sdk[n].state \in {"published", "echoed"}
                                      THEN "published" ELSE "stored"
             /\ CopyIn(sdk', body) = IF sdk[n].state \in {"stored", "published", "echoed"}
                                       THEN "published" ELSE "stored"
  <2>1. sdk'[n].body = body
    BY <1>1, <1>3
  <2>2. QED
    BY <1>1, <1>2, <1>3, <2>1, CopyOfOne
<1>4. CASE \A n \in Net : sdk[n].body # body
  <2>1. \A n \in Net : sdk'[n].body # body
    BY <1>1, <1>4
  <2>2. QED
    BY <1>4, <2>1, CopyOfNone
<1>5. QED
  BY <1>1, <1>3, <1>4

\* The bubble that an operation at work calls its own looks pending.
LEMMA OwnLook ==
  ASSUME Inv, PrepInv, Copies, offers = "prepare", NEW k \in Op, Active(k),
         NEW b \in messages, b.id = ops[k].bubble
  PROVE  /\ b.body = ops[k].body /\ b.body \in Body
         /\ LookIn(messages, b.body) = "pending"
<1>1. BubbleInv(b) /\ WorkInv /\ b.body \in Body
  BY DEF Copies, Inv, TypeOK, Bubble
<1>2. b.body = ops[k].body
  BY <1>1, OwnBody
<1>3. b.delivery = "pending"
  BY <1>1, <1>2 DEF PrepInv, SendsLocal, LocalIsOpen, BubbleInv, AtRest
<1>4. QED
  BY <1>1, <1>2, <1>3, SeenAndHeld, LookOfOne DEF Face, Confirmed

LEMMA OwnCopy ==
  ASSUME Inv, Copies, NEW k \in Op
  PROVE  /\ PreStore(k) => CopyIn(sdk, ops[k].body) = "none"
         /\ ops[k].pc = "publishing" =>
               /\ ops[k].net \in Net /\ sdk[ops[k].net].state # "none"
               /\ sdk[ops[k].net].body = ops[k].body
               /\ CopyIn(sdk, ops[k].body) # "none"
<1>1. PreStore(k) => CopyIn(sdk, ops[k].body) = "none"
  BY CopyOfNone DEF Copies, WorkInv, NotYetStored
<1>2. ASSUME ops[k].pc = "publishing"
      PROVE  /\ ops[k].net \in Net /\ sdk[ops[k].net].state # "none"
             /\ sdk[ops[k].net].body = ops[k].body
             /\ CopyIn(sdk, ops[k].body) # "none"
  <2>1. /\ ops[k].net \in Net /\ sdk[ops[k].net].state # "none"
        /\ sdk[ops[k].net].body = ops[k].body
    BY <1>2 DEF Inv, OpGrounded, Copies, WorkInv, StoredAsComposed
  <2>2. QED
    BY <2>1, SeenAndHeld, CopyOfOne
<1>3. QED
  BY <1>1, <1>2

LEMMA SendMoves ==
  ASSUME Inv, Copies, Copies', DistinctBodies, NEW k \in Op, NEW body \in Body, Send(k, body)
  PROVE  Bodies
<1> DEFINE b0 == [id |-> LocalId(k), body |-> body, sentNs |-> clock + 1,
                  delivery |-> "pending", uploaded |-> FALSE]
<1>1. /\ messages' = messages \cup {b0} /\ UNCHANGED sdk
      /\ \A j \in Op : ops[j].body # body
      /\ \A n \in Net : sdk[n].body # body
  BY DEF Send, NewBody
<1>2. b0.body = body /\ b0.delivery = "pending"
  OBVIOUS
<1> HIDE DEF b0
<1>3. \A b \in messages : b.body # body
  BY <1>1, BodiesKnown DEF Copies
<1>4. BodyMoves(body)
  <2>1. LookIn(messages, body) = "absent" /\ CopyIn(sdk, body) = "none"
    BY <1>1, <1>3, LookOfNone, CopyOfNone
  <2>2. LookIn(messages', body) = "pending"
    BY <1>1, <1>2, LookOfOne DEF Copies, OneEach, OneShows, Face, Confirmed
  <2>3. QED
    BY <1>1, <2>1, <2>2, SdkStill DEF BodyMoves, Moves
<1>5. ASSUME NEW x \in Body, x # body PROVE BodyMoves(x)
  <2>1. LookIn(messages', x) = LookIn(messages, x)
    BY <1>1, <1>2, <1>5, SameLook
  <2>2. QED
    BY <1>1, <2>1, SdkStill DEF BodyMoves, Moves
<1>6. QED
  BY <1>4, <1>5 DEF Bodies

LEMMA RetryMoves ==
  ASSUME Inv, Copies, NEW k \in Op, NEW b \in messages, RetryMessage(k, b)
  PROVE  Bodies
<1>1. /\ messages' = Marked(messages, b.id, b.id, "pending") /\ UNCHANGED sdk
      /\ b.delivery \in {"failed", "unpublished"}
      /\ b.id \in Id /\ "pending" \in Delivery
  BY DEF RetryMessage, SetDelivery, Held, Inv, TypeOK, Bubble, Delivery
<1>2. LookIn(messages, b.body) = b.delivery
  BY <1>1, SeenAndHeld, LookOfOne DEF Face, Confirmed
<1>3. \A body : LookIn(messages', body) =
                   IF body = b.body THEN "pending" ELSE LookIn(messages, body)
  BY <1>1, SeenAndHeld, MarkedLook
<1>4. QED
  BY <1>1, <1>2, <1>3, SdkStill DEF Bodies, BodyMoves, Moves

LEMMA DiscardMoves ==
  ASSUME Inv, Copies, NEW b \in messages, DiscardFailed(b)
  PROVE  Bodies
<1>1. messages' = DiscardMessage(messages, b.id) /\ UNCHANGED sdk /\ b.delivery = "failed"
  BY DEF DiscardFailed
<1>2. LookIn(messages, b.body) = "failed"
  BY <1>1, SeenAndHeld, LookOfOne DEF Face, Confirmed
<1>3. \A body : LookIn(messages', body) =
                   IF body = b.body THEN "absent" ELSE LookIn(messages, body)
  BY <1>1, SeenAndHeld, DroppedLook
<1>4. QED
  BY <1>1, <1>2, <1>3, SdkStill DEF Bodies, BodyMoves, Moves

\* Before the SDK has the message: its bubble is dropped or fails.
LEMMA UnstoredMoves ==
  ASSUME Inv, PrepInv, Copies, Shows, offers = "prepare", NEW k \in Op, PreStore(k),
         UNCHANGED sdk,
         \/ messages' = DiscardMessage(messages, ops[k].bubble)
         \/ messages' = Marked(messages, ops[k].bubble, ops[k].bubble, "failed")
  PROVE  Bodies
<1>1. PICK b \in messages : b.id = ops[k].bubble
  BY DEF Shows, Listed
<1>2. /\ b.body = ops[k].body /\ LookIn(messages, b.body) = "pending"
      /\ CopyIn(sdk, b.body) = "none"
  BY <1>1, OwnLook, OwnCopy DEF Active
<1>3. b.id \in Id /\ "failed" \in Delivery
  BY DEF Inv, TypeOK, Bubble, Delivery
<1>4. CASE messages' = DiscardMessage(messages, ops[k].bubble)
  <2>1. \A body : LookIn(messages', body) =
                     IF body = b.body THEN "absent" ELSE LookIn(messages, body)
    BY <1>1, <1>4, SeenAndHeld, DroppedLook
  <2>2. QED
    BY <1>2, <2>1, SdkStill DEF Bodies, BodyMoves, Moves
<1>5. CASE messages' = Marked(messages, ops[k].bubble, ops[k].bubble, "failed")
  <2>1. \A body : LookIn(messages', body) =
                     IF body = b.body THEN "failed" ELSE LookIn(messages, body)
    BY <1>1, <1>3, <1>5, SeenAndHeld, MarkedLook
  <2>2. QED
    BY <1>2, <2>1, SdkStill DEF Bodies, BodyMoves, Moves
<1>6. QED
  BY <1>4, <1>5

\* The SDK stores the message of an operation, whose bubble looks pending.
LEMMA StoreMoves ==
  ASSUME Inv, PrepInv, Copies, Copies', Shows, EmptyInv, offers = "prepare",
         NEW k \in Op, NEW n \in Net, SdkStores(k, n)
  PROVE  Bodies
<1> DEFINE m == [state |-> "stored", body |-> ops[k].body, sentNs |-> clock]
<1>1. /\ PreStore(k) /\ Active(k) /\ messages' = messages /\ NextNet(n)
      /\ sdk' = [sdk EXCEPT ![n] = m] /\ ops[k].body \in Body
  BY DEF SdkStores, Stored, PreStore, Active, Inv, OpGrounded
<1>2. m.body = ops[k].body /\ m.state = "stored"
  OBVIOUS
<1> HIDE DEF m
<1>3. \A i \in Net : sdk'[i] = IF i = n THEN m ELSE sdk[i]
  BY <1>1 DEF Inv, TypeOK
<1>4. PICK b \in messages : b.id = ops[k].bubble
  BY <1>1 DEF Shows, Listed
<1>5. /\ LookIn(messages, ops[k].body) = "pending" /\ CopyIn(sdk, ops[k].body) = "none"
      /\ ops[k].body # NoBody
  BY <1>1, <1>4, OwnLook, OwnCopy, SeenAndHeld
<1>6. OneHolds(sdk')
  BY DEF Copies, WorkInv, OneCopy, OneHolds
<1>7. CopyIn(sdk', ops[k].body) = "stored"
  <2>1. sdk'[n].body = ops[k].body /\ sdk'[n].state = "stored"
    BY <1>2, <1>3
  <2>2. QED
    BY <1>5, <1>6, <2>1, CopyOfOne
<1>8. ASSUME NEW body \in Body, body # ops[k].body
      PROVE  CopyIn(sdk', body) = CopyIn(sdk, body)
  <2>0. sdk[n].body # body
    <3>1. n <= n
      BY DEF Net
    <3>2. QED
      BY <1>1, <3>1, SeenAndHeld DEF NextNet, EmptyInv
  <2>1. QED
    BY <1>2, <1>3, <1>8, <2>0, SameCopy
<1>9. QED
  BY <1>1, <1>5, <1>7, <1>8, SeenStill DEF Bodies, BodyMoves, Moves

\* The operation's publish has an outcome for its bubble.
LEMMA OutcomeMoves ==
  ASSUME Inv, PrepInv, Copies, Shows, offers = "prepare", NEW k \in Op, ops[k].pc = "publishing",
         NEW d \in {"sent", "unpublished", "failed"},
         messages' = IF Listed(messages, NetId(ops[k].net))
                       THEN DiscardMessage(messages, ops[k].bubble)
                       ELSE Marked(messages, ops[k].bubble, NetId(ops[k].net), d),
         \/ d = "sent" /\ PublishAll
         \/ d # "sent" /\ UNCHANGED sdk
  PROVE  Bodies
<1>1. PICK net \in Net : net = ops[k].net
  BY OwnCopy
<1>2. /\ sdk[net].body = ops[k].body /\ sdk[net].state # "none"
      /\ CopyIn(sdk, ops[k].body) # "none" /\ Active(k) /\ NetId(net) # ops[k].bubble
      /\ ops[k].body \in Body /\ d \in Delivery /\ NetId(net) \in Id
  BY <1>1, OwnCopy, IdFacts DEF Active, PrepInv, SendsLocal, Inv, OpGrounded, Delivery
<1>3. \A body \in Body : \/ CopyIn(sdk', body) = CopyIn(sdk, body)
                         \/ CopyIn(sdk, body) = "stored" /\ CopyIn(sdk', body) = "published"
  BY PublishAllCopies
<1>4. d = "sent" => CopyIn(sdk', ops[k].body) = "published"
  BY <1>2, PublishAllCopies
<1>5. d # "sent" => \A body : CopyIn(sdk', body) = CopyIn(sdk, body)
  OBVIOUS
<1>6. CASE Listed(messages, NetId(net))
  <2>1. PICK c \in messages : c.id = NetId(net)
    BY <1>6 DEF Listed
  <2>2. c.body = ops[k].body
    BY <1>2, <2>1 DEF Copies, BubbleInv, ShowsOwn
  <2>3. \A b \in messages : b.id # ops[k].bubble
    BY <1>2, <2>1, <2>2, OwnLook DEF Copies, OneEach
  <2>4. messages' = messages
    BY <1>1, <1>6, <2>3 DEF DiscardMessage
  <2>5. QED
    BY <1>3, <2>4, SeenStill DEF Bodies, BodyMoves, Moves
<1>7. CASE ~Listed(messages, NetId(net))
  <2>1. PICK b \in messages : b.id = ops[k].bubble
    BY <1>1, <1>7 DEF Shows, Listed
  <2>2. b.body = ops[k].body /\ LookIn(messages, b.body) = "pending"
    BY <1>2, <2>1, OwnLook
  <2>3. \A body : LookIn(messages', body) =
                     IF body = b.body THEN d ELSE LookIn(messages, body)
    BY <1>1, <1>2, <1>7, <2>1, SeenAndHeld, MarkedLook
  <2>4. QED
    BY <1>2, <1>3, <1>4, <1>5, <2>2, <2>3 DEF Bodies, BodyMoves, Moves
<1>8. QED
  BY <1>6, <1>7

\* A retry that republished records the outcome on a bubble that still looks in flight.
LEMMA RepublishMoves ==
  ASSUME Inv, Copies, NEW k \in Op, RepublishSettles(k)
  PROVE  Bodies
<1>1. PICK n \in Net : ops[k].bubble = NetId(n) /\ NetId(n) \in Id
  BY IdFacts DEF RepublishSettles, Inv, OpGrounded
<1>2. PICK d \in {"sent", "unpublished", "failed"} :
        /\ messages' = SettleRetry(messages, NetId(n), d)
        /\ \/ d = "sent" /\ PublishAll
           \/ d # "sent" /\ UNCHANGED sdk
  BY <1>1 DEF RepublishSettles
<1>3. \A body \in Body : \/ CopyIn(sdk', body) = CopyIn(sdk, body)
                         \/ CopyIn(sdk, body) = "stored" /\ CopyIn(sdk', body) = "published"
  BY <1>2, PublishAllCopies
<1>4. d # "sent" => \A body : CopyIn(sdk', body) = CopyIn(sdk, body)
  BY <1>2
<1>5. ASSUME NEW b \in messages, b.id = NetId(n), b.delivery = "pending"
      PROVE  Bodies
  <2>1. /\ sdk[n].state # "none" /\ b.body = sdk[n].body /\ b.body \in Body
        /\ b.id \in Id /\ d \in Delivery
    BY <1>5 DEF Inv, Grounded, Copies, BubbleInv, ShowsOwn, TypeOK, Bubble, Delivery
  <2>2. LookIn(messages, b.body) = "pending" /\ CopyIn(sdk, b.body) # "none"
    BY <1>5, <2>1, SeenAndHeld, LookOfOne, CopyOfOne DEF Face, Confirmed
  <2>3. d = "sent" => CopyIn(sdk', b.body) = "published"
    BY <1>2, <2>1, PublishAllCopies
  <2>4. messages' = Marked(messages, b.id, b.id, d)
    BY <1>2, <1>5 DEF SettleRetry, SetDelivery
  <2>5. \A body : LookIn(messages', body) =
                     IF body = b.body THEN d ELSE LookIn(messages, body)
    BY <2>1, <2>4, SeenAndHeld, MarkedLook
  <2>6. QED
    BY <1>3, <1>4, <2>1, <2>2, <2>3, <2>5 DEF Bodies, BodyMoves, Moves
<1>6. CASE ~\E b \in messages : b.id = NetId(n) /\ b.delivery = "pending"
  <2>1. messages' = messages
    BY <1>2, <1>6 DEF SettleRetry
  <2>2. QED
    BY <1>3, <2>1, SeenStill DEF Bodies, BodyMoves, Moves
<1>7. QED
  BY <1>5, <1>6

\* A stored message gets out.
LEMMA GetsOutMoves ==
  ASSUME Inv, Copies, NEW n \in Net, SdkPublishes(n)
  PROVE  Bodies
<1> DEFINE m == [sdk[n] EXCEPT !.state = "published"]
<1>1. /\ sdk' = [sdk EXCEPT ![n] = m] /\ sdk[n].state = "stored" /\ messages' = messages
      /\ sdk[n].body \in Body
  BY SeenAndHeld DEF SdkPublishes
<1>2. m.body = sdk[n].body /\ m.state = "published"
  BY DEF Inv, TypeOK
<1> HIDE DEF m
<1>3. \A i \in Net : sdk'[i] = IF i = n THEN m ELSE sdk[i]
  BY <1>1 DEF Inv, TypeOK
<1>4. OneHolds(sdk) /\ OneHolds(sdk') /\ sdk[n].body # NoBody
  BY <1>1, <1>2, <1>3, SeenAndHeld DEF OneHolds
<1>5. CopyIn(sdk, sdk[n].body) = "stored"
  BY <1>1, <1>4, CopyOfOne
<1>6. CopyIn(sdk', sdk[n].body) = "published"
  <2>1. sdk'[n].body = sdk[n].body /\ sdk'[n].state = "published"
    BY <1>2, <1>3
  <2>2. QED
    BY <1>4, <2>1, CopyOfOne
<1>7. ASSUME NEW body \in Body, body # sdk[n].body
      PROVE  CopyIn(sdk', body) = CopyIn(sdk, body)
  BY <1>2, <1>3, <1>7, SameCopy
<1>8. QED
  BY <1>1, <1>5, <1>6, <1>7, SeenStill DEF Bodies, BodyMoves, Moves

LEMMA ElsewhereMoves ==
  ASSUME Inv, Copies, Copies', EmptyInv, DistinctBodies, NEW n \in Net, NEW body \in Body,
         OtherDeviceSends(n, body)
  PROVE  Bodies
<1> DEFINE m == [state |-> "published", body |-> body, sentNs |-> clock + 1]
<1>1. /\ sdk' = [sdk EXCEPT ![n] = m] /\ messages' = messages /\ NextNet(n)
      /\ \A j \in Op : ops[j].body # body
      /\ \A i \in Net : sdk[i].body # body
  BY DEF OtherDeviceSends, Stored, NewBody
<1>2. m.body = body /\ m.state = "published"
  OBVIOUS
<1> HIDE DEF m
<1>3. \A i \in Net : sdk'[i] = IF i = n THEN m ELSE sdk[i]
  BY <1>1 DEF Inv, TypeOK
<1>4. LookIn(messages, body) = "absent" /\ CopyIn(sdk, body) = "none"
  <2>1. \A b \in messages : b.body # body
    BY <1>1, BodiesKnown DEF Copies
  <2>2. QED
    BY <1>1, <2>1, LookOfNone, CopyOfNone
<1>5. CopyIn(sdk', body) = "published"
  <2>1. sdk'[n].body = body /\ sdk'[n].state = "published" /\ body # NoBody
    BY <1>2, <1>3, SeenAndHeld
  <2>2. OneHolds(sdk')
    BY DEF Copies, WorkInv, OneCopy, OneHolds
  <2>3. QED
    BY <2>1, <2>2, CopyOfOne
<1>6. ASSUME NEW x \in Body, x # body PROVE CopyIn(sdk', x) = CopyIn(sdk, x)
  <2>1. sdk[n].body # x
    <3>1. n <= n
      BY DEF Net
    <3>2. QED
      BY <1>1, <3>1, SeenAndHeld DEF NextNet, EmptyInv
  <2>2. QED
    BY <1>2, <1>3, <1>6, <2>1, SameCopy
<1>7. QED
  BY <1>1, <1>4, <1>5, <1>6, SeenStill DEF Bodies, BodyMoves, Moves

\* An echo takes the place of what shows its body, and of nothing else.
LEMMA EchoMoves ==
  ASSUME Inv, PrepInv, Copies, Copies', offers = "prepare", NEW n \in Net, Echo(n)
  PROVE  Bodies
<1>0. PICK next : next = [id |-> NetId(n), body |-> sdk[n].body, sentNs |-> sdk[n].sentNs,
                          delivery |-> "none", uploaded |-> sdk[n].body \in File]
  OBVIOUS
<1>1. /\ messages' = MergeStreamed(messages, next)
      /\ sdk[n].state = "published" /\ sdk[n].body \in Body /\ sdk[n].body # NoBody
      /\ next.id = NetId(n) /\ next.body = sdk[n].body /\ next.delivery = "none"
  BY <1>0, SeenAndHeld DEF Echo
<1>2. \A body : CopyIn(sdk', body) = CopyIn(sdk, body)
  <2>1. \A i \in Net : /\ sdk'[i].body = sdk[i].body
                       /\ sdk'[i].state = IF i = n THEN "echoed" ELSE sdk[i].state
    BY DEF Echo, Inv, TypeOK
  <2>2. \A i \in Net : sdk'[i].state \in {"published", "echoed"}
                         <=> sdk[i].state \in {"published", "echoed"}
    BY <1>1, <2>1
  <2>3. QED
    BY <2>1, <2>2, SameCopy
<1>3. CASE messages' = messages
  BY <1>2, <1>3, SeenStill DEF Bodies, BodyMoves, Moves
<1>4. CASE messages' = (messages \ StandsInFor(messages, next)) \cup {next}
  <2>1. LookIn(messages', sdk[n].body) = "confirmed"
    BY <1>1, <1>4, LookOfOne DEF Copies, OneEach, OneShows, Face, Confirmed
  <2>2. CopyIn(sdk, sdk[n].body) = "published"
    BY <1>1, SeenAndHeld, CopyOfOne
  <2>3. ASSUME NEW b \in StandsInFor(messages, next) PROVE b.body = sdk[n].body
    <3>1. b \in messages /\ (b.id = NetId(n) \/ b.body = next.body)
      BY <1>1, <2>3 DEF StandsInFor, Newest, EchoMatches
    <3>2. QED
      BY <1>1, <3>1 DEF Copies, BubbleInv, ShowsOwn
  <2>4. \A body : body # sdk[n].body => LookIn(messages', body) = LookIn(messages, body)
    <3>1. ASSUME NEW body, body # sdk[n].body
          PROVE  \A b \in messages' \cup messages :
                    b.body = body => b \in messages' /\ b \in messages
      BY <1>1, <1>4, <2>3, <3>1
    <3>2. QED
      BY <3>1, SameLook
  <2>5. QED
    BY <1>2, <2>1, <2>2, <2>4 DEF Bodies, BodyMoves, Moves
<1>5. QED
  BY <1>1, <1>3, <1>4 DEF MergeStreamed

LEMMA ReceiptMoves ==
  ASSUME Inv, Copies, NEW upToNs, ReceiptArrives(upToNs)
  PROVE  Bodies
<1>1. messages' = MarkReadUpTo(messages, upToNs) /\ UNCHANGED sdk
  BY DEF ReceiptArrives
<1>2. ASSUME NEW b \in messages, b.delivery = "sent" PROVE CopyIn(sdk, b.body) = "published"
  <2>1. PICK n \in Net : b.id = NetId(n) /\ Published(n)
    BY <1>2 DEF Inv, Grounded
  <2>2. sdk[n].body = b.body /\ b.body # NoBody
    BY <2>1, SeenAndHeld DEF Copies, BubbleInv, ShowsOwn, Published
  <2>3. QED
    BY <2>1, <2>2, SeenAndHeld, CopyOfOne DEF Published
<1>3. \A body : \/ LookIn(messages', body) = LookIn(messages, body)
                \/ /\ LookIn(messages', body) = "confirmed"
                   /\ \E b \in messages : b.body = body /\ b.delivery = "sent"
  BY <1>1, SeenAndHeld, ReadLook
<1>4. QED
  BY <1>1, <1>2, <1>3, SdkStill DEF Bodies, BodyMoves, Moves

LEMMA StillMoves ==
  ASSUME UNCHANGED <<messages, sdk>>
  PROVE  Bodies
  BY DEF Bodies, BodyMoves, Moves

LEMMA SettlesMoves ==
  ASSUME Inv, PrepInv, Copies, Copies', Shows, EmptyInv, offers = "prepare",
         NEW k \in Op, Settles(k)
  PROVE  Bodies
<1>1. CASE UploadReturns(k)
  <2>1. \A body : LookIn(messages', body) = LookIn(messages, body)
    BY <1>1, SeenAndHeld, UploadedLook DEF UploadReturns
  <2>2. QED
    BY <1>1, <2>1, SdkStill DEF UploadReturns, Bodies, BodyMoves, Moves
<1>2. CASE UploadRefused(k)
  BY <1>2, UnstoredMoves DEF UploadRefused, PreStore
<1>3. CASE PrepareReturns(k)
  BY <1>3, StillMoves DEF PrepareReturns
<1>4. CASE FailsUnstored(k)
  <2>1. messages' = Marked(messages, ops[k].bubble, ops[k].bubble, "failed")
    BY <1>4 DEF FailsUnstored, Fails, SetDelivery
  <2>2. QED
    BY <1>4, <2>1, UnstoredMoves DEF FailsUnstored, PreStore
<1>5. CASE \E n \in Net : SdkStores(k, n)
  BY <1>5, StoreMoves
<1>6. CASE PublishSettles(k)
  <2>1. ops[k].pc = "publishing" /\ NetId(ops[k].net) \notin {NoId, ops[k].bubble}
    BY <1>6, OwnCopy, IdFacts DEF PublishSettles, PrepInv, SendsLocal, Active
  <2>2. CASE PublishAll /\ Acked(k, "sent")
    BY <2>1, <2>2, OutcomeMoves DEF Acked, ReconcileSent
  <2>3. CASE UNCHANGED sdk /\ Acked(k, "unpublished")
    BY <2>1, <2>3, OutcomeMoves DEF Acked, ReconcileSent
  <2>4. CASE UNCHANGED sdk /\ Fails(k, NetId(ops[k].net))
    <3>1. messages' = IF Listed(messages, NetId(ops[k].net))
                        THEN DiscardMessage(messages, ops[k].bubble)
                        ELSE Marked(messages, ops[k].bubble, NetId(ops[k].net), "failed")
      BY <2>1, <2>4 DEF Fails, SetDelivery
    <3>2. QED
      BY <2>1, <2>4, <3>1, OutcomeMoves
  <2>5. QED
    BY <1>6, <2>2, <2>3, <2>4 DEF PublishSettles
<1>7. CASE PublishTimesOut(k)
  BY <1>7, OutcomeMoves DEF PublishTimesOut, Acked, ReconcileSent
<1>8. CASE SendSettles(k)
  BY <1>8 DEF SendSettles, PrepInv, NeverSends
<1>9. CASE RepublishSettles(k)
  BY <1>9, RepublishMoves
<1>10. QED
  BY <1>1, <1>2, <1>3, <1>4, <1>5, <1>6, <1>7, <1>8, <1>9 DEF Settles

LEMMA BodiesMove ==
  ASSUME Inv, PrepInv, Copies, Copies', Shows, EmptyInv, offers = "prepare", DistinctBodies,
         [Next]_vars
  PROVE  Bodies
<1>1. CASE User
  BY <1>1, SendMoves, RetryMoves, DiscardMoves DEF User
<1>2. CASE Environment
  BY <1>2, GetsOutMoves, ElsewhereMoves, EchoMoves, ReceiptMoves DEF Environment
<1>3. CASE UNCHANGED vars
  BY <1>3, StillMoves DEF vars
<1>4. QED
  BY <1>1, <1>2, <1>3, SettlesMoves DEF Next

\* On an SDK that prepares messages, a thread keeps what Outbox promises of each message that
\* is composed once: one bubble that only takes the outcomes its one stored copy justifies.
THEOREM ThreadImplementsOutbox == Spec => ImplementsOutbox
<1>1. Init => O!OutboxInit
  <2> SUFFICES ASSUME Init PROVE O!OutboxInit
    OBVIOUS
  <2>1. \A body \in Body : LookIn(messages, body) = "absent"
    BY LookOfNone DEF Init
  <2>2. \A body \in Body : CopyIn(sdk, body) = "none"
    BY NoBodyAssumption, CopyOfNone DEF Init, NotStored, NoBodyAssumption
  <2>3. \A body \in Body : /\ LooksLike(body) = LookIn(messages, body)
                           /\ CopyOf(body) = CopyIn(sdk, body)
    BY DEF LooksLike, LookIn, CopyOf, CopyIn, Published
  <2>4. QED
    BY <2>1, <2>2, <2>3 DEF O!OutboxInit, LookPromised, CopyPromised
<1>2. ASSUME Inv, Inv', PrepInv, CopyInv, CopyInv', ShowInv, EmptyInv, [Next]_vars, Promised
      PROVE  O!OutboxNext
  <2>1. offers = "prepare" /\ offers' = "prepare" /\ DistinctBodies
    BY <1>2, OffersFixed DEF Promised
  <2>2. Copies /\ Copies' /\ Shows
    BY <1>2, <2>1 DEF CopyInv, ShowInv
  <2>3. Bodies
    BY <1>2, <2>1, <2>2, BodiesMove
  <2>4. ASSUME NEW body \in Body
        PROVE  /\ LookIn(messages', body) \in O!Bubbles
               /\ CopyIn(sdk', body) \in O!Copies
    <3>1. messages' \subseteq Bubble /\ OneShows(messages') /\ OneHolds(sdk') /\ body # NoBody
      BY <1>2, <2>2, NoBodyAssumption
         DEF Inv, TypeOK, Copies, OneEach, OneShows, WorkInv, OneCopy, OneHolds,
             NoBodyAssumption
    <3>2. QED
      BY <3>1, LookCases, CopyCases DEF O!Bubbles, O!Copies
  <2>5. Promised /\ Promised'
    BY <2>1 DEF Promised
  <2>6. QED
    BY <2>3, <2>4, <2>5, StepOfOutbox
\* Where nothing is promised, nothing of what Outbox speaks of moves.
<1>3. ASSUME [Next]_vars, ~Promised
      PROVE  UNCHANGED <<[body \in Body |-> LookPromised(body)],
                         [body \in Body |-> CopyPromised(body)]>>
  <2>1. ~Promised'
    BY <1>3, OffersFixed DEF Promised
  <2>2. \A body \in Body : /\ LookPromised(body)' = LookPromised(body)
                           /\ CopyPromised(body)' = CopyPromised(body)
    BY <1>3, <2>1 DEF LookPromised, CopyPromised
  <2>3. QED
    BY <2>2
<1>4. Inv /\ Inv' /\ PrepInv /\ CopyInv /\ CopyInv' /\ ShowInv /\ EmptyInv /\ [Next]_vars
        => [O!OutboxNext]_<<[body \in Body |-> LookPromised(body)],
                            [body \in Body |-> CopyPromised(body)]>>
  BY <1>2, <1>3
<1>5. QED
  BY <1>1, <1>4, AlwaysInv, AlwaysPrep, AlwaysCopy, AlwaysShow, AlwaysEmpty, PTL
     DEF Spec, ImplementsOutbox, O!OutboxSpec
=============================================================================
