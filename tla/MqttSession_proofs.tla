------------------------- MODULE MqttSession_proofs -------------------------
(***************************************************************************)
(* Proofs about MqttSession, for every number of calls, of messages for    *)
(* the application and of breaks, and every set of operations and sessions.*)
(***************************************************************************)
EXTENDS MqttSession, SequenceTheorems, WellFoundedInduction, TLAPS

----------------------------------------------------------------------------
(* The inductive invariant *)

Messages == {"publish", "enqueue"}
Subscriptions == {"subscribe", "unsubscribe"}
Initiators == {"PUBLISH", "SUBSCRIBE", "UNSUBSCRIBE"}
Handshakes == {"PUBACK", "PUBREC", "PUBREL", "PUBCOMP"}
Types == Initiators \cup Handshakes \cup {"SUBACK", "UNSUBACK"}

Items ==
    [call : Calls, type : Initiators, qos : 0 .. 2,
     pending : {"QUEUED", "TRANSMITTED", "ACKNOWLEDGED"}]

Packets == [type : Types, id : Calls \cup Incoming, qos : 0 .. 2, ok : BOOLEAN]

Kept == ToSet(outbox)
Sent == ToSet(toBroker)
Coming == ToSet(toClient)

SessionTypeOK ==
    /\ state \in {"INIT", "CONNECTED"} /\ conn \in {"up", "broken", "closed"}
    /\ outbox \in Seq(Items) /\ toBroker \in Seq(Packets) /\ toClient \in Seq(Packets)
    /\ calls \in Seq(Operations) /\ Len(calls) <= MAX_CALLS
    /\ checked \in {operation \in Operations : operation.op \in Subscriptions} \cup {NotCalled}
    /\ result \in [Calls -> {"none", "id", "error"}]
    /\ events \in [Calls -> Seq({"PUBLISHED", "SUBSCRIBED", "SUBSCRIBE_FAILED", "UNSUBSCRIBED"})]
    /\ data \in [Incoming -> Nat] /\ sending \in [Incoming -> {"new", "sent", "received", "done"}]
    /\ stored \subseteq Calls /\ granted \subseteq Calls /\ overtaken \subseteq Calls
    /\ arrived \in Seq(Calls) /\ delivered \in [Calls -> Nat]
    /\ breaks \in Nat /\ session \in Sessions

\* Bytes are under way on a connection only.
ConnInv ==
    /\ state = "CONNECTED" <=> conn # "closed"
    /\ conn # "up" => toBroker = <<>>

OfCall(type, id, qos) ==
    /\ id \in DOMAIN calls
    /\ type = "PUBLISH" => calls[id].op \in Messages /\ calls[id].qos = qos
    /\ type = "SUBSCRIBE" => calls[id].op = "subscribe"
    /\ type = "UNSUBSCRIBE" => calls[id].op = "unsubscribe"

Ordered(q) == \A i, j \in DOMAIN q : i < j => q[i].call < q[j].call

\* The outbox is in the order of the calls, one item for each; items and packets say what
\* was called, and nothing is there of a call to come.
IdsInv ==
    /\ Ordered(outbox)
    /\ \A item \in Kept : /\ OfCall(item.type, item.call, item.qos)
                          /\ item.type # "PUBLISH" => item.pending = "TRANSMITTED"
                          /\ item.pending = "ACKNOWLEDGED" => item.qos = 2
    /\ \A p \in Sent :
           /\ p.type \in Initiators => OfCall(p.type, p.id, p.qos)
           /\ p.type = "PUBREL" => p.id \in Published(2)
           /\ p.type \in {"PUBACK", "PUBREC", "PUBCOMP"} => p.id \in Incoming
           /\ p.type \notin {"SUBACK", "UNSUBACK"}
    /\ \A p \in Coming :
           /\ p.type = "PUBACK" => p.id \in Published(1)
           /\ p.type \in {"PUBREC", "PUBCOMP"} => p.id \in Published(2)
           /\ p.type \in {"PUBLISH", "PUBREL"} => p.id \in Incoming
           /\ p.type \in {"SUBACK", "UNSUBACK"} => p.id \in DOMAIN calls
           /\ p.type \notin {"SUBSCRIBE", "UNSUBSCRIBE"}
    /\ ToSet(arrived) \subseteq DOMAIN calls
    /\ \A c \in Calls \ DOMAIN calls : events[c] = <<>> /\ delivered[c] = 0 /\ c \notin stored

\* The broker has the message, or has passed it on, or has forgotten it by agreement.
Held(c) == session.clean \/ c \in stored \/ delivered[c] > 0

\* What an answer says is so.
AnswersTrue ==
    /\ \A item \in Kept : item.pending = "ACKNOWLEDGED" => Held(item.call)
    /\ \A p \in Sent : p.type = "PUBREL" => Held(p.id)
    /\ \A p \in Coming :
           /\ p.type = "PUBACK" => delivered[p.id] > 0
           /\ p.type = "PUBREC" => Held(p.id)
           /\ p.type = "PUBCOMP" => session.clean \/ delivered[p.id] > 0
           /\ p.type = "SUBACK" /\ p.ok => p.id \in granted

\* A message is acknowledged to the broker, and released by it, only when it was given to the
\* application.
GivenFirst ==
    /\ \A p \in Sent : p.type \in {"PUBACK", "PUBREC", "PUBCOMP"} => data[p.id] > 0
    /\ \A p \in Coming : p.type = "PUBREL" => data[p.id] > 0
    /\ \A m \in Incoming : sending[m] = "received" => data[m] > 0

\* What is to be announced still is in the outbox.
EventsInv == \A item \in Kept : events[item.call] = <<>>

Unanswered(c) == \E item \in Kept : item.call = c /\ item.pending # "ACKNOWLEDGED"

\* A message of QoS 2 is released when it is not sent any more, and then is passed on.
ReleasedLast ==
    /\ \A k, l \in DOMAIN toBroker :
           toBroker[k].type = "PUBREL" /\ toBroker[l].type = "PUBLISH" /\ k < l =>
               toBroker[k].id # toBroker[l].id
    /\ \A c \in Published(2) :
           /\ Unanswered(c) =>
                  delivered[c] = 0 /\ \A p \in Sent : p.type = "PUBREL" => p.id # c
           /\ delivered[c] > 0 =>
                  c \notin stored /\ \A p \in Sent : p.type = "PUBLISH" => p.id # c

Prompt(c) == c \notin overtaken
Publishing(k, c) == toBroker[k].type = "PUBLISH" /\ toBroker[k].id = c
Written(c) == Contains(arrived, c) \/ \E k \in DOMAIN toBroker : Publishing(k, c)

\* What was written was called before what still is to be, unless one of the two is overtaken;
\* and what was transmitted on this connection is on its way, or has arrived.
ItemsInOrder ==
    \A item \in Kept : item.type = "PUBLISH" /\ Prompt(item.call) =>
        /\ item.pending = "QUEUED" =>
               ~ Written(item.call) /\ \A c \in Calls : Written(c) /\ Prompt(c) => c < item.call
        /\ item.pending = "TRANSMITTED" /\ conn = "up" => Written(item.call)

\* Where a message is on its way for the first time, what comes before it was called before it.
QueueInOrder ==
    \A l \in DOMAIN toBroker : \A d \in Calls :
        Publishing(l, d) /\ Prompt(d) /\ ~ Contains(arrived, d)
            /\ (\A k \in DOMAIN toBroker : k < l => ~ Publishing(k, d)) =>
               /\ \A c \in Calls : Contains(arrived, c) /\ Prompt(c) => c < d
               /\ \A k \in DOMAIN toBroker : \A c \in Calls :
                      k < l /\ Publishing(k, c) /\ Prompt(c) => c < d

OrderInv == ItemsInOrder /\ QueueInOrder /\ KeptOrder

SessionInv ==
    /\ SessionTypeOK /\ ConnInv /\ IdsInv /\ AnswersTrue /\ GivenFirst /\ EventsInv
    /\ AtLeastOnce /\ EventsTrue /\ ReleasedLast /\ NeverTwice

----------------------------------------------------------------------------
(* Numbers and sequences *)

\* A set of naturals with 0 and with the successor of each of its elements has all of them.
LEMMA NatSetInduction ==
    ASSUME NEW S, 0 \in S, \A n \in Nat : n \in S => n + 1 \in S
    PROVE  Nat \subseteq S
<1> DEFINE T == Nat \ S
           R == {ss \in Nat \X Nat : ss[1] < ss[2]}
<1>1. SUFFICES ASSUME T # {} PROVE FALSE
  OBVIOUS
<1>2. IsWellFoundedOn(R, Nat)
  BY NatLessThanWellFounded, Zenon DEF OpToRel
<1>3. PICK n \in T : \A m \in T : ~ (<<m, n>> \in R)
  <2> HIDE DEF R, T
  <2>1. T \subseteq Nat
    BY DEF T
  <2> QED BY <1>1, <1>2, <2>1, WFMin
<1>4. n \in Nat /\ n # 0
  OBVIOUS
<1>5. n - 1 \in Nat /\ n - 1 < n /\ (n - 1) + 1 = n
  BY <1>4
<1>6. n - 1 \notin T
  BY <1>3, <1>4, <1>5
<1>7. QED BY <1>5, <1>6

LEMMA Least ==
    ASSUME NEW S \in SUBSET Nat, S # {}
    PROVE  Min(S) \in S /\ \A n \in S : Min(S) <= n
<1> DEFINE R == {ss \in Nat \X Nat : ss[1] < ss[2]}
<1>1. IsWellFoundedOn(R, Nat)
  BY NatLessThanWellFounded, Zenon DEF OpToRel
<1>2. PICK n \in S : \A m \in S : ~ (<<m, n>> \in R)
  <2> HIDE DEF R
  <2> QED BY <1>1, WFMin
<1>3. S \subseteq Nat
  OBVIOUS
<1>4. ASSUME NEW m \in S PROVE n <= m
  <2>1. m \in Nat /\ n \in Nat /\ ~ (m < n)
    BY <1>2, <1>3
  <2>2. QED BY <2>1
<1>5. QED BY <1>4 DEF Min

LEMMA TailGives ==
    ASSUME NEW S, NEW s \in Seq(S), s # <<>>
    PROVE  /\ Tail(s) \in Seq(S) /\ Head(s) \in ToSet(s) /\ ToSet(Tail(s)) \subseteq ToSet(s)
           /\ Head(s) \in S /\ Head(s) = s[1] /\ 1 \in DOMAIN s
           /\ \A k \in DOMAIN Tail(s) : k + 1 \in DOMAIN s /\ Tail(s)[k] = s[k + 1]
           /\ \A k \in DOMAIN s : k = 1 \/ (k - 1 \in DOMAIN Tail(s) /\ Tail(s)[k - 1] = s[k])
           /\ DOMAIN s = 1 .. Len(s) /\ DOMAIN Tail(s) = 1 .. Len(s) - 1 /\ Len(s) \in Nat
<1>1. /\ Len(s) \in Nat \ {0} /\ DOMAIN s = 1 .. Len(s) /\ Tail(s) \in Seq(S)
      /\ DOMAIN Tail(s) = 1 .. Len(s) - 1
      /\ \A k \in 1 .. Len(s) - 1 : Tail(s)[k] = s[k + 1]
      /\ Head(s) = s[1]
  OBVIOUS
<1>2. 1 \in DOMAIN s /\ s[1] \in S
  BY <1>1
<1>3. \A k \in DOMAIN Tail(s) : k + 1 \in DOMAIN s /\ Tail(s)[k] = s[k + 1]
  BY <1>1
<1>4. ASSUME NEW k \in DOMAIN s, k # 1
      PROVE  k - 1 \in DOMAIN Tail(s) /\ Tail(s)[k - 1] = s[k]
  <2>1. k - 1 \in 1 .. Len(s) - 1 /\ (k - 1) + 1 = k
    BY <1>1, <1>4
  <2>2. QED BY <1>1, <2>1
<1>5. QED BY <1>1, <1>2, <1>3, <1>4 DEF ToSet

LEMMA AppendGives ==
    ASSUME NEW S, NEW s \in Seq(S), NEW e \in S
    PROVE  /\ Append(s, e) \in Seq(S) /\ ToSet(Append(s, e)) = ToSet(s) \cup {e}
           /\ DOMAIN s = 1 .. Len(s) /\ Len(s) \in Nat
           /\ Len(Append(s, e)) = Len(s) + 1
           /\ DOMAIN Append(s, e) = 1 .. Len(s) + 1
           /\ \A k \in 1 .. Len(s) : Append(s, e)[k] = s[k]
           /\ Append(s, e)[Len(s) + 1] = e
<1>1. /\ Append(s, e) \in Seq(S) /\ Len(Append(s, e)) = Len(s) + 1
      /\ DOMAIN s = 1 .. Len(s) /\ Len(s) \in Nat
      /\ \A k \in 1 .. Len(s) : Append(s, e)[k] = s[k]
      /\ Append(s, e)[Len(s) + 1] = e
  BY AppendProperties
<1>2. DOMAIN Append(s, e) = 1 .. Len(s) + 1
  BY <1>1
<1>3. /\ \A k \in 1 .. Len(s) + 1 : k \in 1 .. Len(s) \/ k = Len(s) + 1
      /\ \A k \in 1 .. Len(s) : k \in 1 .. Len(s) + 1
      /\ Len(s) + 1 \in 1 .. Len(s) + 1
  BY <1>1
<1>4. ToSet(Append(s, e)) = ToSet(s) \cup {e}
  BY <1>1, <1>2, <1>3 DEF ToSet
<1>5. QED BY <1>1, <1>2, <1>4

LEMMA ConcatGives ==
    ASSUME NEW S, NEW s \in Seq(S), NEW r \in Seq(S)
    PROVE  /\ s \o r \in Seq(S) /\ ToSet(s \o r) = ToSet(s) \cup ToSet(r)
           /\ Len(s) \in Nat /\ Len(r) \in Nat
           /\ DOMAIN s = 1 .. Len(s) /\ DOMAIN r = 1 .. Len(r)
           /\ DOMAIN (s \o r) = 1 .. Len(s) + Len(r)
           /\ \A k \in 1 .. Len(s) : (s \o r)[k] = s[k]
           /\ \A k \in 1 .. Len(r) : (s \o r)[Len(s) + k] = r[k]
<1> DEFINE c == s \o r
<1>1. /\ c \in Seq(S) /\ Len(c) = Len(s) + Len(r)
      /\ \A k \in 1 .. Len(s) + Len(r) : c[k] = IF k <= Len(s) THEN s[k] ELSE r[k - Len(s)]
  BY ConcatProperties
<1>2. /\ Len(s) \in Nat /\ Len(r) \in Nat /\ DOMAIN s = 1 .. Len(s) /\ DOMAIN r = 1 .. Len(r)
  OBVIOUS
<1> HIDE DEF c
<1>3. DOMAIN c = 1 .. Len(s) + Len(r)
  BY <1>1
<1>4. \A k \in 1 .. Len(s) : k \in 1 .. Len(s) + Len(r) /\ c[k] = s[k]
  BY <1>1, <1>2
<1>5. ASSUME NEW k \in 1 .. Len(r) PROVE Len(s) + k \in 1 .. Len(s) + Len(r) /\ c[Len(s) + k] = r[k]
  <2>1. Len(s) + k \in 1 .. Len(s) + Len(r) /\ ~ (Len(s) + k <= Len(s)) /\ (Len(s) + k) - Len(s) = k
    BY <1>2, <1>5
  <2>2. QED BY <1>1, <2>1
<1>6. ASSUME NEW k \in 1 .. Len(s) + Len(r)
      PROVE  k \in 1 .. Len(s) \/ (k - Len(s) \in 1 .. Len(r) /\ Len(s) + (k - Len(s)) = k)
  BY <1>2, <1>6
<1>7. ToSet(c) = ToSet(s) \cup ToSet(r)
  <2>1. ASSUME NEW e \in ToSet(c) PROVE e \in ToSet(s) \cup ToSet(r)
    <3>1. PICK k \in 1 .. Len(s) + Len(r) : e = c[k]
      BY <1>3 DEF ToSet
    <3>2. QED BY <1>2, <1>4, <1>5, <1>6, <3>1 DEF ToSet
  <2>2. ASSUME NEW e \in ToSet(s) PROVE e \in ToSet(c)
    BY <1>2, <1>3, <1>4 DEF ToSet
  <2>3. ASSUME NEW e \in ToSet(r) PROVE e \in ToSet(c)
    BY <1>2, <1>3, <1>5 DEF ToSet
  <2>4. QED BY <2>1, <2>2, <2>3
<1>8. QED BY <1>1, <1>2, <1>3, <1>4, <1>5, <1>7 DEF c

LEMMA RemoveAtGives ==
    ASSUME NEW S, NEW q \in Seq(S), NEW n \in DOMAIN q
    PROVE  /\ RemoveAt(q, n) \in Seq(S) /\ DOMAIN RemoveAt(q, n) = 1 .. Len(q) - 1
           /\ \A j \in DOMAIN RemoveAt(q, n) : RemoveAt(q, n)[j] = q[IF j < n THEN j ELSE j + 1]
           /\ DOMAIN q = 1 .. Len(q) /\ Len(q) \in Nat /\ n \in 1 .. Len(q)
<1> DEFINE r == RemoveAt(q, n)
           a == SubSeq(q, 1, n - 1)
           b == SubSeq(q, n + 1, Len(q))
<1>1. DOMAIN q = 1 .. Len(q) /\ Len(q) \in Nat /\ n \in 1 .. Len(q) /\ \A i \in DOMAIN q : q[i] \in S
  OBVIOUS
<1>2. /\ a \in Seq(S) /\ Len(a) = n - 1
      /\ \A j \in 1 .. n - 1 : a[j] = q[j]
  BY <1>1
<1>3. /\ b \in Seq(S) /\ Len(b) = Len(q) - n
      /\ \A j \in 1 .. Len(q) - n : b[j] = q[n + j]
  BY <1>1
<1> HIDE DEF a, b
<1>4. r = a \o b
  BY DEF RemoveAt, a, b
<1> HIDE DEF r
<1>5. /\ r \in Seq(S) /\ Len(r) = Len(a) + Len(b)
      /\ \A j \in 1 .. Len(a) + Len(b) : r[j] = IF j <= Len(a) THEN a[j] ELSE b[j - Len(a)]
  BY <1>2, <1>3, <1>4, ConcatProperties
<1>6. DOMAIN r = 1 .. Len(q) - 1
  BY <1>1, <1>2, <1>3, <1>5
<1>7. ASSUME NEW j \in DOMAIN r PROVE r[j] = q[IF j < n THEN j ELSE j + 1]
  <2>1. CASE j < n
    BY <1>1, <1>2, <1>3, <1>5, <1>6, <2>1
  <2>2. CASE ~ (j < n)
    <3>1. r[j] = b[j - (n - 1)] /\ j - (n - 1) \in 1 .. Len(q) - n /\ n + (j - (n - 1)) = j + 1
      BY <1>1, <1>2, <1>3, <1>5, <1>6, <2>2
    <3>2. QED BY <1>3, <2>2, <3>1
  <2>3. QED BY <2>1, <2>2
<1>8. QED BY <1>1, <1>5, <1>6, <1>7 DEF r

----------------------------------------------------------------------------
(* The outbox *)

\* One item per call, that is.
LEMMA OneItem ==
    ASSUME NEW q \in Seq(Items), Ordered(q), NEW i \in DOMAIN q, NEW j \in DOMAIN q,
           q[i].call = q[j].call
    PROVE  i = j
<1>1. i \in Nat /\ j \in Nat /\ q[i] \in Items
  OBVIOUS
<1>2. q[i].call \in Nat
  BY <1>1 DEF Items, Calls
<1>3. i < j \/ j < i \/ i = j
  BY <1>1
<1>4. ~ (q[i].call < q[i].call)
  BY <1>2
<1>5. QED BY <1>3, <1>4 DEF Ordered

LEMMA EnqueueGives ==
    ASSUME NEW q \in Seq(Items), Ordered(q), NEW item \in Items,
           \A x \in ToSet(q) : x.call < item.call
    PROVE  /\ Append(q, item) \in Seq(Items) /\ Ordered(Append(q, item))
           /\ ToSet(Append(q, item)) = ToSet(q) \cup {item}
<1> DEFINE r == Append(q, item)
<1>1. /\ r \in Seq(Items) /\ ToSet(r) = ToSet(q) \cup {item}
      /\ DOMAIN q = 1 .. Len(q) /\ Len(q) \in Nat /\ DOMAIN r = 1 .. Len(q) + 1
      /\ \A k \in 1 .. Len(q) : r[k] = q[k]
      /\ r[Len(q) + 1] = item
  BY AppendGives
<1> HIDE DEF r
<1>2. ASSUME NEW i \in DOMAIN r, NEW j \in DOMAIN r, i < j PROVE r[i].call < r[j].call
  <2>1. i \in DOMAIN q /\ (j \in DOMAIN q \/ j = Len(q) + 1)
    BY <1>1, <1>2
  <2>2. q[i] \in ToSet(q)
    BY <2>1 DEF ToSet
  <2>3. QED BY <1>1, <1>2, <2>1, <2>2 DEF Ordered
<1>3. QED BY <1>1, <1>2 DEF Ordered, r

LEMMA FindGives ==
    ASSUME NEW q \in Seq(Items), NEW id
    PROVE  /\ Find(q, id) = 0 => \A x \in ToSet(q) : ~ HasId(x, id)
           /\ Find(q, id) # 0 => Find(q, id) \in DOMAIN q /\ HasId(q[Find(q, id)], id)
<1> DEFINE I == {j \in 1 .. Len(q) : HasId(q[j], id)}
<1>1. Find(q, id) = IF I # {} THEN Min(I) ELSE 0
  BY DEF SelectInSeq, Find, First
<1>2. I \in SUBSET Nat /\ DOMAIN q = 1 .. Len(q)
  OBVIOUS
<1>3. I # {} => Min(I) \in I
  <2> HIDE DEF I
  <2> QED BY <1>2, Least
<1>4. QED BY <1>1, <1>2, <1>3 DEF ToSet

With(item, pending) == [item EXCEPT !.pending = pending]

LEMMA WithGives ==
    ASSUME NEW item \in Items, NEW pending \in {"QUEUED", "TRANSMITTED", "ACKNOWLEDGED"}
    PROVE  /\ With(item, pending) \in Items /\ With(item, pending).call = item.call
           /\ With(item, pending).type = item.type /\ With(item, pending).qos = item.qos
           /\ With(item, pending).pending = pending
BY DEF Items, With

LEMMA SetPendingGives ==
    ASSUME NEW q \in Seq(Items), Ordered(q), NEW id,
           NEW pending \in {"QUEUED", "TRANSMITTED", "ACKNOWLEDGED"}
    PROVE  LET r == outbox_set_pending(q, id, pending)
           IN  /\ r \in Seq(Items) /\ Ordered(r)
               /\ \A y \in ToSet(r) : \E x \in ToSet(q) :
                      y = IF HasId(x, id) THEN With(x, pending) ELSE x
               /\ \A x \in ToSet(q) : (IF HasId(x, id) THEN With(x, pending) ELSE x) \in ToSet(r)
<1> DEFINE i == Find(q, id)
           r == outbox_set_pending(q, id, pending)
<1>1. r = IF i = 0 THEN q ELSE [q EXCEPT ![i].pending = pending]
  BY DEF outbox_set_pending
<1>2. /\ i = 0 => \A x \in ToSet(q) : ~ HasId(x, id)
      /\ i # 0 => i \in DOMAIN q /\ HasId(q[i], id)
  BY FindGives
<1> HIDE DEF i, r
<1>3. CASE i = 0
  BY <1>1, <1>2, <1>3 DEF r
<1>4. CASE i # 0
  <2> DEFINE item == With(q[i], pending)
  <2>1. q[i] \in Items /\ i \in DOMAIN q
    BY <1>2, <1>4
  <2>2. item \in Items /\ item.call = q[i].call
    BY <2>1, WithGives
  <2>3. r = [q EXCEPT ![i] = item]
    BY <1>1, <1>4 DEF With
  <2> HIDE DEF item
  <2>4. /\ r \in Seq(Items) /\ DOMAIN r = DOMAIN q /\ r[i] = item
        /\ \A j \in DOMAIN q : j # i => r[j] = q[j]
    BY <2>1, <2>2, <2>3, ExceptSeq
  <2>5. \A j \in DOMAIN q : r[j].call = q[j].call
    BY <2>2, <2>4
  <2>6. Ordered(r)
    BY <2>4, <2>5 DEF Ordered
  <2>7. ASSUME NEW j \in DOMAIN q PROVE r[j] = IF HasId(q[j], id) THEN With(q[j], pending) ELSE q[j]
    <3>1. CASE j = i
      BY <1>2, <1>4, <2>4, <3>1 DEF item
    <3>2. CASE j # i
      <4>1. q[j].call # q[i].call
        BY <2>1, <3>2, OneItem
      <4>2. ~ HasId(q[j], id)
        BY <1>2, <1>4, <4>1 DEF HasId
      <4>3. QED BY <2>4, <3>2, <4>2
    <3>3. QED BY <3>1, <3>2
  <2>8. QED BY <2>4, <2>6, <2>7 DEF ToSet, r
<1>5. QED BY <1>3, <1>4

LEMMA RemoveGives ==
    ASSUME NEW q \in Seq(Items), Ordered(q), NEW n \in DOMAIN q
    PROVE  /\ RemoveAt(q, n) \in Seq(Items) /\ Ordered(RemoveAt(q, n))
           /\ ToSet(RemoveAt(q, n)) = ToSet(q) \ {q[n]}
<1> DEFINE r == RemoveAt(q, n)
           At(j) == IF j < n THEN j ELSE j + 1
<1>1. /\ r \in Seq(Items) /\ DOMAIN r = 1 .. Len(q) - 1
      /\ \A j \in DOMAIN r : r[j] = q[At(j)]
      /\ DOMAIN q = 1 .. Len(q) /\ Len(q) \in Nat /\ n \in 1 .. Len(q)
  BY RemoveAtGives
<1> HIDE DEF r
<1>2. \A j \in DOMAIN r : At(j) \in DOMAIN q /\ At(j) # n
  BY <1>1
<1>3. \A i, j \in DOMAIN r : i < j => At(i) < At(j)
  BY <1>1
<1>4. ASSUME NEW k \in DOMAIN q, k # n PROVE \E j \in DOMAIN r : At(j) = k
  <2>1. CASE k < n
    <3>1. k \in DOMAIN r /\ At(k) = k
      BY <1>1, <1>4, <2>1
    <3>2. QED BY <3>1
  <2>2. CASE k > n
    <3>1. k - 1 \in DOMAIN r /\ At(k - 1) = k
      BY <1>1, <1>4, <2>2
    <3>2. QED BY <3>1
  <2>3. QED BY <1>1, <1>4, <2>1, <2>2
<1> HIDE DEF At
<1>5. Ordered(r)
  BY <1>1, <1>2, <1>3 DEF Ordered
<1>6. \A k \in DOMAIN q : k # n => q[k] # q[n]
  BY OneItem
<1>7. ToSet(r) = ToSet(q) \ {q[n]}
  BY <1>1, <1>2, <1>4, <1>6 DEF ToSet
<1>8. QED BY <1>1, <1>5, <1>7 DEF r

\* What is finished leaves the outbox, and nothing else does.
LEMMA WithoutGives ==
    ASSUME outbox \in Seq(Items), Ordered(outbox), NEW type, NEW id,
           remove_initiator_message(type, id)
    PROVE  \E item \in Kept :
               /\ HasId(item, id) /\ item.type = type
               /\ Without(type, id) \in Seq(Items) /\ Ordered(Without(type, id))
               /\ ToSet(Without(type, id)) = Kept \ {item}
<1> DEFINE I == {j \in 1 .. Len(outbox) : HasId(outbox[j], id) /\ outbox[j].type = type}
<1>1. /\ DOMAIN outbox = 1 .. Len(outbox) /\ I \in SUBSET Nat /\ I # {}
      /\ \E j \in 1 .. Len(outbox) : HasId(outbox[j], id) /\ outbox[j].type = type
  BY DEF remove_initiator_message
<1>2. Without(type, id) = RemoveAt(outbox, Min(I))
  BY <1>1 DEF Without, RemoveFirstMatch, SelectInSeq
<1>3. Min(I) \in I
  <2> HIDE DEF I
  <2> QED BY <1>1, Least
<1> DEFINE n == Min(I)
<1>4. n \in DOMAIN outbox /\ HasId(outbox[n], id) /\ outbox[n].type = type
  BY <1>1, <1>3
<1> HIDE DEF n
<1>5. Without(type, id) = RemoveAt(outbox, n)
  BY <1>2 DEF n
<1>6. outbox[n] \in Kept
  BY <1>4 DEF Kept, ToSet
<1>7. QED BY <1>4, <1>5, <1>6, RemoveGives DEF Kept

LEMMA PendingGives ==
    ASSUME outbox \in Seq(Items), Ordered(outbox), NEW pending
    PROVE  /\ Pending(pending) = 0 => \A x \in Kept : x.pending # pending
           /\ Pending(pending) # 0 =>
                  /\ Pending(pending) \in DOMAIN outbox /\ outbox[Pending(pending)] \in Kept
                  /\ outbox[Pending(pending)].pending = pending
                  /\ \A x \in Kept : x.pending = pending =>
                         x = outbox[Pending(pending)] \/ outbox[Pending(pending)].call < x.call
<1> DEFINE I == {j \in 1 .. Len(outbox) : outbox[j].pending = pending}
<1>1. Pending(pending) = IF I # {} THEN Min(I) ELSE 0
  BY DEF SelectInSeq, Pending, First
<1>2. I \in SUBSET Nat /\ DOMAIN outbox = 1 .. Len(outbox) /\ 0 \notin I
  OBVIOUS
<1>3. I # {} => Min(I) \in I /\ \A n \in I : Min(I) <= n
  <2> HIDE DEF I
  <2> QED BY <1>2, Least
<1>4. CASE I = {}
  BY <1>1, <1>2, <1>4 DEF Kept, ToSet
<1>5. CASE I # {}
  <2>1. PICK n : n = Min(I)
    OBVIOUS
  <2>2. /\ n \in DOMAIN outbox /\ n \in Nat /\ outbox[n].pending = pending /\ Pending(pending) = n
        /\ n # 0 /\ \A m \in I : n <= m
    BY <1>1, <1>2, <1>3, <1>5, <2>1
  <2>3. ASSUME NEW x \in Kept, x.pending = pending PROVE x = outbox[n] \/ outbox[n].call < x.call
    <3>1. PICK m \in DOMAIN outbox : x = outbox[m]
      BY DEF Kept, ToSet
    <3>2. m \in Nat /\ n <= m
      BY <1>2, <2>2, <2>3, <3>1
    <3>3. CASE n < m
      BY <2>2, <3>1, <3>3 DEF Ordered
    <3>4. QED BY <2>2, <3>1, <3>2, <3>3
  <2>4. outbox[n] \in Kept
    BY <2>2 DEF Kept, ToSet
  <2> HIDE DEF I
  <2>5. QED BY <2>2, <2>3, <2>4
<1>6. QED BY <1>4, <1>5

----------------------------------------------------------------------------
(* What the steps do *)

LEMMA Bounds ==
    /\ MAX_CALLS \in Nat /\ MAX_INCOMING \in Nat /\ NotCalled \notin Operations
    /\ \A operation \in Operations : operation.qos \in 0 .. 2
    /\ \A s \in Sessions : s.qos \in 1 .. 2 /\ s.clean \in BOOLEAN
<1>1. /\ MAX_CALLS \in Nat /\ MAX_INCOMING \in Nat
      /\ \A operation \in Operations :
             operation.qos \in 0 .. 2 /\ operation.op \in Messages \cup Subscriptions
      /\ \A s \in Sessions : s.qos \in 1 .. 2 /\ s.clean \in BOOLEAN
  BY MqttSessionAssumption DEF Messages, Subscriptions
<1>2. NotCalled.op = "none"
  BY DEF NotCalled
<1>3. QED BY <1>1, <1>2 DEF Messages, Subscriptions

LEMMA PacketGives ==
    ASSUME NEW type \in Types, NEW id \in Calls \cup Incoming
    PROVE  /\ Packet(type, id) \in Packets
           /\ Packet(type, id).type = type /\ Packet(type, id).id = id /\ Packet(type, id).qos = 0
BY DEF Packet, Packets, Types

LEMMA PacketOfGives ==
    ASSUME NEW item \in Items
    PROVE  /\ PacketOf(item) \in Packets /\ PacketOf(item).type = item.type
           /\ PacketOf(item).id = item.call /\ PacketOf(item).qos = item.qos
<1>1. item.type \in Types /\ item.call \in Calls \cup Incoming /\ item.qos \in 0 .. 2
  BY DEF Items, Types
<1>2. PICK packet : packet = Packet(item.type, item.call)
  OBVIOUS
<1>3. packet \in Packets /\ packet.type = item.type /\ packet.id = item.call
  BY <1>1, <1>2, PacketGives
<1>4. PICK qos : qos = item.qos
  OBVIOUS
<1>5. PacketOf(item) = [packet EXCEPT !.qos = qos]
  BY <1>2, <1>4 DEF PacketOf
<1>6. qos \in 0 .. 2
  BY <1>1, <1>4
<1>7. PICK r : r = [packet EXCEPT !.qos = qos]
  OBVIOUS
<1>8. r \in Packets /\ r.type = packet.type /\ r.id = packet.id /\ r.qos = qos
  BY <1>3, <1>6, <1>7 DEF Packets
<1>9. QED BY <1>3, <1>4, <1>5, <1>7, <1>8

LEMMA CalledGives ==
    ASSUME calls \in Seq(Operations), NEW operation \in Operations, Called(operation)
    PROVE  /\ Call \in Calls /\ Call \notin DOMAIN calls /\ DOMAIN calls \subseteq Calls
           /\ calls' \in Seq(Operations) /\ Len(calls') <= MAX_CALLS
           /\ DOMAIN calls' = DOMAIN calls \cup {Call} /\ calls'[Call] = operation
           /\ \A c \in DOMAIN calls : calls'[c] = calls[c] /\ c < Call
           /\ \A qos : /\ Published(qos) \subseteq Published(qos)'
                       /\ Published(qos)' \subseteq Published(qos) \cup {Call}
                       /\ Call \in Published(qos)' <=>
                              operation.op \in Messages /\ operation.qos = qos
<1>1. /\ calls' \in Seq(Operations) /\ DOMAIN calls = 1 .. Len(calls) /\ Len(calls) \in Nat
      /\ Len(calls') = Len(calls) + 1 /\ DOMAIN calls' = 1 .. Len(calls) + 1
      /\ \A k \in 1 .. Len(calls) : calls'[k] = calls[k]
      /\ calls'[Len(calls) + 1] = operation /\ Len(calls) < MAX_CALLS
  BY AppendGives DEF Called
<1>2. /\ Call \in Calls /\ Call \notin DOMAIN calls /\ DOMAIN calls \subseteq Calls
      /\ Len(calls') <= MAX_CALLS /\ \A c \in DOMAIN calls : c < Call
      /\ DOMAIN calls' = DOMAIN calls \cup {Call}
  BY <1>1, Bounds DEF Call, Calls
<1>3. calls'[Call] = operation /\ \A c \in DOMAIN calls : calls'[c] = calls[c]
  BY <1>1 DEF Call
<1>4. QED BY <1>1, <1>2, <1>3 DEF Published, Messages

LEMMA WriteGives ==
    ASSUME toBroker \in Seq(Packets), NEW packets \in Seq(Packets), conn # "up" => toBroker = <<>>,
           Write(packets) \/ WriteFails
    PROVE  /\ toBroker' \in Seq(Packets) /\ Sent' \subseteq Sent \cup ToSet(packets)
           /\ toBroker' = toBroker \/ (conn = "up" /\ toBroker' = toBroker \o packets)
           /\ conn # "up" => toBroker' = <<>>
           /\ Sent \subseteq Sent'
<1>1. toBroker' = toBroker \/ (conn = "up" /\ toBroker' = toBroker \o packets)
  BY DEF Write, WriteFails
<1>2. toBroker \o packets \in Seq(Packets) /\ ToSet(toBroker \o packets) = Sent \cup ToSet(packets)
  BY ConcatGives DEF Sent
<1>3. Sent' = ToSet(toBroker')
  BY DEF Sent
<1>4. QED BY <1>1, <1>2, <1>3 DEF Sent

LEMMA OneGives ==
    ASSUME NEW p \in Packets
    PROVE  <<p>> \in Seq(Packets) /\ ToSet(<<p>>) = {p} /\ <<p>>[1] = p /\ Len(<<p>>) = 1
BY DEF ToSet

LEMMA ItemGives ==
    ASSUME NEW call \in Calls, NEW type \in Initiators, NEW qos \in 0 .. 2
    PROVE  /\ Item(call, type, qos) \in Items /\ Item(call, type, qos).call = call
           /\ Item(call, type, qos).type = type /\ Item(call, type, qos).qos = qos
           /\ Item(call, type, qos).pending = "QUEUED"
BY DEF Item, Items

LEMMA SetNoneGives ==
    ASSUME NEW q \in Seq(Items), Ordered(q), NEW id, \A x \in ToSet(q) : x.call # id
    PROVE  outbox_set_pending(q, id, "TRANSMITTED") = q
<1>1. Find(q, id) # 0 => Find(q, id) \in DOMAIN q /\ HasId(q[Find(q, id)], id)
  BY FindGives
<1>2. Find(q, id) = 0
  BY <1>1 DEF HasId, ToSet
<1>3. QED BY <1>2 DEF outbox_set_pending

LEMMA SetNewGives ==
    ASSUME NEW q \in Seq(Items), Ordered(q), NEW item \in Items,
           \A x \in ToSet(q) : x.call < item.call /\ x.call \in Nat,
           item.qos > 0 \/ item.type # "PUBLISH"
    PROVE  LET r == outbox_set_pending(Append(q, item), item.call, "TRANSMITTED")
           IN  /\ r \in Seq(Items) /\ Ordered(r)
               /\ ToSet(r) = ToSet(q) \cup {With(item, "TRANSMITTED")}
<1> DEFINE r == outbox_set_pending(Append(q, item), item.call, "TRANSMITTED")
<1>1. PICK s, id : s = Append(q, item) /\ id = item.call
  OBVIOUS
<1>2. s \in Seq(Items) /\ Ordered(s) /\ ToSet(s) = ToSet(q) \cup {item}
  BY <1>1, EnqueueGives
<1>3. PICK t : t = outbox_set_pending(s, id, "TRANSMITTED")
  OBVIOUS
<1>4. /\ t \in Seq(Items) /\ Ordered(t)
      /\ \A y \in ToSet(t) : \E x \in ToSet(s) : y = IF HasId(x, id) THEN With(x, "TRANSMITTED") ELSE x
      /\ \A x \in ToSet(s) : (IF HasId(x, id) THEN With(x, "TRANSMITTED") ELSE x) \in ToSet(t)
  BY <1>2, <1>3, SetPendingGives
<1>5. HasId(item, id) /\ \A x \in ToSet(q) : ~ HasId(x, id)
  BY <1>1 DEF HasId, Items, Calls
<1>6. ToSet(t) = ToSet(q) \cup {With(item, "TRANSMITTED")}
  BY <1>2, <1>4, <1>5
<1>7. r = t
  BY <1>1, <1>3
<1>8. QED BY <1>4, <1>6, <1>7

\* What a call makes of an item of its own.
Made(operation, item) ==
    /\ item \in Items /\ item.call = Call /\ item.pending \in {"QUEUED", "TRANSMITTED"}
    /\ item.type # "PUBLISH" => item.pending = "TRANSMITTED"
    /\ item.type = "PUBLISH" => operation.op \in Messages /\ operation.qos = item.qos
    /\ item.type = "SUBSCRIBE" => operation.op = "subscribe"
    /\ item.type = "UNSUBSCRIBE" => operation.op = "unsubscribe"

KeptOrNot(item) ==
    /\ outbox' \in Seq(Items) /\ Ordered(outbox')
    /\ Kept' = Kept \cup {item} \/ (Kept' = Kept /\ item.type = "PUBLISH" /\ item.qos = 0)

WrittenOrNot(item) ==
    \/ toBroker' = toBroker
    \/ /\ conn = "up" /\ toBroker' = toBroker \o <<PacketOf(item)>>
       /\ item.type = "PUBLISH" => overtaken' = overtaken \cup Unsent

Marked(item) ==
    /\ overtaken' \subseteq Calls /\ overtaken \subseteq overtaken'
    /\ item.pending = "QUEUED" => toBroker' = toBroker
    /\ item.type = "PUBLISH" /\ item.pending = "TRANSMITTED" /\ conn' = "up" =>
           toBroker' = toBroker \o <<PacketOf(item)>>

Connection ==
    \/ UNCHANGED <<state, conn>>
    \/ conn # "up" /\ Abort

LEMMA CallOrder ==
    ASSUME SessionTypeOK, IdsInv
    PROVE  \A x \in Kept : x \in Items /\ x.call \in DOMAIN calls /\ x.call \in Calls /\ x.call \in Nat
<1>1. ASSUME NEW x \in Kept PROVE x \in Items
  BY DEF SessionTypeOK, Kept, ToSet
<1>2. \A x \in Kept : x.call \in DOMAIN calls
  BY DEF IdsInv, OfCall
<1>3. QED BY <1>1, <1>2 DEF Items, Calls

LEMMA EnqueueCallGives ==
    ASSUME SessionTypeOK, ConnInv, IdsInv, NEW operation \in Operations, Enqueue(operation)
    PROVE  \E item : /\ Made(operation, item) /\ KeptOrNot(item)
                     /\ WrittenOrNot(item) /\ Marked(item) /\ Connection
<1> DEFINE item == Item(Call, "PUBLISH", operation.qos)
<1>1. /\ item \in Items /\ item.call = Call /\ item.type = "PUBLISH" /\ item.qos = operation.qos
      /\ item.pending = "QUEUED"
  <2>1. Call \in Calls /\ operation.qos \in 0 .. 2
    BY CalledGives, Bounds DEF Enqueue, SessionTypeOK
  <2>2. PICK c, q : c = Call /\ q = operation.qos
    OBVIOUS
  <2>3. QED BY <2>1, <2>2, ItemGives DEF Initiators
<1>2. outbox' = Append(outbox, item) \/ (outbox' = outbox /\ item.qos = 0)
  <2>1. operation.qos \in 0 .. 2
    BY Bounds
  <2>2. QED BY <1>1, <2>1 DEF Enqueue, outbox_enqueue
<1>3. toBroker' = toBroker /\ overtaken' = overtaken /\ UNCHANGED <<state, conn>>
  BY DEF Enqueue
<1>4. operation.op \in Messages
  BY DEF Enqueue, Messages
<1> HIDE DEF item
<1>5. \A x \in ToSet(outbox) : x.call < item.call
  BY <1>1, CallOrder, CalledGives DEF Enqueue, SessionTypeOK, Kept
<1>6. outbox \in Seq(Items) /\ Ordered(outbox) /\ overtaken \subseteq Calls
  BY DEF SessionTypeOK, IdsInv
<1>7. KeptOrNot(item)
  <2>1. CASE outbox' = Append(outbox, item)
    BY <1>1, <1>5, <1>6, <2>1, EnqueueGives DEF KeptOrNot, Kept
  <2>2. CASE outbox' = outbox /\ item.qos = 0
    BY <1>1, <1>6, <2>2 DEF KeptOrNot, Kept
  <2>3. QED BY <1>2, <2>1, <2>2
<1>8. QED
  BY <1>1, <1>3, <1>4, <1>6, <1>7 DEF Made, WrittenOrNot, Marked, Connection

LEMMA PublishCallGives ==
    ASSUME SessionTypeOK, ConnInv, IdsInv, NEW operation \in Operations, Publish(operation)
    PROVE  \E item : /\ Made(operation, item) /\ KeptOrNot(item)
                     /\ WrittenOrNot(item) /\ Marked(item) /\ Connection
<1> DEFINE new == Item(Call, "PUBLISH", operation.qos)
           kept == IF new.qos > 0 THEN outbox_enqueue(new) ELSE outbox
<1>1. /\ new \in Items /\ new.call = Call /\ new.type = "PUBLISH" /\ new.qos = operation.qos
      /\ new.pending = "QUEUED" /\ new.qos \in 0 .. 2 /\ Call \in Calls
  <2>1. Call \in Calls /\ operation.qos \in 0 .. 2
    BY CalledGives, Bounds DEF Publish, SessionTypeOK
  <2>2. PICK c, q : c = Call /\ q = operation.qos
    OBVIOUS
  <2>3. QED BY <2>1, <2>2, ItemGives DEF Initiators
<1>2. operation.op \in Messages
  BY DEF Publish, Messages
<1>3. \/ /\ Write(<<PacketOf(new)>>) /\ outbox' = outbox_set_pending(kept, Call, "TRANSMITTED")
         /\ overtaken' = overtaken \cup Unsent \cup (IF conn = "up" THEN {} ELSE {Call})
         /\ UNCHANGED <<state, conn>>
      \/ WriteFails /\ Abort /\ outbox' = kept /\ UNCHANGED overtaken
      \/ outbox' = kept /\ UNCHANGED <<state, conn, toBroker, overtaken>>
  BY DEF Publish
<1>4. kept = IF new.qos > 0 THEN Append(outbox, new) ELSE outbox
  BY DEF outbox_enqueue
<1> HIDE DEF new, kept
<1>5. \A x \in ToSet(outbox) : x.call < new.call /\ x.call # Call /\ x.call \in Nat
  BY <1>1, CallOrder, CalledGives DEF Publish, SessionTypeOK, Kept
<1>6. outbox \in Seq(Items) /\ Ordered(outbox) /\ overtaken \subseteq Calls
  BY DEF SessionTypeOK, IdsInv
<1>7. CASE outbox' = kept /\ UNCHANGED <<toBroker, overtaken>> /\ Connection
  <2>1. KeptOrNot(new)
    <3>1. CASE new.qos > 0
      BY <1>1, <1>4, <1>5, <1>6, <1>7, <3>1, EnqueueGives DEF KeptOrNot, Kept
    <3>2. CASE ~ (new.qos > 0)
      BY <1>1, <1>4, <1>6, <1>7, <3>2 DEF KeptOrNot, Kept
    <3>3. QED BY <3>1, <3>2
  <2>2. Made(operation, new) /\ WrittenOrNot(new) /\ Marked(new)
    BY <1>1, <1>2, <1>6, <1>7 DEF Made, WrittenOrNot, Marked
  <2>3. QED BY <1>7, <2>1, <2>2
<1>8. CASE /\ Write(<<PacketOf(new)>>) /\ outbox' = outbox_set_pending(kept, Call, "TRANSMITTED")
           /\ overtaken' = overtaken \cup Unsent \cup (IF conn = "up" THEN {} ELSE {Call})
           /\ UNCHANGED <<state, conn>>
  <2> DEFINE item == With(new, "TRANSMITTED")
  <2>1. /\ item \in Items /\ item.call = Call /\ item.type = "PUBLISH" /\ item.qos = new.qos
        /\ item.pending = "TRANSMITTED"
    BY <1>1, WithGives
  <2>2. KeptOrNot(item)
    <3>1. CASE new.qos > 0
      <4>1. outbox' = outbox_set_pending(Append(outbox, new), new.call, "TRANSMITTED")
        BY <1>1, <1>4, <1>8, <3>1
      <4>2. /\ outbox' \in Seq(Items) /\ Ordered(outbox') /\ ToSet(outbox') = ToSet(outbox) \cup {item}
        BY <1>1, <1>5, <1>6, <3>1, <4>1, SetNewGives
      <4>3. QED BY <4>2 DEF KeptOrNot, Kept
    <3>2. CASE ~ (new.qos > 0)
      <4>1. outbox' = outbox
        <5>1. PICK c : c = Call
          OBVIOUS
        <5>2. outbox_set_pending(outbox, c, "TRANSMITTED") = outbox
          BY <1>5, <1>6, <5>1, SetNoneGives
        <5>3. QED BY <1>4, <1>8, <3>2, <5>1, <5>2
      <4>2. QED BY <1>1, <1>6, <2>1, <3>2, <4>1 DEF KeptOrNot, Kept
    <3>3. QED BY <3>1, <3>2
  <2> HIDE DEF item
  <2>3. PacketOf(item) = PacketOf(new)
    BY <1>1, <2>1 DEF PacketOf
  <2>4. Unsent \subseteq Calls
    <3>1. \A i \in DOMAIN outbox : outbox[i] \in Items
      BY <1>6
    <3>2. QED BY <3>1 DEF Unsent, Items
  <2>5. overtaken' \subseteq Calls /\ overtaken \subseteq overtaken'
    BY <1>1, <1>6, <1>8, <2>4
  <2>6. WrittenOrNot(item) /\ Marked(item)
    <3>1. CASE conn = "up"
      <4>1. toBroker' = toBroker \o <<PacketOf(item)>> /\ overtaken' = overtaken \cup Unsent
        BY <1>8, <2>3, <3>1 DEF Write
      <4>2. QED BY <2>1, <2>5, <3>1, <4>1 DEF WrittenOrNot, Marked
    <3>2. CASE conn # "up"
      <4>1. toBroker' = toBroker /\ conn' # "up"
        BY <1>8, <3>2 DEF Write
      <4>2. QED BY <2>1, <2>5, <4>1 DEF WrittenOrNot, Marked
    <3>3. QED BY <3>1, <3>2
  <2>7. Made(operation, item) /\ Connection
    BY <1>1, <1>2, <1>8, <2>1 DEF Made, Connection
  <2>8. QED BY <2>2, <2>6, <2>7
<1>9. QED BY <1>3, <1>7, <1>8 DEF WriteFails, Connection

LEMMA SubscribeCallGives ==
    ASSUME SessionTypeOK, ConnInv, IdsInv, Subscribe
    PROVE  \E item : /\ Made(checked, item) /\ KeptOrNot(item)
                     /\ WrittenOrNot(item) /\ Marked(item) /\ Connection
<1> DEFINE type == IF checked.op = "subscribe" THEN "SUBSCRIBE" ELSE "UNSUBSCRIBE"
           new == Item(Call, type, 0)
<1>1. checked \in Operations /\ checked.op \in Subscriptions
  BY DEF SessionTypeOK, Subscribe
<1>2. Call \in Calls
  BY <1>1, CalledGives DEF SessionTypeOK, Subscribe
<1>3. /\ type \in {"SUBSCRIBE", "UNSUBSCRIBE"}
      /\ type = "SUBSCRIBE" => checked.op = "subscribe"
  OBVIOUS
<1>4. type = "UNSUBSCRIBE" => checked.op = "unsubscribe"
  BY <1>1 DEF Subscriptions
<1>5. /\ outbox' = outbox_set_pending(outbox_enqueue(new), Call, "TRANSMITTED")
      /\ Write(<<PacketOf(new)>>) \/ WriteFails
      /\ UNCHANGED <<state, conn, overtaken>>
  BY DEF Subscribe
<1>6. PICK ty : ty = type
  OBVIOUS
<1>7. new = Item(Call, ty, 0)
  BY <1>6
<1> HIDE DEF type, new
<1>8. /\ new \in Items /\ new.call = Call /\ new.type = ty /\ new.qos = 0 /\ new.pending = "QUEUED"
  <2>1. PICK c : c = Call
    OBVIOUS
  <2>2. ty \in Initiators /\ c \in Calls
    BY <1>2, <1>3, <1>6, <2>1 DEF Initiators
  <2>3. QED BY <1>7, <2>1, <2>2, ItemGives
<1>9. \A x \in ToSet(outbox) : x.call < new.call /\ x.call \in Nat
  BY <1>1, <1>8, CallOrder, CalledGives DEF Subscribe, SessionTypeOK, Kept
<1>10. outbox \in Seq(Items) /\ Ordered(outbox) /\ overtaken \subseteq Calls
  BY DEF SessionTypeOK, IdsInv
<1> DEFINE item == With(new, "TRANSMITTED")
<1>11. /\ item \in Items /\ item.call = Call /\ item.type = ty /\ item.qos = 0
       /\ item.pending = "TRANSMITTED"
  BY <1>8, WithGives
<1>12. KeptOrNot(item)
  <2>1. outbox' = outbox_set_pending(Append(outbox, new), new.call, "TRANSMITTED")
    BY <1>5, <1>8 DEF outbox_enqueue
  <2>2. new.type # "PUBLISH"
    BY <1>3, <1>6, <1>8
  <2>3. /\ outbox' \in Seq(Items) /\ Ordered(outbox') /\ ToSet(outbox') = ToSet(outbox) \cup {item}
    BY <1>8, <1>9, <1>10, <2>1, <2>2, SetNewGives
  <2>4. QED BY <2>3 DEF KeptOrNot, Kept
<1> HIDE DEF item
<1>13. PacketOf(item) = PacketOf(new)
  BY <1>8, <1>11 DEF PacketOf
<1>14. WrittenOrNot(item) /\ Marked(item)
  BY <1>3, <1>5, <1>6, <1>10, <1>11, <1>13 DEF WrittenOrNot, Marked, Write, WriteFails
<1>15. Made(checked, item) /\ Connection
  BY <1>3, <1>4, <1>5, <1>6, <1>11 DEF Made, Connection
<1>16. QED BY <1>12, <1>14, <1>15

CallStep(operation, item) ==
    /\ operation \in Operations /\ Called(operation) /\ Made(operation, item)
    /\ KeptOrNot(item) /\ WrittenOrNot(item) /\ Marked(item) /\ Connection
    /\ checked' \in {checked, NotCalled} /\ (Returns("id") \/ Returns("error"))
    /\ UNCHANGED <<events, data, toClient, brokerVars, breaks, session>>

AppCalls == (\E operation \in Operations : Publish(operation) \/ Enqueue(operation)) \/ Subscribe

LEMMA CallGives ==
    ASSUME SessionTypeOK, ConnInv, IdsInv, AppCalls
    PROVE  \E operation, item : CallStep(operation, item)
<1>1. ASSUME NEW operation \in Operations, Publish(operation) PROVE \E item : CallStep(operation, item)
  <2>1. PICK item : /\ Made(operation, item) /\ KeptOrNot(item)
                    /\ WrittenOrNot(item) /\ Marked(item) /\ Connection
    BY <1>1, PublishCallGives
  <2>2. /\ Called(operation) /\ checked' = checked
        /\ UNCHANGED <<events, data, toClient, brokerVars, breaks, session>>
    BY <1>1 DEF Publish
  <2>3. Returns("id") \/ Returns("error")
    BY <1>1, Zenon DEF Publish
  <2>4. QED BY <2>1, <2>2, <2>3 DEF CallStep
<1>2. ASSUME NEW operation \in Operations, Enqueue(operation) PROVE \E item : CallStep(operation, item)
  <2>1. PICK item : /\ Made(operation, item) /\ KeptOrNot(item)
                    /\ WrittenOrNot(item) /\ Marked(item) /\ Connection
    BY <1>2, EnqueueCallGives
  <2>2. /\ Called(operation) /\ checked' = checked
        /\ UNCHANGED <<events, data, toClient, brokerVars, breaks, session>>
    BY <1>2 DEF Enqueue
  <2>3. Returns("id") \/ Returns("error")
    BY <1>2, Zenon DEF Enqueue
  <2>4. QED BY <2>1, <2>2, <2>3 DEF CallStep
<1>3. ASSUME Subscribe PROVE \E item : CallStep(checked, item)
  <2>1. PICK item : /\ Made(checked, item) /\ KeptOrNot(item)
                    /\ WrittenOrNot(item) /\ Marked(item) /\ Connection
    BY <1>3, SubscribeCallGives
  <2>2. /\ Called(checked) /\ checked' = NotCalled /\ (Returns("id") \/ Returns("error"))
        /\ UNCHANGED <<events, data, toClient, brokerVars, breaks, session>>
    BY <1>3 DEF Subscribe
  <2>3. checked \in Operations
    BY <1>3 DEF Subscribe, SessionTypeOK
  <2>4. QED BY <2>1, <2>2, <2>3 DEF CallStep
<1>4. QED BY <1>1, <1>2, <1>3 DEF AppCalls

LEMMA CallWrites ==
    ASSUME SessionTypeOK, ConnInv, NEW operation, NEW item, CallStep(operation, item)
    PROVE  /\ item \in Items /\ PacketOf(item) \in Packets /\ PacketOf(item).type = item.type
           /\ PacketOf(item).id = Call /\ PacketOf(item).qos = item.qos
           /\ toBroker' \in Seq(Packets) /\ Sent \subseteq Sent' /\ Sent' \subseteq Sent \cup {PacketOf(item)}
           /\ toBroker' # toBroker =>
                  conn = "up" /\ conn' = "up" /\ toBroker' = toBroker \o <<PacketOf(item)>>
           /\ conn' # "up" => toBroker' = <<>>
<1>1. item \in Items /\ item.call = Call
  BY DEF CallStep, Made
<1>2. PICK p : p = PacketOf(item)
  OBVIOUS
<1>3. p \in Packets /\ p.type = item.type /\ p.id = Call /\ p.qos = item.qos
  BY <1>1, <1>2, PacketOfGives
<1>4. /\ toBroker' = toBroker \/ (conn = "up" /\ toBroker' = toBroker \o <<p>>)
      /\ conn = "up" => conn' = "up"
  BY <1>2 DEF CallStep, WrittenOrNot, Connection
<1>5. toBroker \o <<p>> \in Seq(Packets) /\ ToSet(toBroker \o <<p>>) = Sent \cup {p}
  <2>1. PICK r : r = <<p>>
    OBVIOUS
  <2>2. r \in Seq(Packets) /\ ToSet(r) = {p}
    BY <1>3, <2>1, OneGives
  <2>3. toBroker \o r \in Seq(Packets) /\ ToSet(toBroker \o r) = ToSet(toBroker) \cup ToSet(r)
    BY <2>2, ConcatGives DEF SessionTypeOK
  <2>4. QED BY <2>1, <2>2, <2>3 DEF Sent
<1>6. Sent' = ToSet(toBroker')
  BY DEF Sent
<1>7. QED BY <1>1, <1>2, <1>3, <1>4, <1>5, <1>6 DEF SessionTypeOK, ConnInv, Sent

LEMMA CallBase ==
    ASSUME SessionTypeOK, ConnInv, IdsInv, NEW operation, NEW item, CallStep(operation, item)
    PROVE  SessionTypeOK' /\ ConnInv' /\ IdsInv'
<1>1. /\ Call \in Calls /\ Call \notin DOMAIN calls
      /\ calls' \in Seq(Operations) /\ Len(calls') <= MAX_CALLS
      /\ DOMAIN calls' = DOMAIN calls \cup {Call} /\ calls'[Call] = operation
      /\ \A c \in DOMAIN calls : calls'[c] = calls[c]
      /\ \A qos : Published(qos) \subseteq Published(qos)'
  BY CalledGives DEF CallStep, SessionTypeOK
<1>2. /\ item \in Items /\ PacketOf(item) \in Packets /\ PacketOf(item).type = item.type
      /\ PacketOf(item).id = Call /\ PacketOf(item).qos = item.qos
      /\ toBroker' \in Seq(Packets) /\ Sent' \subseteq Sent \cup {PacketOf(item)}
      /\ conn' # "up" => toBroker' = <<>>
  BY CallWrites
<1>3. /\ outbox' \in Seq(Items) /\ Ordered(outbox') /\ Kept' \subseteq Kept \cup {item}
      /\ overtaken' \subseteq Calls
  BY DEF CallStep, KeptOrNot, Marked
<1>4. UNCHANGED <<events, data, toClient, stored, arrived, delivered, granted, sending, breaks, session>>
  BY DEF CallStep, brokerVars
<1>5. SessionTypeOK'
  <2>1. state' \in {"INIT", "CONNECTED"} /\ conn' \in {"up", "broken", "closed"}
    BY DEF CallStep, Connection, Abort, SessionTypeOK
  <2>2. result' \in [Calls -> {"none", "id", "error"}]
    BY DEF CallStep, Returns, SessionTypeOK
  <2>3. checked' \in {op \in Operations : op.op \in Subscriptions} \cup {NotCalled}
    BY DEF CallStep, SessionTypeOK
  <2>4. QED BY <1>1, <1>2, <1>3, <1>4, <2>1, <2>2, <2>3 DEF SessionTypeOK
<1>6. ConnInv'
  BY <1>2 DEF CallStep, Connection, Abort, ConnInv
<1>7. IdsInv'
  <2>1. ASSUME NEW type, NEW id, NEW qos, OfCall(type, id, qos) PROVE OfCall(type, id, qos)'
    BY <1>1, <2>1 DEF OfCall
  <2>2. ASSUME NEW x \in Kept'
        PROVE  /\ OfCall(x.type, x.call, x.qos)'
               /\ x.type # "PUBLISH" => x.pending = "TRANSMITTED"
               /\ x.pending = "ACKNOWLEDGED" => x.qos = 2
    <3>1. CASE x \in Kept
      BY <2>1, <3>1 DEF IdsInv
    <3>2. CASE x = item
      BY <1>1, <3>2 DEF CallStep, Made, OfCall
    <3>3. QED BY <1>3, <3>1, <3>2
  <2>3. ASSUME NEW p \in Sent'
        PROVE  /\ p.type \in Initiators => OfCall(p.type, p.id, p.qos)'
               /\ p.type = "PUBREL" => p.id \in Published(2)'
               /\ p.type \in {"PUBACK", "PUBREC", "PUBCOMP"} => p.id \in Incoming
               /\ p.type \notin {"SUBACK", "UNSUBACK"}
    <3>1. CASE p \in Sent
      BY <1>1, <2>1, <3>1 DEF IdsInv
    <3>2. CASE p = PacketOf(item)
      <4>1. p.type = item.type /\ p.id = Call /\ p.qos = item.qos /\ item.type \in Initiators
        BY <1>2, <3>2 DEF Items
      <4>2. QED BY <1>1, <4>1 DEF CallStep, Made, OfCall, Initiators
    <3>3. QED BY <1>2, <3>1, <3>2
  <2>4. \A p \in Coming' :
           /\ p.type = "PUBACK" => p.id \in Published(1)'
           /\ p.type \in {"PUBREC", "PUBCOMP"} => p.id \in Published(2)'
           /\ p.type \in {"PUBLISH", "PUBREL"} => p.id \in Incoming
           /\ p.type \in {"SUBACK", "UNSUBACK"} => p.id \in DOMAIN calls'
           /\ p.type \notin {"SUBSCRIBE", "UNSUBSCRIBE"}
    BY <1>1, <1>4 DEF IdsInv, Coming
  <2>5. /\ ToSet(arrived') \subseteq DOMAIN calls'
        /\ \A c \in Calls \ DOMAIN calls' : events'[c] = <<>> /\ delivered'[c] = 0 /\ c \notin stored'
    BY <1>1, <1>4 DEF IdsInv
  <2>6. QED BY <1>3, <2>2, <2>3, <2>4, <2>5 DEF IdsInv
<1>8. QED BY <1>5, <1>6, <1>7

LEMMA OneMore ==
    ASSUME NEW s \in Seq(Packets), NEW p \in Packets
    PROVE  /\ DOMAIN s = 1 .. Len(s) /\ Len(s) \in Nat
           /\ DOMAIN (s \o <<p>>) = 1 .. Len(s) + 1
           /\ \A k \in DOMAIN s : (s \o <<p>>)[k] = s[k]
           /\ (s \o <<p>>)[Len(s) + 1] = p
<1>1. PICK r : r = <<p>>
  OBVIOUS
<1>2. r \in Seq(Packets) /\ r[1] = p /\ Len(r) = 1 /\ 1 \in 1 .. Len(r)
  BY <1>1, OneGives
<1>3. /\ Len(s) \in Nat /\ DOMAIN s = 1 .. Len(s) /\ DOMAIN (s \o r) = 1 .. Len(s) + Len(r)
      /\ \A k \in 1 .. Len(s) : (s \o r)[k] = s[k]
      /\ \A k \in 1 .. Len(r) : (s \o r)[Len(s) + k] = r[k]
  BY <1>2, ConcatGives
<1>4. QED BY <1>1, <1>2, <1>3

LEMMA CallRest ==
    ASSUME SessionInv, NEW operation, NEW item, CallStep(operation, item)
    PROVE  AnswersTrue' /\ GivenFirst' /\ EventsInv' /\ AtLeastOnce' /\ EventsTrue' /\ NeverTwice'
<1>1. /\ Call \in Calls /\ Call \notin DOMAIN calls
      /\ DOMAIN calls' = DOMAIN calls \cup {Call} /\ calls'[Call] = operation
      /\ \A c \in DOMAIN calls : calls'[c] = calls[c]
      /\ \A qos : /\ Published(qos) \subseteq Published(qos)'
                  /\ Published(qos)' \subseteq Published(qos) \cup {Call}
                  /\ Call \in Published(qos)' <=> operation.op \in Messages /\ operation.qos = qos
  BY CalledGives DEF CallStep, SessionInv, SessionTypeOK
<1>2. /\ item \in Items /\ PacketOf(item).type = item.type /\ item.type \in Initiators
      /\ item.call = Call /\ Sent' \subseteq Sent \cup {PacketOf(item)}
  BY CallWrites DEF SessionInv, CallStep, Made, Items
<1>3. Kept' = Kept \cup {item} \/ (Kept' = Kept /\ item.type = "PUBLISH" /\ item.qos = 0)
  BY DEF CallStep, KeptOrNot
<1>4. UNCHANGED <<events, data, toClient, stored, arrived, delivered, granted, sending, breaks, session>>
  BY DEF CallStep, brokerVars
<1>5. /\ item.pending # "ACKNOWLEDGED"
      /\ operation.op \in Messages => item.type = "PUBLISH"
      /\ item.type = "PUBLISH" => operation.qos = item.qos
  BY <1>2 DEF CallStep, Made, Messages, Initiators
<1>6. events[Call] = <<>> /\ delivered[Call] = 0
  BY <1>1 DEF SessionInv, IdsInv
<1>7. Coming' = Coming /\ \A c : Held(c)' <=> Held(c)
  BY <1>4 DEF Coming, Held
<1>8. AnswersTrue'
  BY <1>2, <1>3, <1>4, <1>5, <1>7 DEF SessionInv, AnswersTrue, Initiators
<1>9. GivenFirst'
  BY <1>2, <1>4, <1>7 DEF SessionInv, GivenFirst, Initiators
<1>10. EventsInv'
  BY <1>2, <1>3, <1>4, <1>6 DEF SessionInv, EventsInv
<1>11. AtLeastOnce'
  <2>1. InOutbox = {x.call : x \in Kept} /\ InOutbox' = {x.call : x \in Kept'}
    BY DEF InOutbox, Kept, ToSet
  <2>2. InOutbox \subseteq InOutbox' /\ (Kept' # Kept => Call \in InOutbox')
    BY <1>2, <1>3, <2>1
  <2>3. ASSUME NEW qos \in {1, 2}, NEW c \in Published(qos)', qos = 2 => ~ session.clean
        PROVE  c \in InOutbox' \/ delivered[c] > 0
    <3>1. CASE c \in Published(qos)
      BY <2>2, <2>3, <3>1 DEF SessionInv, AtLeastOnce
    <3>2. CASE c = Call
      BY <1>1, <1>3, <1>5, <2>1, <2>2, <2>3, <3>2, <1>2
    <3>3. QED BY <1>1, <2>3, <3>1, <3>2
  <2>4. \A c \in Published(1)' : c \in InOutbox' \/ delivered[c] > 0
    BY <2>3
  <2>5. ~ session.clean => \A c \in Published(2)' : c \in InOutbox' \/ delivered[c] > 0
    BY <2>3
  <2>6. ~ session.clean => \A m \in Incoming : sending[m] = "done" => data[m] > 0
    BY DEF SessionInv, AtLeastOnce
  <2>7. QED BY <1>4, <2>4, <2>5, <2>6 DEF AtLeastOnce
<1>12. EventsTrue'
  <2>1. ASSUME NEW c \in DOMAIN calls'
        PROVE  /\ Len(events[c]) <= 1
               /\ Contains(events[c], "PUBLISHED") =>
                      c \in Published(1)' \cup Published(2)' /\ (session.clean \/ delivered[c] > 0)
               /\ Contains(events[c], "SUBSCRIBED") => calls'[c].op = "subscribe" /\ c \in granted
               /\ Contains(events[c], "UNSUBSCRIBED") => calls'[c].op = "unsubscribe"
    <3>1. CASE c \in DOMAIN calls
      BY <1>1, <3>1 DEF SessionInv, EventsTrue
    <3>2. CASE c = Call
      <4>1. Len(events[c]) = 0 /\ \A e : ~ Contains(events[c], e)
        BY <1>6, <3>2 DEF Contains
      <4>2. QED BY <4>1
    <3>3. QED BY <1>1, <2>1, <3>1, <3>2
  <2>2. QED BY <1>4, <2>1 DEF EventsTrue
<1>13. NeverTwice'
  <2>1. \A c \in Published(2)' : delivered[c] <= 1
    BY <1>1, <1>6 DEF SessionInv, NeverTwice
  <2>2. QED BY <1>4, <2>1 DEF NeverTwice
<1>14. QED BY <1>8, <1>9, <1>10, <1>11, <1>12, <1>13

LEMMA CallReleased ==
    ASSUME SessionInv, NEW operation, NEW item, CallStep(operation, item)
    PROVE  ReleasedLast'
<1>1. /\ Call \in Calls /\ Call \notin DOMAIN calls
      /\ Published(2) \subseteq DOMAIN calls /\ Published(2)' \subseteq Published(2) \cup {Call}
  BY CalledGives DEF CallStep, SessionInv, SessionTypeOK, Published
<1>2. PICK p : p = PacketOf(item)
  OBVIOUS
<1>3. /\ p \in Packets /\ p.type \in Initiators /\ p.id = Call
      /\ Sent \subseteq Sent' /\ Sent' \subseteq Sent \cup {p}
      /\ toBroker' = toBroker \/ toBroker' = toBroker \o <<p>>
  BY <1>2, CallWrites DEF SessionInv, Items
<1>4. Kept' \subseteq Kept \cup {item} /\ item.call = Call
  BY DEF CallStep, KeptOrNot, Made
<1>5. delivered' = delivered /\ stored' = stored /\ delivered[Call] = 0
  BY <1>1 DEF CallStep, brokerVars, SessionInv, IdsInv
<1>6. ASSUME NEW q \in Sent, q.type \in {"PUBREL", "PUBLISH"} PROVE q.id \in DOMAIN calls
  BY <1>1, <1>6 DEF SessionInv, IdsInv, OfCall, Initiators
<1>7. ASSUME NEW k \in DOMAIN toBroker', NEW l \in DOMAIN toBroker',
             toBroker'[k].type = "PUBREL", toBroker'[l].type = "PUBLISH", k < l
      PROVE  toBroker'[k].id # toBroker'[l].id
  <2>1. CASE toBroker' = toBroker
    BY <1>7, <2>1 DEF SessionInv, ReleasedLast
  <2>2. CASE toBroker' = toBroker \o <<p>>
    <3>1. /\ DOMAIN toBroker = 1 .. Len(toBroker) /\ Len(toBroker) \in Nat
          /\ DOMAIN toBroker' = 1 .. Len(toBroker) + 1
          /\ \A n \in DOMAIN toBroker : toBroker'[n] = toBroker[n]
          /\ toBroker'[Len(toBroker) + 1] = p
      BY <1>3, <2>2, OneMore DEF SessionInv, SessionTypeOK
    <3>2. k \in DOMAIN toBroker /\ (l \in DOMAIN toBroker \/ l = Len(toBroker) + 1)
      BY <1>7, <3>1
    <3>3. toBroker[k] \in Sent
      BY <3>2 DEF Sent, ToSet
    <3>4. QED BY <1>1, <1>3, <1>6, <1>7, <3>1, <3>2, <3>3 DEF SessionInv, ReleasedLast
  <2>3. QED BY <1>3, <2>1, <2>2
<1>8. ASSUME NEW c \in Published(2)', Unanswered(c)'
      PROVE  delivered[c] = 0 /\ \A q \in Sent' : q.type = "PUBREL" => q.id # c
  <2>1. CASE c = Call
    BY <1>1, <1>3, <1>5, <1>6, <2>1 DEF Initiators
  <2>2. CASE c # Call /\ c \in Published(2)
    <3>1. Unanswered(c)
      BY <1>4, <1>8, <2>2 DEF Unanswered
    <3>2. QED BY <1>3, <2>2, <3>1 DEF SessionInv, ReleasedLast, Initiators
  <2>3. QED BY <1>1, <1>8, <2>1, <2>2
<1>9. ASSUME NEW c \in Published(2)', delivered[c] > 0
      PROVE  c \notin stored /\ \A q \in Sent' : q.type = "PUBLISH" => q.id # c
  <2>1. c # Call /\ c \in Published(2)
    BY <1>1, <1>5, <1>9
  <2>2. QED BY <1>3, <1>9, <2>1 DEF SessionInv, ReleasedLast
<1>10. QED BY <1>5, <1>7, <1>8, <1>9 DEF ReleasedLast

----------------------------------------------------------------------------
(* Steps that lose packets, and nothing else *)

QuietStep ==
    /\ UNCHANGED <<outbox, calls, result, events, data, brokerVars, overtaken, session>>
    /\ state' \in {"INIT", "CONNECTED"} /\ conn' \in {"up", "broken", "closed"} /\ ConnInv'
    /\ checked' \in {operation \in Operations : operation.op \in Subscriptions} \cup {NotCalled}
    /\ breaks' \in Nat
    /\ toBroker' \in {toBroker, <<>>} /\ toClient' \in Seq(Packets) /\ Coming' \subseteq Coming
    /\ conn' = "up" => conn = "up" /\ toBroker' = toBroker

LEMMA QuietSteps ==
    ASSUME SessionTypeOK, ConnInv
    PROVE  /\ UNCHANGED sessionVars => QuietStep
           /\ \A operation \in Operations : CheckState(operation) => QuietStep
           /\ ReceiveFails \/ Break => QuietStep
<1>1. ASSUME UNCHANGED sessionVars PROVE QuietStep
  BY <1>1 DEF sessionVars, clientVars, brokerVars, QuietStep, SessionTypeOK, ConnInv, Coming
<1>2. ASSUME NEW operation \in Operations, CheckState(operation) PROVE QuietStep
  BY <1>2 DEF CheckState, clientVars, brokerVars, QuietStep, SessionTypeOK, ConnInv, Coming,
    Subscriptions
<1>3. ASSUME ReceiveFails PROVE QuietStep
  BY <1>3 DEF ReceiveFails, Abort, brokerVars, QuietStep, SessionTypeOK, ConnInv, Coming
<1>4. ASSUME Break PROVE QuietStep
  <2>1. PICK n \in 0 .. Len(toClient) : toClient' = SubSeq(toClient, 1, n)
    BY <1>4 DEF Break
  <2>2. /\ toClient' \in Seq(Packets) /\ DOMAIN toClient' = 1 .. n
        /\ \A k \in 1 .. n : toClient'[k] = toClient[k] /\ k \in DOMAIN toClient
    BY <2>1 DEF SessionTypeOK
  <2>3. Coming' \subseteq Coming
    BY <2>2 DEF Coming, ToSet
  <2>4. QED
    BY <1>4, <2>2, <2>3 DEF Break, brokerVars, QuietStep, SessionTypeOK, ConnInv
<1>5. QED BY <1>1, <1>2, <1>3, <1>4

LEMMA QuietKeeps ==
    ASSUME SessionInv, QuietStep
    PROVE  SessionInv'
<1>1. /\ toBroker' \in Seq(Packets) /\ Sent' \subseteq Sent /\ Coming' \subseteq Coming
      /\ UNCHANGED <<outbox, calls, result, events, data, stored, arrived, delivered, granted,
                     sending, overtaken, session>>
  <2>1. toBroker \in Seq(Packets) /\ toBroker' \in {toBroker, <<>>}
    BY DEF QuietStep, SessionInv, SessionTypeOK
  <2>2. <<>> \in Seq(Packets) /\ ToSet(<<>>) = {}
    BY DEF ToSet
  <2>3. toBroker' \in Seq(Packets) /\ ToSet(toBroker') \subseteq ToSet(toBroker)
    BY <2>1, <2>2
  <2>4. QED BY <2>3 DEF QuietStep, brokerVars, Sent
<1>2. Kept' = Kept /\ Published(1)' = Published(1) /\ Published(2)' = Published(2)
      /\ InOutbox' = InOutbox /\ Ordered(outbox)'
  BY <1>1 DEF Kept, Published, InOutbox, SessionInv, IdsInv, Ordered
<1>3. /\ \A type, id, qos : OfCall(type, id, qos)' <=> OfCall(type, id, qos)
      /\ \A c : (Held(c)' <=> Held(c)) /\ (Unanswered(c)' <=> Unanswered(c))
  BY <1>1, <1>2 DEF OfCall, Held, Unanswered
<1>4. SessionTypeOK' /\ ConnInv'
  BY <1>1 DEF QuietStep, SessionInv, SessionTypeOK
<1>5. IdsInv'
  <2>1. /\ \A item \in Kept' : /\ OfCall(item.type, item.call, item.qos)'
                               /\ item.type # "PUBLISH" => item.pending = "TRANSMITTED"
                               /\ item.pending = "ACKNOWLEDGED" => item.qos = 2
        /\ \A p \in Sent' :
               /\ p.type \in Initiators => OfCall(p.type, p.id, p.qos)'
               /\ p.type = "PUBREL" => p.id \in Published(2)'
               /\ p.type \in {"PUBACK", "PUBREC", "PUBCOMP"} => p.id \in Incoming
               /\ p.type \notin {"SUBACK", "UNSUBACK"}
    BY <1>1, <1>2, <1>3 DEF SessionInv, IdsInv
  <2>2. \A p \in Coming' :
           /\ p.type = "PUBACK" => p.id \in Published(1)'
           /\ p.type \in {"PUBREC", "PUBCOMP"} => p.id \in Published(2)'
           /\ p.type \in {"PUBLISH", "PUBREL"} => p.id \in Incoming
           /\ p.type \in {"SUBACK", "UNSUBACK"} => p.id \in DOMAIN calls'
           /\ p.type \notin {"SUBSCRIBE", "UNSUBSCRIBE"}
    BY <1>1, <1>2 DEF SessionInv, IdsInv
  <2>3. /\ ToSet(arrived') \subseteq DOMAIN calls'
        /\ \A c \in Calls \ DOMAIN calls' : events'[c] = <<>> /\ delivered'[c] = 0 /\ c \notin stored'
    BY <1>1 DEF SessionInv, IdsInv
  <2>4. QED BY <1>2, <2>1, <2>2, <2>3 DEF IdsInv
<1>6. AnswersTrue'
  BY <1>1, <1>2, <1>3 DEF SessionInv, AnswersTrue
<1>7. GivenFirst' /\ EventsInv'
  BY <1>1, <1>2 DEF SessionInv, GivenFirst, EventsInv
<1>8. AtLeastOnce' /\ EventsTrue' /\ NeverTwice'
  BY <1>1, <1>2 DEF SessionInv, AtLeastOnce, EventsTrue, NeverTwice
<1>9. ReleasedLast'
  <2>1. ASSUME NEW k \in DOMAIN toBroker', NEW l \in DOMAIN toBroker',
             toBroker'[k].type = "PUBREL", toBroker'[l].type = "PUBLISH", k < l
        PROVE  toBroker'[k].id # toBroker'[l].id
    <3>1. toBroker' = toBroker
      BY <2>1 DEF QuietStep
    <3>2. QED BY <2>1, <3>1 DEF SessionInv, ReleasedLast
  <2>2. \A c \in Published(2)' :
           /\ Unanswered(c)' => delivered'[c] = 0 /\ \A p \in Sent' : p.type = "PUBREL" => p.id # c
           /\ delivered'[c] > 0 =>
                  c \notin stored' /\ \A p \in Sent' : p.type = "PUBLISH" => p.id # c
    BY <1>1, <1>2, <1>3 DEF SessionInv, ReleasedLast
  <2>3. QED BY <2>1, <2>2 DEF ReleasedLast
<1>10. QED BY <1>4, <1>5, <1>6, <1>7, <1>8, <1>9 DEF SessionInv

----------------------------------------------------------------------------
(* A connection begins *)

AgainFrom(m) == CASE sending[m] = "sent" -> <<[Packet("PUBLISH", m) EXCEPT !.qos = session.qos]>>
                  [] sending[m] = "received" -> <<Packet("PUBREL", m)>>
                  [] OTHER -> <<>>

Resumes(p) ==
    p \in Packets /\ p.id \in Incoming
        /\ (p.type = "PUBLISH" \/ (p.type = "PUBREL" /\ sending[p.id] = "received"))

LEMMA AgainGives ==
    ASSUME SessionTypeOK, NEW m \in Incoming
    PROVE  AgainFrom(m) \in Seq(Packets) /\ \A p \in ToSet(AgainFrom(m)) : Resumes(p)
<1>1. \A s \in Sessions : s.qos \in 1 .. 2
  BY Bounds
<1>2. CASE sending[m] = "sent"
  <2>1. PICK packet, qos : packet = Packet("PUBLISH", m) /\ qos = session.qos
    OBVIOUS
  <2>2. packet \in Packets /\ packet.type = "PUBLISH" /\ packet.id = m /\ qos \in 0 .. 2
    BY <1>1, <2>1, PacketGives DEF Types, Initiators, SessionTypeOK
  <2>3. PICK p : p = [packet EXCEPT !.qos = qos]
    OBVIOUS
  <2>4. p \in Packets /\ p.type = "PUBLISH" /\ p.id = m
    BY <2>2, <2>3 DEF Packets
  <2>5. AgainFrom(m) = <<p>>
    BY <1>2, <2>1, <2>3 DEF AgainFrom
  <2>6. QED BY <2>4, <2>5, OneGives DEF Resumes
<1>3. CASE sending[m] = "received"
  <2>1. PICK p : p = Packet("PUBREL", m)
    OBVIOUS
  <2>2. p \in Packets /\ p.type = "PUBREL" /\ p.id = m
    BY <2>1, PacketGives DEF Types, Handshakes
  <2>3. AgainFrom(m) = <<p>>
    BY <1>3, <2>1 DEF AgainFrom
  <2>4. QED BY <1>3, <2>2, <2>3, OneGives DEF Resumes
<1>4. CASE sending[m] \notin {"sent", "received"}
  <2>1. AgainFrom(m) = <<>>
    BY <1>4 DEF AgainFrom
  <2>2. <<>> \in Seq(Packets) /\ ToSet(<<>>) = {}
    BY DEF ToSet
  <2>3. QED BY <2>1, <2>2
<1>5. QED BY <1>2, <1>3, <1>4

\* What a broker begins a resumed session with.
LEMMA UnfinishedGives ==
    ASSUME SessionTypeOK
    PROVE  Unfinished \in Seq(Packets) /\ \A p \in ToSet(Unfinished) : Resumes(p)
<1> DEFINE Body(g, n) == IF n = 0 THEN <<>> ELSE g[n - 1] \o AgainFrom(n)
           Defines(g, n) == g = [m \in 0 .. n |-> Body(g, m)]
           Loop == CHOOSE g : Defines(g, MAX_INCOMING)
<1>1. MAX_INCOMING \in Nat
  BY Bounds
<1>2. \E g : Defines(g, MAX_INCOMING)
  <2> DEFINE S == {n \in Nat : \E g : Defines(g, n)}
  <2>1. 0 \in S
    <3> DEFINE g == [m \in 0 .. 0 |-> <<>>]
    <3>1. Defines(g, 0)
      OBVIOUS
    <3>2. QED BY <3>1
  <2>2. ASSUME NEW n \in Nat, n \in S PROVE n + 1 \in S
    <3>1. PICK g : Defines(g, n)
      BY <2>2
    <3> DEFINE h == [m \in 0 .. n + 1 |-> IF m <= n THEN g[m] ELSE Body(g, n + 1)]
    <3>2. \A m \in 0 .. n : h[m] = g[m] /\ g[m] = Body(g, m)
      <4> HIDE DEF Body
      <4>1. \A m \in 0 .. n : g[m] = Body(g, m)
        BY <3>1, Zenon
      <4>2. \A m \in 0 .. n : m \in 0 .. n + 1 /\ m <= n
        BY <2>2
      <4>3. QED BY <4>1, <4>2
    <3>3. h[n + 1] = Body(g, n + 1)
      BY <2>2
    <3> HIDE DEF h
    <3>4. \A m \in 0 .. n + 1 : h[m] = Body(h, m)
      <4> SUFFICES ASSUME NEW m \in 0 .. n + 1 PROVE h[m] = Body(h, m)
        OBVIOUS
      <4>1. CASE m = 0
        BY <2>2, <3>2, <4>1
      <4>2. CASE m # 0
        <5>1. m - 1 \in 0 .. n /\ h[m - 1] = g[m - 1]
          BY <3>2, <4>2
        <5>2. Body(h, m) = Body(g, m)
          BY <4>2, <5>1
        <5>3. QED BY <3>2, <3>3, <5>2
      <4>3. QED BY <4>1, <4>2
    <3>5. Defines(h, n + 1)
      BY <3>4 DEF h
    <3>6. QED
      <4> HIDE DEF Defines
      <4> QED BY <2>2, <3>5
  <2>3. Nat \subseteq S
    <3> HIDE DEF S
    <3> QED BY <2>1, <2>2, NatSetInduction
  <2>4. QED BY <1>1, <2>3
<1>3. Defines(Loop, MAX_INCOMING)
  <2> HIDE DEF Defines
  <2> QED BY <1>2
<1>4. Unfinished = Loop[MAX_INCOMING]
  BY DEF Unfinished, AgainFrom
<1> HIDE DEF Loop
<1>5. Loop[0] = <<>> /\ \A n \in 1 .. MAX_INCOMING : Loop[n] = Loop[n - 1] \o AgainFrom(n)
  <2>1. \A n \in 0 .. MAX_INCOMING : Loop[n] = Body(Loop, n)
    <3> HIDE DEF Body
    <3> QED BY <1>3, Zenon
  <2>2. 0 \in 0 .. MAX_INCOMING /\ \A n \in 1 .. MAX_INCOMING : n \in 0 .. MAX_INCOMING /\ n # 0
    BY <1>1
  <2>3. QED BY <2>1, <2>2
<1> DEFINE T == {n \in Nat : n <= MAX_INCOMING =>
                     Loop[n] \in Seq(Packets) /\ \A p \in ToSet(Loop[n]) : Resumes(p)}
<1>6. 0 \in T
  <2>1. <<>> \in Seq(Packets) /\ ToSet(<<>>) = {}
    BY DEF ToSet
  <2>2. QED BY <1>5, <2>1
<1>7. ASSUME NEW n \in Nat, n \in T PROVE n + 1 \in T
  <2> SUFFICES ASSUME n + 1 <= MAX_INCOMING
               PROVE  Loop[n + 1] \in Seq(Packets) /\ \A p \in ToSet(Loop[n + 1]) : Resumes(p)
    OBVIOUS
  <2>1. n + 1 \in Incoming /\ (n + 1) - 1 = n /\ n <= MAX_INCOMING /\ n + 1 \in 1 .. MAX_INCOMING
    BY <1>1 DEF Incoming
  <2>2. PICK l, a : l = Loop[n] /\ a = AgainFrom(n + 1)
    OBVIOUS
  <2>3. a \in Seq(Packets) /\ \A p \in ToSet(a) : Resumes(p)
    BY <2>1, <2>2, AgainGives
  <2>4. l \in Seq(Packets) /\ \A p \in ToSet(l) : Resumes(p)
    BY <1>7, <2>1, <2>2
  <2>5. Loop[n + 1] = l \o a
    BY <1>5, <2>1, <2>2
  <2>6. QED BY <2>3, <2>4, <2>5, ConcatGives
<1>8. Nat \subseteq T
  <2> HIDE DEF T
  <2> QED BY <1>6, <1>7, NatSetInduction
<1>9. QED BY <1>1, <1>4, <1>8

LEMMA ConnectKeeps ==
    ASSUME SessionInv, Connect
    PROVE  SessionInv'
<1>1. /\ state' = "CONNECTED" /\ conn' = "up" /\ toBroker' = <<>>
      /\ UNCHANGED <<outbox, calls, checked, result, events, data, arrived, delivered, granted,
                     breaks, session>>
      /\ overtaken' = overtaken \cup {outbox[i].call : i \in {j \in DOMAIN outbox :
                                                            outbox[j].pending # "QUEUED"}}
  BY DEF Connect
<1>2. \/ /\ session.clean /\ stored' = {} /\ toClient' = <<>>
         /\ sending' = [m \in Incoming |-> IF sending[m] = "new" THEN "new" ELSE "done"]
      \/ /\ ~ session.clean /\ toClient' = Unfinished /\ UNCHANGED <<stored, sending>>
  BY DEF Connect
<1>3. SessionTypeOK
  BY DEF SessionInv
<1>4. <<>> \in Seq(Packets) /\ ToSet(<<>>) = {} /\ DOMAIN <<>> = {}
  BY DEF ToSet
<1>5. /\ toClient' \in Seq(Packets) /\ \A p \in Coming' : Resumes(p)
      /\ toBroker' \in Seq(Packets) /\ Sent' = {} /\ DOMAIN toBroker' = {}
  <2>1. Coming' = ToSet(toClient') /\ Sent' = ToSet(toBroker')
    BY DEF Coming, Sent
  <2>2. QED BY <1>1, <1>2, <1>3, <1>4, <2>1, UnfinishedGives
<1>6. Kept' = Kept /\ InOutbox' = InOutbox /\ Ordered(outbox)'
  BY <1>1 DEF Kept, InOutbox, SessionInv, IdsInv, Ordered
<1>7. /\ \A type, id, qos : OfCall(type, id, qos)' <=> OfCall(type, id, qos)
      /\ \A qos : Published(qos)' = Published(qos)
      /\ \A c : Unanswered(c)' <=> Unanswered(c)
  BY <1>1, <1>6 DEF OfCall, Published, Unanswered
<1>8. stored' \subseteq stored /\ \A c : Held(c) => Held(c)'
  BY <1>1, <1>2 DEF Held
<1>9. /\ sending' \in [Incoming -> {"new", "sent", "received", "done"}]
      /\ \A m \in Incoming : sending'[m] = "received" => sending[m] = "received" /\ ~ session.clean
  <2>1. CASE sending' = [m \in Incoming |-> IF sending[m] = "new" THEN "new" ELSE "done"]
    BY <2>1
  <2>2. CASE ~ session.clean /\ sending' = sending
    BY <1>3, <2>2 DEF SessionTypeOK
  <2>3. QED BY <1>2, <2>1, <2>2
<1>10. SessionTypeOK'
  <2>1. overtaken' \subseteq Calls
    <3>1. \A i \in DOMAIN outbox : outbox[i] \in Items
      BY <1>3 DEF SessionTypeOK
    <3>2. QED BY <1>1, <1>3, <3>1 DEF SessionTypeOK, Items
  <2>2. QED BY <1>1, <1>3, <1>5, <1>8, <1>9, <2>1 DEF SessionTypeOK
<1>11. ConnInv'
  BY <1>1 DEF ConnInv
<1>12. IdsInv'
  <2>1. \A item \in Kept' : /\ OfCall(item.type, item.call, item.qos)'
                            /\ item.type # "PUBLISH" => item.pending = "TRANSMITTED"
                            /\ item.pending = "ACKNOWLEDGED" => item.qos = 2
    BY <1>6, <1>7 DEF SessionInv, IdsInv
  <2>2. \A p \in Coming' : p.type \in {"PUBLISH", "PUBREL"} /\ p.id \in Incoming
    BY <1>5 DEF Resumes
  <2>3. /\ ToSet(arrived') \subseteq DOMAIN calls'
        /\ \A c \in Calls \ DOMAIN calls' : events'[c] = <<>> /\ delivered'[c] = 0 /\ c \notin stored'
    BY <1>1, <1>8 DEF SessionInv, IdsInv
  <2>4. QED BY <1>5, <1>6, <2>1, <2>2, <2>3 DEF IdsInv
<1>13. AnswersTrue'
  <2>1. \A p \in Coming' : p.type \in {"PUBLISH", "PUBREL"}
    BY <1>5 DEF Resumes
  <2>2. QED BY <1>5, <1>6, <1>8, <2>1 DEF SessionInv, AnswersTrue
<1>14. GivenFirst'
  <2>1. \A p \in Coming' : p.type = "PUBREL" => p.id \in Incoming /\ sending[p.id] = "received"
    BY <1>5 DEF Resumes
  <2>2. QED BY <1>1, <1>5, <1>9, <2>1 DEF SessionInv, GivenFirst
<1>15. EventsInv' /\ EventsTrue' /\ NeverTwice'
  BY <1>1, <1>6, <1>7 DEF SessionInv, EventsInv, EventsTrue, NeverTwice
<1>16. AtLeastOnce'
  BY <1>1, <1>2, <1>6, <1>7 DEF SessionInv, AtLeastOnce
<1>17. ReleasedLast'
  BY <1>1, <1>5, <1>7, <1>8 DEF SessionInv, ReleasedLast
<1>18. QED
  BY <1>10, <1>11, <1>12, <1>13, <1>14, <1>15, <1>16, <1>17 DEF SessionInv

LEMMA BrokerPublishesKeeps ==
    ASSUME SessionInv, BrokerPublishes
    PROVE  SessionInv'
<1>1. UNCHANGED <<state, conn, outbox, result, events, data, calls, checked, toBroker, stored,
                  arrived, delivered, granted, overtaken, breaks, session>>
  BY DEF BrokerPublishes, clientVars
<1>2. SessionTypeOK
  BY DEF SessionInv
<1>3. PICK m \in Incoming :
          /\ sending[m] = "new" /\ sending' = [sending EXCEPT ![m] = "sent"]
          /\ toClient' = Append(toClient, [Packet("PUBLISH", m) EXCEPT !.qos = session.qos])
  BY DEF BrokerPublishes, Answer
<1>4. PICK packet, qos : packet = Packet("PUBLISH", m) /\ qos = session.qos
  OBVIOUS
<1>5. packet \in Packets /\ packet.type = "PUBLISH" /\ packet.id = m /\ qos \in 0 .. 2
  BY <1>2, <1>4, Bounds, PacketGives DEF Types, Initiators, SessionTypeOK
<1>6. PICK p : p = [packet EXCEPT !.qos = qos]
  OBVIOUS
<1>7. p \in Packets /\ p.type = "PUBLISH" /\ p.id = m
  BY <1>5, <1>6 DEF Packets
<1>8. toClient' \in Seq(Packets) /\ Coming' = Coming \cup {p}
  <2>1. toClient' = Append(toClient, p)
    BY <1>3, <1>4, <1>6
  <2>2. QED BY <1>2, <1>7, <2>1, AppendGives DEF SessionTypeOK, Coming
<1>9. /\ Kept' = Kept /\ InOutbox' = InOutbox /\ Ordered(outbox)' /\ Sent' = Sent
  BY <1>1 DEF Kept, InOutbox, SessionInv, IdsInv, Ordered, Sent
<1>10. /\ \A type, id, q : OfCall(type, id, q)' <=> OfCall(type, id, q)
       /\ \A q : Published(q)' = Published(q)
       /\ \A c : (Unanswered(c)' <=> Unanswered(c)) /\ (Held(c)' <=> Held(c))
  BY <1>1, <1>9 DEF OfCall, Published, Unanswered, Held
<1>11. /\ sending' \in [Incoming -> {"new", "sent", "received", "done"}]
       /\ \A n \in Incoming : sending'[n] \in {"received", "done"} => sending[n] = sending'[n]
  BY <1>2, <1>3 DEF SessionTypeOK
<1>12. SessionTypeOK' /\ ConnInv'
  BY <1>1, <1>2, <1>8, <1>11 DEF SessionTypeOK, SessionInv, ConnInv
<1>13. IdsInv'
  <2>1. /\ \A item \in Kept' : /\ OfCall(item.type, item.call, item.qos)'
                               /\ item.type # "PUBLISH" => item.pending = "TRANSMITTED"
                               /\ item.pending = "ACKNOWLEDGED" => item.qos = 2
        /\ \A q \in Sent' :
               /\ q.type \in Initiators => OfCall(q.type, q.id, q.qos)'
               /\ q.type = "PUBREL" => q.id \in Published(2)'
               /\ q.type \in {"PUBACK", "PUBREC", "PUBCOMP"} => q.id \in Incoming
               /\ q.type \notin {"SUBACK", "UNSUBACK"}
    BY <1>9, <1>10 DEF SessionInv, IdsInv
  <2>2. \A q \in Coming' :
           /\ q.type = "PUBACK" => q.id \in Published(1)'
           /\ q.type \in {"PUBREC", "PUBCOMP"} => q.id \in Published(2)'
           /\ q.type \in {"PUBLISH", "PUBREL"} => q.id \in Incoming
           /\ q.type \in {"SUBACK", "UNSUBACK"} => q.id \in DOMAIN calls'
           /\ q.type \notin {"SUBSCRIBE", "UNSUBSCRIBE"}
    BY <1>1, <1>7, <1>8, <1>10 DEF SessionInv, IdsInv
  <2>3. /\ ToSet(arrived') \subseteq DOMAIN calls'
        /\ \A c \in Calls \ DOMAIN calls' : events'[c] = <<>> /\ delivered'[c] = 0 /\ c \notin stored'
    BY <1>1 DEF SessionInv, IdsInv
  <2>4. QED BY <1>9, <2>1, <2>2, <2>3 DEF IdsInv
<1>14. AnswersTrue'
  BY <1>1, <1>7, <1>8, <1>9, <1>10 DEF SessionInv, AnswersTrue
<1>15. GivenFirst'
  BY <1>1, <1>7, <1>8, <1>9, <1>11 DEF SessionInv, GivenFirst
<1>16. EventsInv' /\ EventsTrue' /\ NeverTwice'
  BY <1>1, <1>9, <1>10 DEF SessionInv, EventsInv, EventsTrue, NeverTwice
<1>17. AtLeastOnce'
  BY <1>1, <1>9, <1>10, <1>11 DEF SessionInv, AtLeastOnce
<1>18. ReleasedLast'
  BY <1>1, <1>9, <1>10 DEF SessionInv, ReleasedLast
<1>19. QED
  BY <1>12, <1>13, <1>14, <1>15, <1>16, <1>17, <1>18 DEF SessionInv

----------------------------------------------------------------------------
(* Steps of the task on a connection *)

\* What becomes of an item that stays in the outbox.
Advanced(y, x) ==
    /\ y.call = x.call /\ y.type = x.type /\ y.qos = x.qos
    /\ \/ y.pending = x.pending \/ y.pending = "TRANSMITTED"
       \/ y.pending = "ACKNOWLEDGED" /\ x.type = "PUBLISH" /\ x.qos = 2 /\ Held(x.call)

\* What may be written.
Writable(p) ==
    /\ p.type \notin {"SUBACK", "UNSUBACK"}
    /\ p.type \in Initiators => OfCall(p.type, p.id, p.qos)
    /\ p.type = "PUBREL" => p.id \in Published(2) /\ Held(p.id)
    /\ p.type \in {"PUBACK", "PUBREC", "PUBCOMP"} => p.id \in Incoming /\ data'[p.id] > 0

\* An item that leaves is done with.
DoneWith(x) ==
    \/ x.call \notin Published(1) \cup Published(2)
    \/ delivered[x.call] > 0
    \/ session.clean /\ x.call \notin Published(1)

TaskFrame ==
    /\ UNCHANGED <<calls, stored, arrived, delivered, granted, sending, session>>
    /\ SessionTypeOK' /\ ConnInv' /\ Ordered(outbox)' /\ Coming' \subseteq Coming
    /\ \A m \in Incoming : data'[m] >= data[m]
    /\ \A c \in Calls \ DOMAIN calls : events'[c] = <<>>

LEMMA TaskKeeps ==
    ASSUME SessionInv, TaskFrame,
           \A y \in Kept' : \E x \in Kept : Advanced(y, x),
           \A x \in Kept : DoneWith(x) \/ \E y \in Kept' : y.call = x.call,
           \A p \in Sent' : p \in Sent \/ Writable(p)
    PROVE  /\ IdsInv' /\ AnswersTrue' /\ GivenFirst' /\ AtLeastOnce' /\ NeverTwice'
           /\ events' = events => EventsInv' /\ EventsTrue'
<1>1. /\ UNCHANGED <<calls, stored, arrived, delivered, granted, sending, session>>
      /\ Ordered(outbox)' /\ Coming' \subseteq Coming
      /\ \A c \in Calls \ DOMAIN calls : events'[c] = <<>>
      /\ data \in [Incoming -> Nat] /\ data' \in [Incoming -> Nat]
      /\ \A m \in Incoming : data'[m] >= data[m]
  BY DEF TaskFrame, SessionInv, SessionTypeOK
<1>2. \A m \in Incoming : data[m] > 0 => data'[m] > 0
  BY <1>1
<1>3. /\ \A type, id, qos : OfCall(type, id, qos)' <=> OfCall(type, id, qos)
      /\ \A qos : Published(qos)' = Published(qos)
      /\ \A c : Held(c)' <=> Held(c)
  BY <1>1 DEF OfCall, Published, Held
<1>4. IdsInv'
  <2>1. ASSUME NEW y \in Kept'
        PROVE  /\ OfCall(y.type, y.call, y.qos)'
               /\ y.type # "PUBLISH" => y.pending = "TRANSMITTED"
               /\ y.pending = "ACKNOWLEDGED" => y.qos = 2
    <3>1. PICK x \in Kept : Advanced(y, x)
      BY <2>1
    <3>2. /\ OfCall(x.type, x.call, x.qos) /\ x.type # "PUBLISH" => x.pending = "TRANSMITTED"
          /\ x.pending = "ACKNOWLEDGED" => x.qos = 2
      BY DEF SessionInv, IdsInv
    <3>3. OfCall(x.type, x.call, x.qos)
      BY DEF SessionInv, IdsInv
    <3>4. QED BY <1>3, <3>1, <3>2, <3>3 DEF Advanced
  <2>2. ASSUME NEW p \in Sent'
        PROVE  /\ p.type \in Initiators => OfCall(p.type, p.id, p.qos)'
               /\ p.type = "PUBREL" => p.id \in Published(2)'
               /\ p.type \in {"PUBACK", "PUBREC", "PUBCOMP"} => p.id \in Incoming
               /\ p.type \notin {"SUBACK", "UNSUBACK"}
    <3>1. CASE p \in Sent
      BY <1>3, <3>1 DEF SessionInv, IdsInv
    <3>2. CASE Writable(p)
      BY <1>3, <3>2 DEF Writable
    <3>3. QED BY <2>2, <3>1, <3>2
  <2>3. \A p \in Coming' :
           /\ p.type = "PUBACK" => p.id \in Published(1)'
           /\ p.type \in {"PUBREC", "PUBCOMP"} => p.id \in Published(2)'
           /\ p.type \in {"PUBLISH", "PUBREL"} => p.id \in Incoming
           /\ p.type \in {"SUBACK", "UNSUBACK"} => p.id \in DOMAIN calls'
           /\ p.type \notin {"SUBSCRIBE", "UNSUBSCRIBE"}
    BY <1>1, <1>3 DEF SessionInv, IdsInv
  <2>4. /\ ToSet(arrived') \subseteq DOMAIN calls'
        /\ \A c \in Calls \ DOMAIN calls' : events'[c] = <<>> /\ delivered'[c] = 0 /\ c \notin stored'
    BY <1>1 DEF SessionInv, IdsInv
  <2>5. QED BY <1>1, <2>1, <2>2, <2>3, <2>4 DEF IdsInv
<1>5. AnswersTrue'
  <2>1. ASSUME NEW y \in Kept', y.pending = "ACKNOWLEDGED" PROVE Held(y.call)'
    <3>1. PICK x \in Kept : Advanced(y, x)
      BY <2>1
    <3>2. QED BY <1>3, <2>1, <3>1 DEF Advanced, SessionInv, AnswersTrue
  <2>2. ASSUME NEW p \in Sent', p.type = "PUBREL" PROVE Held(p.id)'
    BY <1>3, <2>2 DEF SessionInv, AnswersTrue, Writable
  <2>3. \A p \in Coming' :
           /\ p.type = "PUBACK" => delivered'[p.id] > 0
           /\ p.type = "PUBREC" => Held(p.id)'
           /\ p.type = "PUBCOMP" => session'.clean \/ delivered'[p.id] > 0
           /\ p.type = "SUBACK" /\ p.ok => p.id \in granted'
    BY <1>1, <1>3 DEF SessionInv, AnswersTrue
  <2>4. QED BY <2>1, <2>2, <2>3 DEF AnswersTrue
<1>6. GivenFirst'
  <2>1. \A p \in Sent' : p.type \in {"PUBACK", "PUBREC", "PUBCOMP"} => data'[p.id] > 0
    BY <1>2 DEF SessionInv, IdsInv, GivenFirst, Writable
  <2>2. \A p \in Coming' : p.type = "PUBREL" => data'[p.id] > 0
    BY <1>1, <1>2 DEF SessionInv, IdsInv, GivenFirst
  <2>3. QED BY <1>1, <1>2, <2>1, <2>2 DEF SessionInv, GivenFirst
<1>7. AtLeastOnce'
  <2>1. InOutbox = {x.call : x \in Kept} /\ InOutbox' = {y.call : y \in Kept'}
    BY DEF InOutbox, Kept, ToSet
  <2>2. ASSUME NEW c \in Published(1) \cup (IF session.clean THEN {} ELSE Published(2))
        PROVE  c \in InOutbox' \/ delivered[c] > 0
    <3>1. CASE delivered[c] > 0
      BY <3>1
    <3>2. CASE ~ (delivered[c] > 0)
      <4>1. PICK x \in Kept : x.call = c
        BY <2>1, <2>2, <3>2 DEF SessionInv, AtLeastOnce
      <4>2. ~ DoneWith(x)
        BY <2>2, <3>2, <4>1 DEF DoneWith
      <4>3. QED BY <2>1, <4>1, <4>2
    <3>3. QED BY <3>1, <3>2
  <2>3. ~ session.clean => \A m \in Incoming : sending[m] = "done" => data'[m] > 0
    BY <1>2 DEF SessionInv, AtLeastOnce
  <2>4. QED BY <1>1, <1>3, <2>2, <2>3 DEF AtLeastOnce
<1>8. NeverTwice'
  BY <1>1, <1>3 DEF SessionInv, NeverTwice
<1>9. ASSUME events' = events PROVE EventsInv' /\ EventsTrue'
  <2>1. \A y \in Kept' : events[y.call] = <<>>
    BY DEF SessionInv, EventsInv, Advanced
  <2>2. QED BY <1>1, <1>3, <1>9, <2>1 DEF EventsInv, SessionInv, EventsTrue
<1>10. QED BY <1>4, <1>5, <1>6, <1>7, <1>8, <1>9

LEMMA Beyond ==
    ASSUME NEW n \in Nat, NEW m \in Nat, NEW l \in 1 .. n + m, l \notin 1 .. n
    PROVE  /\ l - n \in 1 .. m /\ n + (l - n) = l
           /\ \A k \in 1 .. n + m : k < l => k - n < l - n
OBVIOUS

LEMMA WritesReleased ==
    ASSUME SessionInv, NEW packets \in Seq(Packets), toBroker' \in {toBroker, toBroker \o packets},
           UNCHANGED <<calls, delivered, stored>>,
           \A c : Unanswered(c)' => Unanswered(c),
           \A k, l \in DOMAIN packets :
               packets[k].type = "PUBREL" /\ packets[l].type = "PUBLISH" /\ k < l =>
                   packets[k].id # packets[l].id,
           \A p \in ToSet(packets) : p.type = "PUBLISH" /\ p.id \in Published(2) => Unanswered(p.id),
           \A p \in ToSet(packets) : p.type = "PUBREL" => ~ Unanswered(p.id)'
    PROVE  ReleasedLast'
<1>1. Published(2)' = Published(2)
  BY DEF Published
<1>2. Sent' \subseteq Sent \cup ToSet(packets)
  <2>1. ToSet(toBroker \o packets) = ToSet(toBroker) \cup ToSet(packets)
    BY ConcatGives DEF SessionInv, SessionTypeOK
  <2>2. QED BY <2>1 DEF Sent
<1>3. ASSUME NEW p \in ToSet(packets), p.type = "PUBLISH", NEW q \in Sent, q.type = "PUBREL"
      PROVE  q.id # p.id
  <2>1. q.id \in Published(2)
    BY <1>3 DEF SessionInv, IdsInv
  <2>2. QED BY <1>3, <2>1 DEF SessionInv, ReleasedLast
<1>4. ASSUME NEW k \in DOMAIN toBroker', NEW l \in DOMAIN toBroker',
             toBroker'[k].type = "PUBREL", toBroker'[l].type = "PUBLISH", k < l
      PROVE  toBroker'[k].id # toBroker'[l].id
  <2>1. CASE toBroker' = toBroker
    BY <1>4, <2>1 DEF SessionInv, ReleasedLast
  <2>2. CASE toBroker' = toBroker \o packets
    <3>1. PICK n, m : n = Len(toBroker) /\ m = Len(packets)
      OBVIOUS
    <3>2. /\ n \in Nat /\ m \in Nat
          /\ DOMAIN toBroker = 1 .. n /\ DOMAIN packets = 1 .. m
          /\ DOMAIN toBroker' = 1 .. n + m
          /\ \A i \in 1 .. n : toBroker'[i] = toBroker[i]
          /\ \A i \in 1 .. m : toBroker'[n + i] = packets[i]
      BY <2>2, <3>1, ConcatGives DEF SessionInv, SessionTypeOK
    <3>3. k \in 1 .. n + m /\ l \in 1 .. n + m
      BY <1>4, <3>2
    <3>4. CASE l \in 1 .. n
      <4>1. k \in 1 .. n
        BY <1>4, <3>2, <3>4
      <4>2. QED BY <1>4, <3>2, <3>4, <4>1 DEF SessionInv, ReleasedLast
    <3>5. CASE l \notin 1 .. n
      <4>1. l - n \in DOMAIN packets /\ toBroker'[l] = packets[l - n]
        <5>1. l - n \in 1 .. m /\ n + (l - n) = l
          BY <3>2, <3>5, <3>3, Beyond
        <5>2. QED BY <3>2, <5>1
      <4>2. packets[l - n] \in ToSet(packets)
        BY <4>1 DEF ToSet
      <4>3. CASE k \in 1 .. n
        <5>1. toBroker[k] \in Sent /\ toBroker'[k] = toBroker[k]
          BY <3>2, <4>3 DEF Sent, ToSet
        <5>2. QED BY <1>3, <1>4, <4>1, <4>2, <5>1
      <4>4. CASE k \notin 1 .. n
        <5>1. k - n \in 1 .. m /\ n + (k - n) = k /\ k - n < l - n
          BY <1>4, <3>2, <3>5, <3>3, <4>4, Beyond
        <5>2. toBroker'[k] = packets[k - n] /\ k - n \in DOMAIN packets
          BY <3>2, <5>1
        <5>3. QED BY <1>4, <4>1, <5>1, <5>2
      <4>5. QED BY <4>3, <4>4
    <3>6. QED BY <3>4, <3>5
  <2>3. QED BY <2>1, <2>2
<1>5. ASSUME NEW c \in Published(2), Unanswered(c)'
      PROVE  delivered[c] = 0 /\ \A p \in Sent' : p.type = "PUBREL" => p.id # c
  BY <1>2, <1>5 DEF SessionInv, ReleasedLast
<1>6. ASSUME NEW c \in Published(2), delivered[c] > 0
      PROVE  c \notin stored /\ \A p \in Sent' : p.type = "PUBLISH" => p.id # c
  BY <1>2, <1>6 DEF SessionInv, ReleasedLast
<1>7. QED BY <1>1, <1>4, <1>5, <1>6 DEF ReleasedLast

LEMMA ReceiveGives ==
    ASSUME SessionTypeOK, NEW type, Receive(type)
    PROVE  /\ Head(toClient) \in Coming /\ Head(toClient) \in Packets /\ Head(toClient).type = type
           /\ toClient' \in Seq(Packets) /\ Coming' \subseteq Coming /\ state = "CONNECTED"
           /\ UNCHANGED <<calls, checked, result, stored, arrived, delivered, granted, sending,
                          overtaken, breaks, session>>
<1>1. toClient \in Seq(Packets) /\ toClient # <<>> /\ toClient' = Tail(toClient)
  BY DEF SessionTypeOK, Receive
<1>2. /\ Tail(toClient) \in Seq(Packets) /\ Head(toClient) \in ToSet(toClient)
      /\ Head(toClient) \in Packets /\ ToSet(Tail(toClient)) \subseteq ToSet(toClient)
  BY <1>1, TailGives
<1>3. QED BY <1>1, <1>2 DEF Receive, Coming, brokerVars

EventNames == {"PUBLISHED", "SUBSCRIBED", "SUBSCRIBE_FAILED", "UNSUBSCRIBED"}

\* The packet that finishes what a call began says what the event tells.
FinishedSays(initiator, id, event) ==
    /\ initiator = "PUBLISH" =>
           /\ event = "PUBLISHED" /\ id \in Published(1) \cup Published(2)
           /\ session.clean \/ delivered[id] > 0
           /\ id \in Published(1) => delivered[id] > 0
    /\ initiator = "SUBSCRIBE" =>
           event = "SUBSCRIBE_FAILED" \/ (event = "SUBSCRIBED" /\ id \in granted)
    /\ initiator = "UNSUBSCRIBE" => event = "UNSUBSCRIBED"

LEMMA FinishedKeeps ==
    ASSUME SessionInv, NEW type, Receive(type), NEW initiator \in Initiators, NEW id \in Calls,
           NEW event \in EventNames, FinishedSays(initiator, id, event),
           Finished(initiator, id, event)
    PROVE  SessionInv'
<1>1. /\ toClient' \in Seq(Packets) /\ Coming' \subseteq Coming
      /\ UNCHANGED <<calls, checked, result, stored, arrived, delivered, granted, sending,
                     overtaken, breaks, session>>
  BY ReceiveGives DEF SessionInv
<1>2. UNCHANGED <<state, conn, data, toBroker>>
  BY DEF Finished
<1>3. /\ outbox \in Seq(Items) /\ Ordered(outbox) /\ SessionTypeOK /\ ConnInv
      /\ events \in [Calls -> Seq(EventNames)] /\ data \in [Incoming -> Nat]
  BY DEF SessionInv, IdsInv, SessionTypeOK, EventNames
<1>4. CASE ~ remove_initiator_message(initiator, id)
  <2>1. UNCHANGED <<outbox, events>>
    BY <1>4 DEF Finished
  <2>2. QuietStep
    BY <1>1, <1>2, <1>3, <2>1 DEF QuietStep, brokerVars, SessionTypeOK, ConnInv
  <2>3. QED BY <2>2, QuietKeeps
<1>5. CASE remove_initiator_message(initiator, id)
  <2>1. outbox' = Without(initiator, id) /\ events' = [events EXCEPT ![id] = Append(@, event)]
    BY <1>5 DEF Finished, Event
  <2>2. PICK item \in Kept :
            /\ HasId(item, id) /\ item.type = initiator
            /\ Without(initiator, id) \in Seq(Items) /\ Ordered(Without(initiator, id))
            /\ ToSet(Without(initiator, id)) = Kept \ {item}
    BY <1>3, <1>5, WithoutGives
  <2>3. outbox' \in Seq(Items) /\ Ordered(outbox)' /\ Kept' = Kept \ {item}
    BY <2>1, <2>2 DEF Kept, Ordered
  <2>4. item.call = id /\ OfCall(item.type, id, item.qos) /\ events[id] = <<>>
    BY <2>2 DEF HasId, SessionInv, IdsInv, EventsInv
  <2>5. \A x \in Kept : x.call = id => x = item
    <3>1. PICK i \in DOMAIN outbox : outbox[i] = item
      BY DEF Kept, ToSet
    <3>2. ASSUME NEW x \in Kept, x.call = id PROVE x = item
      <4>1. PICK j \in DOMAIN outbox : outbox[j] = x
        BY DEF Kept, ToSet
      <4>2. QED BY <1>3, <2>4, <3>1, <3>2, <4>1, OneItem
    <3>3. QED BY <3>2
  <2>6. /\ events' \in [Calls -> Seq(EventNames)] /\ events'[id] = <<event>>
        /\ \A c \in Calls : c # id => events'[c] = events[c]
    BY <1>3, <2>1, <2>4
  <2>7. TaskFrame
    <3>1. SessionTypeOK'
      BY <1>1, <1>2, <1>3, <2>3, <2>6 DEF SessionTypeOK, EventNames
    <3>2. ConnInv'
      BY <1>2, <1>3 DEF ConnInv
    <3>3. \A m \in Incoming : data'[m] >= data[m]
      BY <1>2, <1>3
    <3>4. \A c \in Calls \ DOMAIN calls : events'[c] = <<>>
      BY <2>4, <2>6 DEF OfCall, SessionInv, IdsInv
    <3>5. QED BY <1>1, <2>3, <3>1, <3>2, <3>3, <3>4 DEF TaskFrame
  <2>8. \A y \in Kept' : \E x \in Kept : Advanced(y, x)
    BY <2>3 DEF Advanced
  <2>9. \A x \in Kept : DoneWith(x) \/ \E y \in Kept' : y.call = x.call
    <3>1. DoneWith(item)
      <4>1. CASE initiator = "PUBLISH"
        BY <2>4, <4>1 DEF DoneWith, FinishedSays
      <4>2. CASE initiator # "PUBLISH"
        BY <2>2, <2>4, <4>2 DEF DoneWith, Published, OfCall, Initiators
      <4>3. QED BY <4>1, <4>2
    <3>2. QED BY <2>3, <3>1
  <2>10. Sent' = Sent
    BY <1>2 DEF Sent
  <2>11. /\ IdsInv' /\ AnswersTrue' /\ GivenFirst' /\ AtLeastOnce' /\ NeverTwice'
    BY <2>7, <2>8, <2>9, <2>10, TaskKeeps
  <2>12. EventsInv'
    <3>1. \A x \in Kept' : x \in Kept /\ x.call \in Calls /\ x.call # id
      BY <2>3, <2>5, <1>3, CallOrder DEF SessionInv
    <3>2. QED BY <2>6, <3>1 DEF SessionInv, EventsInv
  <2>13. EventsTrue'
    <3>1. /\ Len(<<event>>) <= 1 /\ \A e : Contains(<<event>>, e) => e = event
      BY DEF Contains
    <3>2. Published(1)' = Published(1) /\ Published(2)' = Published(2)
      BY <1>1 DEF Published
    <3>3. ASSUME NEW c \in DOMAIN calls
          PROVE  /\ Len(events'[c]) <= 1
                 /\ Contains(events'[c], "PUBLISHED") =>
                        c \in Published(1) \cup Published(2) /\ (session.clean \/ delivered[c] > 0)
                 /\ Contains(events'[c], "SUBSCRIBED") => calls[c].op = "subscribe" /\ c \in granted
                 /\ Contains(events'[c], "UNSUBSCRIBED") => calls[c].op = "unsubscribe"
      <4>1. CASE c = id
        <5>1. CASE initiator = "PUBLISH"
          BY <2>6, <3>1, <4>1, <5>1 DEF FinishedSays
        <5>2. CASE initiator = "SUBSCRIBE"
          BY <2>2, <2>4, <2>6, <3>1, <4>1, <5>2 DEF FinishedSays, OfCall
        <5>3. CASE initiator = "UNSUBSCRIBE"
          BY <2>2, <2>4, <2>6, <3>1, <4>1, <5>3 DEF FinishedSays, OfCall
        <5>4. QED BY <5>1, <5>2, <5>3 DEF Initiators
      <4>2. CASE c # id
        <5>1. c \in Calls
          BY <1>3, Bounds DEF SessionTypeOK, Calls
        <5>2. QED BY <2>6, <4>2, <5>1 DEF SessionInv, EventsTrue
      <4>3. QED BY <4>1, <4>2
    <3>4. QED BY <1>1, <3>2, <3>3 DEF EventsTrue
  <2>14. ReleasedLast'
    <3>1. Published(2)' = Published(2) /\ \A c : Unanswered(c)' => Unanswered(c)
      BY <1>1, <2>3 DEF Published, Unanswered
    <3>2. QED BY <1>1, <1>2, <2>10, <3>1 DEF SessionInv, ReleasedLast
  <2>15. QED BY <2>7, <2>11, <2>12, <2>13, <2>14 DEF SessionInv, TaskFrame
<1>6. QED BY <1>4, <1>5

LEMMA FinishesKeep ==
    ASSUME SessionInv, ReceivePuback \/ ReceivePubcomp \/ ReceiveSuback \/ ReceiveUnsuback
    PROVE  SessionInv'
<1> DEFINE p == Head(toClient)
<1>1. SessionTypeOK /\ IdsInv /\ AnswersTrue
  BY DEF SessionInv
<1>2. DOMAIN calls \subseteq Calls
  BY <1>1, Bounds DEF SessionTypeOK, Calls
<1>3. PICK id, ok : id = p.id /\ ok = p.ok
  OBVIOUS
<1>4. CASE ReceivePuback
  <2>1. Receive("PUBACK") /\ Finished("PUBLISH", id, "PUBLISHED")
    BY <1>3, <1>4 DEF ReceivePuback
  <2>2. p \in Coming /\ p.type = "PUBACK"
    BY <1>1, <2>1, ReceiveGives
  <2>3. id \in Published(1) /\ delivered[id] > 0
    BY <1>1, <1>3, <2>2 DEF IdsInv, AnswersTrue
  <2>4. id \in Calls /\ FinishedSays("PUBLISH", id, "PUBLISHED")
    BY <1>2, <2>3 DEF Published, FinishedSays
  <2>5. QED BY <2>1, <2>4, FinishedKeeps DEF Initiators, EventNames
<1>5. CASE ReceivePubcomp
  <2>1. Receive("PUBCOMP") /\ Finished("PUBLISH", id, "PUBLISHED")
    BY <1>3, <1>5 DEF ReceivePubcomp
  <2>2. p \in Coming /\ p.type = "PUBCOMP"
    BY <1>1, <2>1, ReceiveGives
  <2>3. id \in Published(2) /\ (session.clean \/ delivered[id] > 0)
    BY <1>1, <1>3, <2>2 DEF IdsInv, AnswersTrue
  <2>4. id \in Calls /\ FinishedSays("PUBLISH", id, "PUBLISHED")
    BY <1>2, <2>3 DEF Published, FinishedSays
  <2>5. QED BY <2>1, <2>4, FinishedKeeps DEF Initiators, EventNames
<1>6. CASE ReceiveSuback
  <2>1. PICK event : event = IF ok THEN "SUBSCRIBED" ELSE "SUBSCRIBE_FAILED"
    OBVIOUS
  <2>2. Receive("SUBACK") /\ Finished("SUBSCRIBE", id, event)
    BY <1>3, <1>6, <2>1 DEF ReceiveSuback
  <2>3. p \in Coming /\ p.type = "SUBACK"
    BY <1>1, <2>2, ReceiveGives
  <2>4. id \in DOMAIN calls /\ (ok => id \in granted)
    BY <1>1, <1>3, <2>3 DEF IdsInv, AnswersTrue
  <2>5. id \in Calls /\ FinishedSays("SUBSCRIBE", id, event) /\ event \in EventNames
    BY <1>2, <2>1, <2>4 DEF FinishedSays, EventNames
  <2>6. QED BY <2>2, <2>5, FinishedKeeps DEF Initiators
<1>7. CASE ReceiveUnsuback
  <2>1. Receive("UNSUBACK") /\ Finished("UNSUBSCRIBE", id, "UNSUBSCRIBED")
    BY <1>3, <1>7 DEF ReceiveUnsuback
  <2>2. p \in Coming /\ p.type = "UNSUBACK"
    BY <1>1, <2>1, ReceiveGives
  <2>3. id \in Calls /\ FinishedSays("UNSUBSCRIBE", id, "UNSUBSCRIBED")
    BY <1>1, <1>2, <1>3, <2>2 DEF IdsInv, FinishedSays
  <2>4. QED BY <2>1, <2>3, FinishedKeeps DEF Initiators, EventNames
<1>8. QED BY <1>4, <1>5, <1>6, <1>7

\* What is written at the answer to a packet.
LEMMA AnswerKeeps ==
    ASSUME SessionInv, TaskFrame, events' = events, NEW p \in Packets, Writable(p),
           toBroker' \in {toBroker, toBroker \o <<p>>},
           \A y \in Kept' : \E x \in Kept : Advanced(y, x),
           \A x \in Kept : DoneWith(x) \/ \E y \in Kept' : y.call = x.call,
           \A c : Unanswered(c)' => Unanswered(c),
           p.type = "PUBLISH" /\ p.id \in Published(2) => Unanswered(p.id),
           p.type = "PUBREL" => ~ Unanswered(p.id)'
    PROVE  SessionInv'
<1>1. PICK r : r = <<p>>
  OBVIOUS
<1>2. r \in Seq(Packets) /\ ToSet(r) = {p} /\ r[1] = p /\ Len(r) = 1
  BY <1>1, OneGives
<1>3. ToSet(toBroker \o r) = Sent \cup {p}
  BY <1>2, ConcatGives DEF Sent, SessionInv, SessionTypeOK
<1>4. \A q \in Sent' : q \in Sent \/ Writable(q)
  BY <1>1, <1>3 DEF Sent
<1>5. /\ IdsInv' /\ AnswersTrue' /\ GivenFirst' /\ AtLeastOnce' /\ NeverTwice'
      /\ EventsInv' /\ EventsTrue'
  BY <1>4, TaskKeeps
<1>6. ReleasedLast'
  <2>1. UNCHANGED <<calls, delivered, stored>> /\ toBroker' \in {toBroker, toBroker \o r}
    BY <1>1 DEF TaskFrame
  <2>2. \A k, l \in DOMAIN r : ~ (k < l)
    BY <1>2
  <2>3. QED BY <1>2, <2>1, <2>2, WritesReleased
<1>7. QED BY <1>5, <1>6 DEF SessionInv, TaskFrame

LEMMA ReceivePublishKeeps ==
    ASSUME SessionInv, ReceivePublish
    PROVE  SessionInv'
<1>1. SessionTypeOK /\ ConnInv /\ IdsInv
  BY DEF SessionInv
<1>2. PICK id, type : /\ id = Head(toClient).id
                      /\ type = IF Head(toClient).qos = 1 THEN "PUBACK" ELSE "PUBREC"
  OBVIOUS
<1>3. /\ Head(toClient) \in Coming /\ Head(toClient).type = "PUBLISH"
      /\ toClient' \in Seq(Packets) /\ Coming' \subseteq Coming /\ state = "CONNECTED"
      /\ UNCHANGED <<calls, checked, result, stored, arrived, delivered, granted, sending,
                     overtaken, breaks, session>>
  BY <1>1, ReceiveGives DEF ReceivePublish
<1>4. id \in Incoming /\ type \in {"PUBACK", "PUBREC"}
  BY <1>1, <1>2, <1>3 DEF IdsInv
<1>5. PICK p : p = Packet(type, id)
  OBVIOUS
<1>6. p \in Packets /\ p.type = type /\ p.id = id
  BY <1>4, <1>5, PacketGives DEF Types, Handshakes
<1>7. /\ data' = [data EXCEPT ![id] = @ + 1] /\ UNCHANGED <<outbox, events>>
      /\ \/ Write(<<p>>) /\ UNCHANGED <<state, conn>>
         \/ WriteFails /\ Abort
  BY <1>2, <1>5 DEF ReceivePublish
<1>8. /\ data' \in [Incoming -> Nat] /\ data'[id] > 0
      /\ \A m \in Incoming : data'[m] >= data[m]
  <2>1. data \in [Incoming -> Nat]
    BY <1>1 DEF SessionTypeOK
  <2>2. data'[id] = data[id] + 1 /\ \A m \in Incoming : m # id => data'[m] = data[m]
    BY <1>4, <1>7, <2>1
  <2>3. data' \in [Incoming -> Nat]
    BY <1>4, <1>7, <2>1
  <2>4. QED BY <1>4, <2>1, <2>2, <2>3
<1>9. PICK r : r = <<p>>
  OBVIOUS
<1>10. /\ toBroker' \in Seq(Packets) /\ toBroker' \in {toBroker, toBroker \o r}
       /\ conn # "up" => toBroker' = <<>>
  <2>1. r \in Seq(Packets) /\ (Write(r) \/ WriteFails)
    BY <1>6, <1>7, <1>9, OneGives
  <2>2. QED BY <1>1, <2>1, WriteGives DEF SessionTypeOK, ConnInv
<1>11. Kept' = Kept /\ \A c : Unanswered(c)' <=> Unanswered(c)
  BY <1>7 DEF Kept, Unanswered
<1>12. ConnInv'
  BY <1>1, <1>7, <1>10 DEF ConnInv, WriteFails, Abort
<1>13. TaskFrame
  <2>1. SessionTypeOK'
    BY <1>1, <1>3, <1>7, <1>8, <1>10 DEF SessionTypeOK, WriteFails, Abort
  <2>2. \A c \in Calls \ DOMAIN calls : events'[c] = <<>>
    BY <1>1, <1>7 DEF IdsInv
  <2>3. Ordered(outbox)'
    BY <1>1, <1>7 DEF IdsInv, Ordered
  <2>4. QED BY <1>3, <1>8, <1>12, <2>1, <2>2, <2>3 DEF TaskFrame
<1>14. Writable(p)
  BY <1>4, <1>6, <1>8 DEF Writable, Initiators
<1>15. p.type # "PUBLISH" /\ p.type # "PUBREL"
  BY <1>4, <1>6
<1>16. \A x \in Kept : Advanced(x, x)
  BY DEF Advanced
<1>17. QED BY <1>6, <1>7, <1>9, <1>10, <1>11, <1>13, <1>14, <1>15, <1>16, AnswerKeeps

LEMMA KeptOnce ==
    ASSUME SessionTypeOK, IdsInv, NEW x \in Kept, NEW y \in Kept, x.call = y.call
    PROVE  x = y
<1>1. PICK i, j \in DOMAIN outbox : outbox[i] = x /\ outbox[j] = y
  BY DEF Kept, ToSet
<1>2. QED BY <1>1, OneItem DEF SessionTypeOK, IdsInv

\* What an item in the outbox was called for.
LEMMA KeptGives ==
    ASSUME SessionTypeOK, IdsInv, NEW x \in Kept
    PROVE  /\ x \in Items /\ OfCall(x.type, x.call, x.qos)
           /\ x.pending \in {"QUEUED", "ACKNOWLEDGED"} => x.type = "PUBLISH"
           /\ x.type = "PUBLISH" => x.call \in Published(x.qos)
           /\ x.pending = "ACKNOWLEDGED" => x.qos = 2
           /\ \A qos : x.call \in Published(qos) => x.type = "PUBLISH" /\ x.qos = qos
<1>1. /\ x \in Items /\ OfCall(x.type, x.call, x.qos)
      /\ x.type # "PUBLISH" => x.pending = "TRANSMITTED"
      /\ x.pending = "ACKNOWLEDGED" => x.qos = 2
  BY CallOrder DEF IdsInv
<1>2. x.type \in Initiators
  BY <1>1 DEF Items
<1>3. QED BY <1>1, <1>2 DEF OfCall, Published, Messages, Initiators

LEMMA ReceivePubrecKeeps ==
    ASSUME SessionInv, ReceivePubrec
    PROVE  SessionInv'
<1>1. SessionTypeOK /\ ConnInv /\ IdsInv /\ AnswersTrue
  BY DEF SessionInv
<1>2. PICK id : id = Head(toClient).id
  OBVIOUS
<1>3. /\ Head(toClient) \in Coming /\ Head(toClient).type = "PUBREC"
      /\ toClient' \in Seq(Packets) /\ Coming' \subseteq Coming /\ state = "CONNECTED"
      /\ UNCHANGED <<calls, checked, result, stored, arrived, delivered, granted, sending,
                     overtaken, breaks, session>>
  BY <1>1, ReceiveGives DEF ReceivePubrec
<1>4. id \in Published(2) /\ Held(id) /\ id \in Calls
  <2>1. DOMAIN calls \subseteq Calls
    BY <1>1, Bounds DEF SessionTypeOK, Calls
  <2>2. id \in Published(2) /\ Held(id)
    BY <1>1, <1>2, <1>3 DEF IdsInv, AnswersTrue
  <2>3. QED BY <2>1, <2>2 DEF Published
<1>5. PICK p : p = Packet("PUBREL", id)
  OBVIOUS
<1>6. p \in Packets /\ p.type = "PUBREL" /\ p.id = id
  BY <1>4, <1>5, PacketGives DEF Types, Handshakes
<1>7. /\ outbox' = outbox_set_pending(outbox, id, "ACKNOWLEDGED")
      /\ Write(<<p>>) \/ WriteFails
      /\ UNCHANGED <<state, conn, events, data>>
  BY <1>2, <1>5 DEF ReceivePubrec
<1>8. PICK r : r = <<p>>
  OBVIOUS
<1>9. /\ toBroker' \in Seq(Packets) /\ toBroker' \in {toBroker, toBroker \o r}
      /\ conn # "up" => toBroker' = <<>>
  <2>1. r \in Seq(Packets) /\ (Write(r) \/ WriteFails)
    BY <1>6, <1>7, <1>8, OneGives
  <2>2. QED BY <1>1, <2>1, WriteGives DEF SessionTypeOK, ConnInv
<1>10. PICK q : q = outbox_set_pending(outbox, id, "ACKNOWLEDGED")
  OBVIOUS
<1>11. /\ q \in Seq(Items) /\ Ordered(q)
       /\ \A y \in ToSet(q) : \E x \in ToSet(outbox) :
              y = IF HasId(x, id) THEN With(x, "ACKNOWLEDGED") ELSE x
       /\ \A x \in ToSet(outbox) : (IF HasId(x, id) THEN With(x, "ACKNOWLEDGED") ELSE x) \in ToSet(q)
  BY <1>1, <1>10, SetPendingGives DEF SessionTypeOK, IdsInv
<1>12. /\ outbox' = q /\ outbox' \in Seq(Items) /\ Ordered(outbox)' /\ Kept' = ToSet(q)
       /\ Kept = ToSet(outbox)
  BY <1>7, <1>10, <1>11 DEF Kept, Ordered
<1>13. ASSUME NEW x \in Kept
       PROVE  /\ HasId(x, id) <=> x.call = id
              /\ x.call = id => x.type = "PUBLISH" /\ x.qos = 2
  BY <1>1, <1>4, KeptGives DEF HasId
<1>14. ASSUME NEW x \in Kept, NEW y, y = IF HasId(x, id) THEN With(x, "ACKNOWLEDGED") ELSE x
       PROVE  /\ Advanced(y, x) /\ y.call = x.call
              /\ x.call # id => y = x
              /\ x.call = id => y.pending = "ACKNOWLEDGED"
  <2>1. x \in Items
    BY <1>1, CallOrder
  <2>2. CASE x.call = id
    BY <1>4, <1>13, <1>14, <2>1, <2>2, WithGives DEF Advanced
  <2>3. CASE x.call # id
    BY <1>13, <1>14, <2>3 DEF Advanced
  <2>4. QED BY <2>2, <2>3
<1>15. \A y \in Kept' : \E x \in Kept : Advanced(y, x)
  BY <1>11, <1>12, <1>14
<1>16. \A x \in Kept : \E y \in Kept' : y.call = x.call
  BY <1>11, <1>12, <1>14
<1>17. ASSUME NEW y \in Kept', y.pending # "ACKNOWLEDGED" PROVE y.call # id /\ y \in Kept
  <2>1. PICK x \in Kept : y = IF HasId(x, id) THEN With(x, "ACKNOWLEDGED") ELSE x
    BY <1>11, <1>12
  <2>2. QED BY <1>14, <1>17, <2>1
<1>18. /\ \A c : Unanswered(c)' => Unanswered(c)
       /\ ~ Unanswered(id)'
  BY <1>17 DEF Unanswered
<1>19. TaskFrame
  <2>1. SessionTypeOK'
    BY <1>1, <1>3, <1>7, <1>9, <1>12 DEF SessionTypeOK
  <2>2. /\ \A c \in Calls \ DOMAIN calls : events'[c] = <<>>
        /\ ConnInv'
    BY <1>1, <1>7, <1>9 DEF IdsInv, ConnInv
  <2>3. \A m \in Incoming : data'[m] >= data[m]
    BY <1>1, <1>7 DEF SessionTypeOK
  <2>4. QED BY <1>3, <1>12, <2>1, <2>2, <2>3 DEF TaskFrame
<1>20. Writable(p)
  BY <1>4, <1>6 DEF Writable, Initiators
<1>21. QED
  BY <1>6, <1>7, <1>8, <1>9, <1>15, <1>16, <1>18, <1>19, <1>20, AnswerKeeps

LEMMA ReceivePubrelKeeps ==
    ASSUME SessionInv, ReceivePubrel
    PROVE  SessionInv'
<1>1. SessionTypeOK /\ ConnInv /\ IdsInv /\ GivenFirst
  BY DEF SessionInv
<1>2. PICK id : id = Head(toClient).id
  OBVIOUS
<1>3. /\ Head(toClient) \in Coming /\ Head(toClient).type = "PUBREL"
      /\ toClient' \in Seq(Packets) /\ Coming' \subseteq Coming /\ state = "CONNECTED"
      /\ UNCHANGED <<calls, checked, result, stored, arrived, delivered, granted, sending,
                     overtaken, breaks, session>>
  BY <1>1, ReceiveGives DEF ReceivePubrel
<1>4. id \in Incoming /\ data[id] > 0
  BY <1>1, <1>2, <1>3 DEF IdsInv, GivenFirst
<1>5. PICK p : p = Packet("PUBCOMP", id)
  OBVIOUS
<1>6. p \in Packets /\ p.type = "PUBCOMP" /\ p.id = id
  BY <1>4, <1>5, PacketGives DEF Types, Handshakes
<1>7. /\ Write(<<p>>) \/ WriteFails
      /\ UNCHANGED <<state, conn, outbox, events, data>>
  BY <1>2, <1>5 DEF ReceivePubrel
<1>8. PICK r : r = <<p>>
  OBVIOUS
<1>9. /\ toBroker' \in Seq(Packets) /\ toBroker' \in {toBroker, toBroker \o r}
      /\ conn # "up" => toBroker' = <<>>
  <2>1. r \in Seq(Packets) /\ (Write(r) \/ WriteFails)
    BY <1>6, <1>7, <1>8, OneGives
  <2>2. QED BY <1>1, <2>1, WriteGives DEF SessionTypeOK, ConnInv
<1>10. Kept' = Kept /\ \A c : Unanswered(c)' <=> Unanswered(c)
  BY <1>7 DEF Kept, Unanswered
<1>11. TaskFrame
  <2>1. SessionTypeOK'
    BY <1>1, <1>3, <1>7, <1>9 DEF SessionTypeOK
  <2>2. \A c \in Calls \ DOMAIN calls : events'[c] = <<>>
    BY <1>1, <1>7 DEF IdsInv
  <2>3. ConnInv' /\ Ordered(outbox)'
    BY <1>1, <1>7, <1>9 DEF ConnInv, IdsInv, Ordered
  <2>4. \A m \in Incoming : data'[m] >= data[m]
    BY <1>1, <1>7 DEF SessionTypeOK
  <2>5. QED BY <1>3, <2>1, <2>2, <2>3, <2>4 DEF TaskFrame
<1>12. Writable(p)
  BY <1>4, <1>6, <1>7 DEF Writable, Initiators
<1>13. \A x \in Kept : Advanced(x, x)
  BY DEF Advanced
<1>14. QED BY <1>6, <1>7, <1>8, <1>9, <1>10, <1>11, <1>12, <1>13, AnswerKeeps

\* The item that is sent is the oldest one queued; it stays, transmitted, if an answer is due.
LEMMA ResentGives ==
    ASSUME SessionTypeOK, IdsInv, NEW n \in DOMAIN outbox, NEW item \in Kept, item = outbox[n],
           outbox' = IF item.qos = 0 THEN RemoveAt(outbox, n)
                     ELSE outbox_set_pending(outbox, item.call, "TRANSMITTED")
    PROVE  /\ outbox' \in Seq(Items) /\ Ordered(outbox)'
           /\ \A y \in Kept' : y \in Kept \ {item} \/ (y = With(item, "TRANSMITTED") /\ item.qos # 0)
           /\ \A x \in Kept : x = item \/ x \in Kept'
           /\ item.qos = 0 \/ With(item, "TRANSMITTED") \in Kept'
<1>1. outbox \in Seq(Items) /\ Ordered(outbox) /\ item \in Items
  BY CallOrder DEF SessionTypeOK, IdsInv
<1>2. CASE item.qos = 0
  <2>1. PICK q : q = RemoveAt(outbox, n)
    OBVIOUS
  <2>2. q \in Seq(Items) /\ Ordered(q) /\ ToSet(q) = ToSet(outbox) \ {item}
    BY <1>1, <2>1, RemoveGives
  <2>3. outbox' = q
    BY <1>2, <2>1
  <2>4. QED BY <1>2, <2>2, <2>3 DEF Kept, Ordered
<1>3. CASE item.qos # 0
  <2>1. PICK q, id : q = outbox_set_pending(outbox, id, "TRANSMITTED") /\ id = item.call
    OBVIOUS
  <2>2. /\ q \in Seq(Items) /\ Ordered(q)
        /\ \A y \in ToSet(q) : \E x \in ToSet(outbox) :
               y = IF HasId(x, id) THEN With(x, "TRANSMITTED") ELSE x
        /\ \A x \in ToSet(outbox) :
               (IF HasId(x, id) THEN With(x, "TRANSMITTED") ELSE x) \in ToSet(q)
    BY <1>1, <2>1, SetPendingGives, SMTT(30)
  <2>3. \A x \in Kept : HasId(x, id) <=> x = item
    <3>1. item.qos > 0
      BY <1>1, <1>3 DEF Items
    <3>2. \A x \in Kept : x.call = item.call => x = item
      BY KeptOnce
    <3>3. QED BY <2>1, <3>1, <3>2 DEF HasId
  <2>4. outbox' = q
    BY <1>3, <2>1
  <2>5. Kept' = ToSet(q) /\ Kept = ToSet(outbox) /\ Ordered(outbox)'
    BY <2>2, <2>4 DEF Kept, Ordered
  <2>6. QED BY <1>3, <2>2, <2>3, <2>4, <2>5
<1>4. QED BY <1>2, <1>3

LEMMA ResendQueuedKeeps ==
    ASSUME SessionInv, ResendQueued
    PROVE  SessionInv'
<1>1. SessionTypeOK /\ ConnInv /\ IdsInv /\ outbox \in Seq(Items) /\ Ordered(outbox)
  BY DEF SessionInv, SessionTypeOK, IdsInv
<1>2. PICK n, item : n = Pending("QUEUED") /\ item = outbox[n]
  OBVIOUS
<1>3. n \in DOMAIN outbox /\ item \in Kept /\ item.pending = "QUEUED"
  BY <1>1, <1>2, PendingGives DEF ResendQueued
<1>4. /\ item \in Items /\ item.type = "PUBLISH" /\ item.call \in Published(item.qos)
      /\ OfCall(item.type, item.call, item.qos)
  BY <1>1, <1>3, KeptGives
<1>5. /\ UNCHANGED <<calls, checked, result, events, data, toClient, stored, arrived, delivered,
                     granted, sending, breaks, session>>
      /\ state = "CONNECTED"
  BY DEF ResendQueued, TaskOnly, brokerVars
<1>6. PICK p : p = PacketOf(item)
  OBVIOUS
<1>7. p \in Packets /\ p.type = "PUBLISH" /\ p.id = item.call /\ p.qos = item.qos
  BY <1>4, <1>6, PacketOfGives
<1>8. \/ /\ Write(<<p>>)
         /\ outbox' = IF item.qos = 0 THEN RemoveAt(outbox, n)
                      ELSE outbox_set_pending(outbox, item.call, "TRANSMITTED")
         /\ overtaken' = IF conn = "up" THEN overtaken ELSE overtaken \cup {item.call}
         /\ UNCHANGED <<state, conn>>
      \/ WriteFails /\ Abort /\ UNCHANGED <<outbox, overtaken>>
  BY <1>2, <1>6 DEF ResendQueued
<1>9. CASE WriteFails /\ Abort /\ UNCHANGED <<outbox, overtaken>>
  <2>1. QuietStep
    BY <1>1, <1>5, <1>9 DEF WriteFails, Abort, QuietStep, brokerVars, SessionTypeOK, ConnInv, Coming
  <2>2. QED BY <2>1, QuietKeeps
<1>10. CASE /\ Write(<<p>>)
            /\ outbox' = IF item.qos = 0 THEN RemoveAt(outbox, n)
                         ELSE outbox_set_pending(outbox, item.call, "TRANSMITTED")
            /\ overtaken' = IF conn = "up" THEN overtaken ELSE overtaken \cup {item.call}
            /\ UNCHANGED <<state, conn>>
  <2>1. PICK r : r = <<p>>
    OBVIOUS
  <2>2. /\ toBroker' \in Seq(Packets) /\ toBroker' \in {toBroker, toBroker \o r}
        /\ conn # "up" => toBroker' = <<>>
    <3>1. r \in Seq(Packets) /\ (Write(r) \/ WriteFails)
      BY <1>7, <1>10, <2>1, OneGives
    <3>2. QED BY <1>1, <3>1, WriteGives DEF SessionTypeOK, ConnInv
  <2>3. /\ outbox' \in Seq(Items) /\ Ordered(outbox)'
        /\ \A y \in Kept' : y \in Kept \ {item} \/ (y = With(item, "TRANSMITTED") /\ item.qos # 0)
        /\ \A x \in Kept : x = item \/ x \in Kept'
        /\ item.qos = 0 \/ With(item, "TRANSMITTED") \in Kept'
    BY <1>1, <1>2, <1>3, <1>10, ResentGives
  <2>4. PICK w : w = With(item, "TRANSMITTED")
    OBVIOUS
  <2>5. Advanced(w, item) /\ w.call = item.call
    BY <1>4, <2>4, WithGives DEF Advanced
  <2>6. \A x \in Kept : Advanced(x, x)
    BY DEF Advanced
  <2>7. \A y \in Kept' : \E x \in Kept : Advanced(y, x)
    BY <1>3, <2>3, <2>4, <2>5, <2>6
  <2>8. \A x \in Kept : DoneWith(x) \/ \E y \in Kept' : y.call = x.call
    <3>1. item.qos = 0 => DoneWith(item)
      BY <1>4 DEF DoneWith, Published, OfCall
    <3>2. QED BY <2>3, <2>4, <2>5, <3>1
  <2>9. \A c : Unanswered(c)' => Unanswered(c)
    BY <1>3, <2>3, <2>4, <2>5 DEF Unanswered
  <2>10. Unanswered(item.call)
    BY <1>3 DEF Unanswered
  <2>11. TaskFrame
    <3>1. overtaken' \subseteq Calls
      BY <1>1, <1>4, <1>10 DEF SessionTypeOK, Items
    <3>2. SessionTypeOK'
      BY <1>1, <1>5, <1>10, <2>2, <2>3, <3>1 DEF SessionTypeOK
    <3>3. /\ \A c \in Calls \ DOMAIN calls : events'[c] = <<>>
          /\ ConnInv' /\ Coming' = Coming
      BY <1>1, <1>5, <1>10, <2>2 DEF IdsInv, ConnInv, Coming
    <3>4. \A m \in Incoming : data'[m] >= data[m]
      BY <1>1, <1>5 DEF SessionTypeOK
    <3>5. QED BY <1>5, <2>3, <3>2, <3>3, <3>4 DEF TaskFrame
  <2>12. Writable(p)
    BY <1>4, <1>7 DEF Writable
  <2>13. QED
    BY <1>5, <1>7, <2>1, <2>2, <2>7, <2>8, <2>9, <2>10, <2>11, <2>12, AnswerKeeps
<1>11. QED BY <1>8, <1>9, <1>10

LEMMA AgainForGives ==
    ASSUME SessionTypeOK, IdsInv, AnswersTrue
    PROVE  /\ AgainFor \in Seq(Packets)
           /\ \A p \in ToSet(AgainFor) :
                  \/ \E x \in Kept : x.pending = "TRANSMITTED" /\ p = PacketOf(x)
                  \/ \E x \in Kept : /\ x.pending = "ACKNOWLEDGED" /\ p.type = "PUBREL"
                                     /\ p.id = x.call
           /\ \A k, l \in DOMAIN AgainFor :
                  ~ (AgainFor[k].type = "PUBREL" /\ AgainFor[l].type = "PUBLISH" /\ k < l)
<1> DEFINE a == IF Pending("TRANSMITTED") = 0 THEN <<>> ELSE <<PacketOf(outbox[Pending("TRANSMITTED")])>>
           b == IF Pending("ACKNOWLEDGED") = 0 THEN <<>>
                ELSE <<Packet("PUBREL", outbox[Pending("ACKNOWLEDGED")].call)>>
<1>1. outbox \in Seq(Items) /\ Ordered(outbox)
  BY DEF SessionTypeOK, IdsInv
<1>2. <<>> \in Seq(Packets) /\ ToSet(<<>>) = {} /\ DOMAIN <<>> = {}
  BY DEF ToSet
<1>3. /\ a \in Seq(Packets)
      /\ \A p \in ToSet(a) : \E x \in Kept : x.pending = "TRANSMITTED" /\ p = PacketOf(x)
  <2>1. CASE Pending("TRANSMITTED") = 0
    BY <1>2, <2>1
  <2>2. CASE Pending("TRANSMITTED") # 0
    <3>1. PICK x : x = outbox[Pending("TRANSMITTED")]
      OBVIOUS
    <3>2. x \in Kept /\ x.pending = "TRANSMITTED"
      BY <1>1, <2>2, <3>1, PendingGives
    <3>3. PICK p : p = PacketOf(x)
      OBVIOUS
    <3>4. p \in Packets
      BY <3>2, <3>3, PacketOfGives, CallOrder
    <3>5. a = <<p>>
      BY <2>2, <3>1, <3>3
    <3>6. QED BY <3>2, <3>3, <3>4, <3>5, OneGives
  <2>3. QED BY <2>1, <2>2
<1>4. /\ b \in Seq(Packets)
      /\ \A p \in ToSet(b) : \E x \in Kept : /\ x.pending = "ACKNOWLEDGED" /\ p.type = "PUBREL"
                                             /\ p.id = x.call
  <2>1. CASE Pending("ACKNOWLEDGED") = 0
    BY <1>2, <2>1
  <2>2. CASE Pending("ACKNOWLEDGED") # 0
    <3>1. PICK x, id : x = outbox[Pending("ACKNOWLEDGED")] /\ id = x.call
      OBVIOUS
    <3>2. x \in Kept /\ x.pending = "ACKNOWLEDGED"
      BY <1>1, <2>2, <3>1, PendingGives
    <3>3. PICK p : p = Packet("PUBREL", id)
      OBVIOUS
    <3>4. p \in Packets /\ p.type = "PUBREL" /\ p.id = id
      BY <3>1, <3>2, <3>3, PacketGives, CallOrder DEF Types, Handshakes
    <3>5. b = <<p>>
      BY <2>2, <3>1, <3>3
    <3>6. QED BY <3>1, <3>2, <3>4, <3>5, OneGives
  <2>3. QED BY <2>1, <2>2
<1>5. AgainFor = a \o b
  BY DEF AgainFor
<1>6. \A p \in ToSet(a) : p.type # "PUBREL"
  <2>1. \A x \in Kept : PacketOf(x).type = x.type /\ x.type \in Initiators
    BY CallOrder, PacketOfGives DEF Items
  <2>2. QED BY <1>3, <2>1 DEF Initiators
<1>7. \A p \in ToSet(b) : p.type # "PUBLISH"
  BY <1>4
<1> HIDE DEF a, b
<1>8. PICK n, m, c : n = Len(a) /\ m = Len(b) /\ c = a \o b
  OBVIOUS
<1>9. /\ c \in Seq(Packets) /\ ToSet(c) = ToSet(a) \cup ToSet(b)
      /\ n \in Nat /\ m \in Nat /\ DOMAIN a = 1 .. n /\ DOMAIN b = 1 .. m
      /\ DOMAIN c = 1 .. n + m
      /\ \A k \in 1 .. n : c[k] = a[k]
      /\ \A k \in 1 .. m : c[n + k] = b[k]
  BY <1>3, <1>4, <1>8, ConcatGives
<1>10. ASSUME NEW k \in DOMAIN c, NEW l \in DOMAIN c, c[k].type = "PUBREL", c[l].type = "PUBLISH"
       PROVE  ~ (k < l)
  <2>1. k \notin 1 .. n
    BY <1>6, <1>9, <1>10 DEF ToSet
  <2>2. l \in 1 .. n
    <3>1. SUFFICES ASSUME l \notin 1 .. n PROVE FALSE
      OBVIOUS
    <3>2. l - n \in 1 .. m /\ n + (l - n) = l
      BY <1>9, <3>1, Beyond
    <3>3. c[l] = b[l - n] /\ b[l - n] \in ToSet(b)
      BY <1>9, <3>2 DEF ToSet
    <3>4. QED BY <1>7, <1>10, <3>3
  <2>3. k \in 1 .. n + m /\ n \in Nat
    BY <1>9
  <2>4. QED BY <2>1, <2>2, <2>3
<1>11. QED BY <1>3, <1>4, <1>5, <1>8, <1>9, <1>10

LEMMA RetransmitKeeps ==
    ASSUME SessionInv, Retransmit
    PROVE  SessionInv'
<1>1. SessionTypeOK /\ ConnInv /\ IdsInv /\ AnswersTrue
  BY DEF SessionInv
<1>2. UNCHANGED <<outbox, overtaken, calls, checked, result, events, data, toClient, stored, arrived,
                  delivered, granted, sending, breaks, session>>
      /\ state = "CONNECTED"
  BY DEF Retransmit, TaskOnly, brokerVars
<1>3. \/ Write(AgainFor) /\ UNCHANGED <<state, conn>>
      \/ WriteFails /\ Abort
  BY DEF Retransmit
<1>4. CASE WriteFails /\ Abort
  <2>1. QuietStep
    BY <1>1, <1>2, <1>4 DEF WriteFails, Abort, QuietStep, brokerVars, SessionTypeOK, ConnInv, Coming
  <2>2. QED BY <2>1, QuietKeeps
<1>5. CASE Write(AgainFor) /\ UNCHANGED <<state, conn>>
  <2>1. PICK r : r = AgainFor
    OBVIOUS
  <2>2. /\ r \in Seq(Packets)
        /\ \A p \in ToSet(r) :
               \/ \E x \in Kept : x.pending = "TRANSMITTED" /\ p = PacketOf(x)
               \/ \E x \in Kept : x.pending = "ACKNOWLEDGED" /\ p.type = "PUBREL" /\ p.id = x.call
        /\ \A k, l \in DOMAIN r : ~ (r[k].type = "PUBREL" /\ r[l].type = "PUBLISH" /\ k < l)
    BY <1>1, <2>1, AgainForGives
  <2>3. /\ toBroker' \in Seq(Packets) /\ Sent' \subseteq Sent \cup ToSet(r)
        /\ toBroker' \in {toBroker, toBroker \o r}
        /\ conn # "up" => toBroker' = <<>>
    BY <1>1, <1>5, <2>1, <2>2, WriteGives DEF SessionTypeOK, ConnInv
  <2>4. Kept' = Kept /\ \A c : Unanswered(c)' <=> Unanswered(c)
    BY <1>2 DEF Kept, Unanswered
  <2>5. ASSUME NEW p \in ToSet(r)
        PROVE  /\ Writable(p)
               /\ p.type = "PUBLISH" => Unanswered(p.id)
               /\ p.type = "PUBREL" => ~ Unanswered(p.id)
    <3>1. CASE \E x \in Kept : x.pending = "TRANSMITTED" /\ p = PacketOf(x)
      <4>1. PICK x \in Kept : x.pending = "TRANSMITTED" /\ p = PacketOf(x)
        BY <3>1
      <4>2. /\ p.type = x.type /\ p.id = x.call /\ p.qos = x.qos /\ x.type \in Initiators
            /\ OfCall(x.type, x.call, x.qos)
        BY <1>1, <4>1, KeptGives, PacketOfGives DEF Items
      <4>3. QED BY <4>1, <4>2 DEF Writable, Unanswered, Initiators
    <3>2. CASE \E x \in Kept : x.pending = "ACKNOWLEDGED" /\ p.type = "PUBREL" /\ p.id = x.call
      <4>1. PICK x \in Kept : x.pending = "ACKNOWLEDGED" /\ p.type = "PUBREL" /\ p.id = x.call
        BY <3>2
      <4>2. x.call \in Published(2) /\ Held(x.call)
        BY <1>1, <4>1, KeptGives DEF AnswersTrue
      <4>3. ~ Unanswered(x.call)
        BY <1>1, <4>1, KeptOnce DEF Unanswered
      <4>4. QED BY <4>1, <4>2, <4>3 DEF Writable, Initiators
    <3>3. QED BY <2>2, <3>1, <3>2
  <2>6. TaskFrame
    <3>1. SessionTypeOK'
      BY <1>1, <1>2, <1>5, <2>3 DEF SessionTypeOK
    <3>2. \A c \in Calls \ DOMAIN calls : events'[c] = <<>>
      BY <1>1, <1>2 DEF IdsInv
    <3>3. ConnInv' /\ Ordered(outbox)' /\ Coming' = Coming
      BY <1>1, <1>2, <1>5, <2>3 DEF ConnInv, IdsInv, Ordered, Coming
    <3>4. \A m \in Incoming : data'[m] >= data[m]
      BY <1>1, <1>2 DEF SessionTypeOK
    <3>5. QED BY <1>2, <3>1, <3>2, <3>3, <3>4 DEF TaskFrame
  <2>7. \A x \in Kept : Advanced(x, x)
    BY DEF Advanced
  <2>8. /\ IdsInv' /\ AnswersTrue' /\ GivenFirst' /\ AtLeastOnce' /\ NeverTwice'
        /\ EventsInv' /\ EventsTrue'
    BY <1>2, <2>3, <2>4, <2>5, <2>6, <2>7, TaskKeeps
  <2>9. ReleasedLast'
    <3>1. UNCHANGED <<calls, delivered, stored>>
      BY <1>2
    <3>2. \A k, l \in DOMAIN r :
              r[k].type = "PUBREL" /\ r[l].type = "PUBLISH" /\ k < l => r[k].id # r[l].id
      BY <2>2
    <3>3. QED BY <2>2, <2>3, <2>4, <2>5, <3>1, <3>2, WritesReleased
  <2>10. QED BY <2>6, <2>8, <2>9 DEF SessionInv, TaskFrame
<1>6. QED BY <1>3, <1>4, <1>5

----------------------------------------------------------------------------
(* The broker *)

Answerable(q) ==
    /\ q.type = "PUBACK" => q.id \in Published(1) /\ delivered'[q.id] > 0
    /\ q.type = "PUBREC" => q.id \in Published(2) /\ Held(q.id)'
    /\ q.type = "PUBCOMP" => q.id \in Published(2) /\ (session.clean \/ delivered'[q.id] > 0)
    /\ q.type = "PUBREL" => q.id \in Incoming /\ data[q.id] > 0
    /\ q.type \in {"SUBACK", "UNSUBACK"} => q.id \in DOMAIN calls
    /\ q.type = "SUBACK" /\ q.ok => q.id \in granted'
    /\ q.type \notin {"PUBLISH", "SUBSCRIBE", "UNSUBSCRIBE"}

BrokerFrame ==
    /\ UNCHANGED <<state, conn, outbox, result, events, data, calls, checked, overtaken, breaks,
                   session>>
    /\ conn = "up" /\ SessionTypeOK' /\ toBroker # <<>> /\ toBroker' = Tail(toBroker)
    /\ \A q \in Coming' : q \in Coming \/ Answerable(q)
    /\ \A c \in DOMAIN calls : delivered'[c] >= delivered[c] /\ (Held(c) => Held(c)')
    /\ granted \subseteq granted'
    /\ \A m \in Incoming : sending'[m] # sending[m] => sending'[m] = "new" \/ data[m] > 0
    /\ ToSet(arrived') \subseteq DOMAIN calls
    /\ \A c \in Calls \ DOMAIN calls : delivered'[c] = 0 /\ c \notin stored'

LEMMA TakeGives ==
    ASSUME SessionTypeOK, BrokerTakes
    PROVE  /\ Head(toBroker) \in Sent /\ Head(toBroker) \in Packets /\ Head(toBroker) = toBroker[1]
           /\ 1 \in DOMAIN toBroker
           /\ toBroker' \in Seq(Packets) /\ Sent' \subseteq Sent /\ conn = "up" /\ toBroker # <<>>
           /\ toBroker' = Tail(toBroker) /\ Take(Head(toBroker))
           /\ \A k \in DOMAIN toBroker' : k + 1 \in DOMAIN toBroker /\ toBroker'[k] = toBroker[k + 1]
           /\ DOMAIN toBroker' \subseteq Nat \ {0}
           /\ UNCHANGED <<state, conn, outbox, result, events, data, calls, checked, overtaken, breaks,
                          session>>
<1>1. toBroker \in Seq(Packets) /\ toBroker # <<>> /\ toBroker' = Tail(toBroker)
  BY DEF SessionTypeOK, BrokerTakes
<1>2. /\ Tail(toBroker) \in Seq(Packets) /\ Head(toBroker) \in ToSet(toBroker)
      /\ Head(toBroker) \in Packets /\ ToSet(Tail(toBroker)) \subseteq ToSet(toBroker)
      /\ Head(toBroker) = toBroker[1] /\ 1 \in DOMAIN toBroker
      /\ \A k \in DOMAIN Tail(toBroker) :
             k + 1 \in DOMAIN toBroker /\ Tail(toBroker)[k] = toBroker[k + 1]
      /\ DOMAIN Tail(toBroker) = 1 .. Len(toBroker) - 1 /\ Len(toBroker) \in Nat
  BY <1>1, TailGives
<1>3. DOMAIN toBroker' \subseteq Nat \ {0}
  BY <1>1, <1>2
<1>4. QED BY <1>1, <1>2, <1>3 DEF BrokerTakes, clientVars, Sent

LEMMA BrokerKeeps ==
    ASSUME SessionInv, BrokerTakes, BrokerFrame
    PROVE  /\ SessionTypeOK' /\ ConnInv' /\ IdsInv' /\ AnswersTrue' /\ GivenFirst' /\ EventsInv'
           /\ AtLeastOnce' /\ EventsTrue'
<1>1. /\ UNCHANGED <<state, conn, outbox, result, events, data, calls, checked, overtaken, breaks,
                     session>>
      /\ SessionTypeOK' /\ Sent' \subseteq Sent /\ conn = "up"
      /\ \A q \in Coming' : q \in Coming \/ Answerable(q)
      /\ granted \subseteq granted'
      /\ ToSet(arrived') \subseteq DOMAIN calls
      /\ \A c \in Calls \ DOMAIN calls : delivered'[c] = 0 /\ c \notin stored'
  BY TakeGives DEF BrokerFrame, SessionInv
<1>2. /\ Kept' = Kept /\ InOutbox' = InOutbox /\ Ordered(outbox)'
      /\ \A type, id, qos : OfCall(type, id, qos)' <=> OfCall(type, id, qos)
      /\ \A qos : Published(qos)' = Published(qos)
      /\ \A qos : Published(qos) \subseteq DOMAIN calls
  BY <1>1 DEF Kept, InOutbox, Ordered, OfCall, Published, SessionInv, IdsInv
<1>3. \A c \in DOMAIN calls : (delivered[c] > 0 => delivered'[c] > 0) /\ (Held(c) => Held(c)')
  <2>1. ASSUME NEW c \in DOMAIN calls, delivered[c] > 0 PROVE delivered'[c] > 0
    <3>1. c \in Calls
      BY Bounds DEF SessionInv, SessionTypeOK, Calls
    <3>2. delivered[c] \in Nat /\ delivered'[c] \in Nat /\ delivered'[c] >= delivered[c]
      BY <1>1, <3>1 DEF SessionInv, SessionTypeOK, BrokerFrame
    <3>3. QED BY <2>1, <3>2
  <2>2. QED BY <2>1 DEF BrokerFrame
<1>4. \A m \in Incoming : sending'[m] \in {"received", "done"} =>
                              sending'[m] = sending[m] \/ data[m] > 0
  BY DEF BrokerFrame
<1>5. ConnInv'
  BY <1>1 DEF SessionInv, ConnInv
<1>6. IdsInv'
  <2>1. /\ \A item \in Kept' : /\ OfCall(item.type, item.call, item.qos)'
                               /\ item.type # "PUBLISH" => item.pending = "TRANSMITTED"
                               /\ item.pending = "ACKNOWLEDGED" => item.qos = 2
        /\ \A q \in Sent' :
               /\ q.type \in Initiators => OfCall(q.type, q.id, q.qos)'
               /\ q.type = "PUBREL" => q.id \in Published(2)'
               /\ q.type \in {"PUBACK", "PUBREC", "PUBCOMP"} => q.id \in Incoming
               /\ q.type \notin {"SUBACK", "UNSUBACK"}
    BY <1>1, <1>2 DEF SessionInv, IdsInv
  <2>2. ASSUME NEW q \in Coming'
        PROVE  /\ q.type = "PUBACK" => q.id \in Published(1)'
               /\ q.type \in {"PUBREC", "PUBCOMP"} => q.id \in Published(2)'
               /\ q.type \in {"PUBLISH", "PUBREL"} => q.id \in Incoming
               /\ q.type \in {"SUBACK", "UNSUBACK"} => q.id \in DOMAIN calls'
               /\ q.type \notin {"SUBSCRIBE", "UNSUBSCRIBE"}
    <3>1. CASE q \in Coming
      BY <1>1, <1>2, <3>1 DEF SessionInv, IdsInv
    <3>2. CASE Answerable(q)
      BY <1>1, <1>2, <3>2 DEF Answerable
    <3>3. QED BY <1>1, <3>1, <3>2
  <2>3. \A c \in Calls \ DOMAIN calls : events'[c] = <<>>
    BY <1>1 DEF SessionInv, IdsInv
  <2>4. QED BY <1>1, <1>2, <2>1, <2>2, <2>3 DEF IdsInv
<1>7. AnswersTrue'
  <2>1. \A item \in Kept' : item.pending = "ACKNOWLEDGED" => Held(item.call)'
    BY <1>2, <1>3, CallOrder DEF SessionInv, AnswersTrue
  <2>2. \A q \in Sent' : q.type = "PUBREL" => Held(q.id)'
    BY <1>1, <1>2, <1>3 DEF SessionInv, AnswersTrue, IdsInv
  <2>3. ASSUME NEW q \in Coming'
        PROVE  /\ q.type = "PUBACK" => delivered'[q.id] > 0
               /\ q.type = "PUBREC" => Held(q.id)'
               /\ q.type = "PUBCOMP" => session'.clean \/ delivered'[q.id] > 0
               /\ q.type = "SUBACK" /\ q.ok => q.id \in granted'
    <3>1. CASE q \in Coming
      BY <1>1, <1>2, <1>3, <3>1 DEF SessionInv, IdsInv, AnswersTrue
    <3>2. CASE Answerable(q)
      BY <1>1, <3>2 DEF Answerable
    <3>3. QED BY <1>1, <3>1, <3>2
  <2>4. QED BY <2>1, <2>2, <2>3 DEF AnswersTrue
<1>8. GivenFirst'
  BY <1>1, <1>4 DEF SessionInv, GivenFirst, Answerable
<1>9. EventsInv' /\ EventsTrue'
  <2>1. EventsInv'
    BY <1>1, <1>2 DEF SessionInv, EventsInv
  <2>2. EventsTrue'
    BY <1>1, <1>2, <1>3 DEF SessionInv, EventsTrue
  <2>3. QED BY <2>1, <2>2
<1>10. AtLeastOnce'
  <2>1. \A c \in Published(1) \cup (IF session.clean THEN {} ELSE Published(2)) :
            c \in InOutbox \/ delivered'[c] > 0
    BY <1>2, <1>3 DEF SessionInv, AtLeastOnce
  <2>2. ~ session.clean => \A m \in Incoming : sending'[m] = "done" => data[m] > 0
    BY <1>4 DEF SessionInv, AtLeastOnce
  <2>3. QED BY <1>1, <1>2, <2>1, <2>2 DEF AtLeastOnce
<1>11. QED BY <1>1, <1>5, <1>6, <1>7, <1>8, <1>9, <1>10

LEMMA TailReleased ==
    ASSUME SessionInv, BrokerTakes,
           \A c \in Published(2) : Unanswered(c) => delivered'[c] = 0,
           \A c \in Published(2) : delivered'[c] > 0 =>
               c \notin stored' /\ \A q \in Sent' : q.type = "PUBLISH" => q.id # c
    PROVE  ReleasedLast'
<1>1. /\ Sent' \subseteq Sent
      /\ \A k \in DOMAIN toBroker' : k + 1 \in DOMAIN toBroker /\ toBroker'[k] = toBroker[k + 1]
      /\ DOMAIN toBroker' \subseteq Nat \ {0}
      /\ UNCHANGED <<outbox, calls>>
  BY TakeGives DEF SessionInv
<1>2. Published(2)' = Published(2) /\ \A c : Unanswered(c)' <=> Unanswered(c)
  BY <1>1 DEF Published, Unanswered, Kept
<1>3. ASSUME NEW k \in DOMAIN toBroker', NEW l \in DOMAIN toBroker',
             toBroker'[k].type = "PUBREL", toBroker'[l].type = "PUBLISH", k < l
      PROVE  toBroker'[k].id # toBroker'[l].id
  <2>1. k + 1 < l + 1
    BY <1>1, <1>3
  <2>2. QED BY <1>1, <1>3, <2>1 DEF SessionInv, ReleasedLast
<1>4. \A c \in Published(2) :
          Unanswered(c) => delivered'[c] = 0 /\ \A q \in Sent' : q.type = "PUBREL" => q.id # c
  BY <1>1 DEF SessionInv, ReleasedLast
<1>5. QED BY <1>2, <1>3, <1>4 DEF ReleasedLast

\* What the broker gives as an answer, if it gives one.
Answers(q) == toClient' = Append(toClient, q)

LEMMA AnswersGives ==
    ASSUME SessionTypeOK, NEW q \in Packets, Answers(q)
    PROVE  toClient' \in Seq(Packets) /\ Coming' = Coming \cup {q}
BY AppendGives DEF SessionTypeOK, Coming, Answers

LEMMA TakePublishKeeps ==
    ASSUME SessionInv, BrokerTakes, TakePublish(Head(toBroker))
    PROVE  SessionInv'
<1>1. PICK p, id : p = Head(toBroker) /\ id = p.id
  OBVIOUS
<1>2. /\ p \in Sent /\ p \in Packets
      /\ toBroker' \in Seq(Packets) /\ Sent' \subseteq Sent /\ conn = "up" /\ toBroker # <<>>
      /\ toBroker' = Tail(toBroker)
      /\ UNCHANGED <<state, conn, outbox, result, events, data, calls, checked, overtaken, breaks,
                     session>>
  BY <1>1, TakeGives DEF SessionInv
<1>3. /\ p.type = "PUBLISH"
      /\ arrived' = IF Contains(arrived, id) THEN arrived ELSE Append(arrived, id)
      /\ stored' = IF p.qos = 2 THEN stored \cup {id} ELSE stored
      /\ delivered' = IF p.qos = 2 THEN delivered
                      ELSE [delivered EXCEPT ![id] = IF @ < 2 THEN @ + 1 ELSE @]
      /\ UNCHANGED <<granted, sending>>
  BY <1>1 DEF TakePublish
<1>4. PICK type : type = IF p.qos = 1 THEN "PUBACK" ELSE "PUBREC"
  OBVIOUS
<1>5. PICK q : q = Packet(type, id)
  OBVIOUS
<1>6. IF p.qos = 0 THEN toClient' = toClient ELSE Answers(q)
  BY <1>1, <1>4, <1>5 DEF TakePublish, Answer, Answers
<1>7. /\ DOMAIN calls \subseteq Calls /\ id \in DOMAIN calls
      /\ id \in Published(p.qos) /\ \A qos : id \in Published(qos) => qos = p.qos
      /\ p.qos \in {0, 1, 2}
  <2>1. DOMAIN calls \subseteq Calls
    BY Bounds DEF SessionInv, SessionTypeOK, Calls
  <2>2. OfCall("PUBLISH", id, p.qos)
    BY <1>1, <1>2, <1>3 DEF SessionInv, IdsInv, Initiators
  <2>3. p.qos \in 0 .. 2
    BY <1>2 DEF Packets
  <2>4. QED BY <2>1, <2>2, <2>3 DEF OfCall, Published, Messages
<1>8. q \in Packets /\ q.type = type /\ q.id = id
  BY <1>4, <1>5, <1>7, PacketGives DEF Types, Handshakes
<1>9. /\ delivered \in [Calls -> Nat] /\ delivered' \in [Calls -> Nat]
      /\ \A c \in Calls : delivered'[c] >= delivered[c]
      /\ p.qos # 2 => delivered'[id] > 0
      /\ \A c \in Calls : c # id \/ p.qos = 2 => delivered'[c] = delivered[c]
  <2>1. delivered \in [Calls -> Nat] /\ id \in Calls
    BY <1>7 DEF SessionInv, SessionTypeOK
  <2>2. CASE p.qos = 2
    BY <1>3, <2>1, <2>2
  <2>3. CASE p.qos # 2
    <3>1. PICK n : n = IF delivered[id] < 2 THEN delivered[id] + 1 ELSE delivered[id]
      OBVIOUS
    <3>2. n \in Nat /\ n > 0 /\ n >= delivered[id]
      BY <2>1, <3>1
    <3>3. delivered' = [delivered EXCEPT ![id] = n]
      BY <1>3, <2>3, <3>1
    <3>4. QED BY <2>1, <2>3, <3>2, <3>3
  <2>4. QED BY <2>2, <2>3
<1>10. /\ toClient' \in Seq(Packets)
       /\ \A r \in Coming' : r \in Coming \/ Answerable(r)
  <2>1. CASE p.qos = 0
    BY <1>6, <2>1 DEF SessionInv, SessionTypeOK, Coming
  <2>2. CASE p.qos # 0
    <3>1. toClient' \in Seq(Packets) /\ Coming' = Coming \cup {q}
      BY <1>6, <1>8, <2>2, AnswersGives DEF SessionInv
    <3>2. p.qos = 2 => Held(id)'
      BY <1>3 DEF Held
    <3>3. Answerable(q)
      BY <1>4, <1>7, <1>8, <1>9, <2>2, <3>2 DEF Answerable
    <3>4. QED BY <3>1, <3>3
  <2>3. QED BY <2>1, <2>2
<1>11. arrived' \in Seq(Calls) /\ ToSet(arrived') \subseteq DOMAIN calls
  <2>1. arrived \in Seq(Calls) /\ ToSet(arrived) \subseteq DOMAIN calls
    BY DEF SessionInv, SessionTypeOK, IdsInv
  <2>2. Append(arrived, id) \in Seq(Calls) /\ ToSet(Append(arrived, id)) = ToSet(arrived) \cup {id}
    BY <1>7, <2>1, AppendGives
  <2>3. QED BY <1>3, <1>7, <2>1, <2>2
<1>12. stored' \subseteq Calls /\ stored \subseteq stored' /\ stored' \subseteq stored \cup {id}
       /\ (p.qos # 2 => stored' = stored)
  BY <1>3, <1>7 DEF SessionInv, SessionTypeOK
<1>13. SessionTypeOK'
  BY <1>2, <1>3, <1>9, <1>10, <1>11, <1>12 DEF SessionInv, SessionTypeOK
<1>14. BrokerFrame
  <2>1. ASSUME NEW c \in DOMAIN calls, Held(c) PROVE Held(c)'
    <3>1. delivered[c] \in Nat /\ delivered'[c] \in Nat /\ delivered'[c] >= delivered[c]
      BY <1>7, <1>9
    <3>2. QED BY <1>2, <1>12, <2>1, <3>1 DEF Held
  <2>2. \A c \in Calls \ DOMAIN calls : delivered'[c] = 0 /\ c \notin stored'
    BY <1>7, <1>9, <1>12 DEF SessionInv, IdsInv
  <2>3. QED BY <1>2, <1>3, <1>7, <1>9, <1>10, <1>11, <1>13, <2>1, <2>2 DEF BrokerFrame
<1>15. \A c \in Published(2) : c \in Calls /\ delivered'[c] = delivered[c]
  BY <1>7, <1>9 DEF Published
<1>16. ReleasedLast'
  <2>1. \A c \in Published(2) : Unanswered(c) => delivered'[c] = 0
    BY <1>15 DEF SessionInv, ReleasedLast
  <2>2. ASSUME NEW c \in Published(2), delivered'[c] > 0
        PROVE  c \notin stored' /\ \A r \in Sent' : r.type = "PUBLISH" => r.id # c
    <3>1. c \notin stored /\ \A r \in Sent : r.type = "PUBLISH" => r.id # c
      BY <1>15, <2>2 DEF SessionInv, ReleasedLast
    <3>2. QED BY <1>1, <1>2, <1>3, <1>12, <3>1
  <2>3. QED BY <2>1, <2>2, TailReleased
<1>17. NeverTwice'
  <2>1. Published(2)' = Published(2)
    BY <1>2 DEF Published
  <2>2. QED BY <1>15, <2>1 DEF SessionInv, NeverTwice
<1>18. QED BY <1>14, <1>16, <1>17, BrokerKeeps DEF SessionInv

LEMMA TakePubrelKeeps ==
    ASSUME SessionInv, BrokerTakes, TakePubrel(Head(toBroker))
    PROVE  SessionInv'
<1>1. PICK p, id : p = Head(toBroker) /\ id = p.id
  OBVIOUS
<1>2. /\ p \in Sent /\ p \in Packets /\ p = toBroker[1] /\ 1 \in DOMAIN toBroker
      /\ toBroker' \in Seq(Packets) /\ Sent' \subseteq Sent /\ conn = "up" /\ toBroker # <<>>
      /\ toBroker' = Tail(toBroker)
      /\ \A k \in DOMAIN toBroker' : k + 1 \in DOMAIN toBroker /\ toBroker'[k] = toBroker[k + 1]
      /\ DOMAIN toBroker' \subseteq Nat \ {0}
      /\ UNCHANGED <<state, conn, outbox, result, events, data, calls, checked, overtaken, breaks,
                     session>>
  BY <1>1, TakeGives DEF SessionInv
<1>3. PICK q : q = Packet("PUBCOMP", id)
  OBVIOUS
<1>4. /\ p.type = "PUBREL" /\ stored' = stored \ {id}
      /\ delivered' = IF id \in stored THEN [delivered EXCEPT ![id] = @ + 1] ELSE delivered
      /\ Answers(q) /\ UNCHANGED <<arrived, granted, sending>>
  BY <1>1, <1>3 DEF TakePubrel, Answer, Answers
<1>5. /\ DOMAIN calls \subseteq Calls /\ id \in Published(2) /\ id \in DOMAIN calls /\ Held(id)
  <2>1. DOMAIN calls \subseteq Calls
    BY Bounds DEF SessionInv, SessionTypeOK, Calls
  <2>2. id \in Published(2) /\ Held(id)
    BY <1>1, <1>2, <1>4 DEF SessionInv, IdsInv, AnswersTrue
  <2>3. QED BY <2>1, <2>2 DEF Published
<1>6. q \in Packets /\ q.type = "PUBCOMP" /\ q.id = id
  BY <1>3, <1>5, PacketGives DEF Types, Handshakes
<1>7. /\ delivered \in [Calls -> Nat] /\ delivered' \in [Calls -> Nat]
      /\ \A c \in Calls : delivered'[c] >= delivered[c]
      /\ \A c \in Calls : c # id => delivered'[c] = delivered[c]
      /\ id \in stored => delivered'[id] = delivered[id] + 1
      /\ id \notin stored => delivered'[id] = delivered[id]
  <2>1. delivered \in [Calls -> Nat] /\ id \in Calls
    BY <1>5 DEF SessionInv, SessionTypeOK
  <2>2. CASE id \in stored
    <3>1. PICK n : n = delivered[id] + 1
      OBVIOUS
    <3>2. n \in Nat /\ n >= delivered[id] /\ delivered' = [delivered EXCEPT ![id] = n]
      BY <1>4, <2>1, <2>2, <3>1
    <3>3. QED BY <2>1, <2>2, <3>1, <3>2
  <2>3. CASE id \notin stored
    BY <1>4, <2>1, <2>3
  <2>4. QED BY <2>2, <2>3
<1>8. session.clean \/ delivered'[id] > 0
  BY <1>5, <1>7 DEF Held
<1>9. toClient' \in Seq(Packets) /\ Coming' = Coming \cup {q} /\ Answerable(q)
  <2>1. toClient' \in Seq(Packets) /\ Coming' = Coming \cup {q}
    BY <1>4, <1>6, AnswersGives DEF SessionInv
  <2>2. QED BY <1>5, <1>6, <1>8, <2>1 DEF Answerable
<1>10. SessionTypeOK'
  BY <1>2, <1>4, <1>7, <1>9 DEF SessionInv, SessionTypeOK
<1>11. BrokerFrame
  <2>1. ASSUME NEW c \in DOMAIN calls, Held(c) PROVE Held(c)'
    <3>1. CASE c = id
      BY <1>2, <1>8, <3>1 DEF Held
    <3>2. CASE c # id
      BY <1>2, <1>4, <1>5, <1>7, <2>1, <3>2 DEF Held
    <3>3. QED BY <3>1, <3>2
  <2>2. \A c \in Calls \ DOMAIN calls : delivered'[c] = 0 /\ c \notin stored'
    BY <1>4, <1>5, <1>7 DEF SessionInv, IdsInv
  <2>3. ToSet(arrived') \subseteq DOMAIN calls
    BY <1>4 DEF SessionInv, IdsInv
  <2>4. QED BY <1>2, <1>4, <1>5, <1>7, <1>9, <1>10, <2>1, <2>2, <2>3 DEF BrokerFrame
<1>12. \A c \in Published(2) : c \in Calls
  BY <1>5 DEF Published
<1>13. id \in stored => delivered[id] = 0
  BY <1>5, <1>7 DEF SessionInv, ReleasedLast
<1>14. ReleasedLast'
  <2>1. ASSUME NEW c \in Published(2), Unanswered(c) PROVE delivered'[c] = 0
    <3>1. delivered[c] = 0 /\ c # id
      BY <1>1, <1>2, <1>4, <2>1 DEF SessionInv, ReleasedLast
    <3>2. QED BY <1>7, <1>12, <3>1
  <2>2. ASSUME NEW c \in Published(2), delivered'[c] > 0
        PROVE  c \notin stored' /\ \A r \in Sent' : r.type = "PUBLISH" => r.id # c
    <3>1. CASE c = id
      <4>1. ASSUME NEW r \in Sent', r.type = "PUBLISH" PROVE r.id # id
        <5>1. PICK k \in DOMAIN toBroker' : r = toBroker'[k]
          BY <4>1 DEF Sent, ToSet
        <5>2. k + 1 \in DOMAIN toBroker /\ r = toBroker[k + 1] /\ 1 < k + 1
          BY <1>2, <5>1
        <5>3. QED BY <1>1, <1>2, <1>4, <4>1, <5>2 DEF SessionInv, ReleasedLast
      <4>2. QED BY <1>4, <3>1, <4>1
    <3>2. CASE c # id
      <4>1. delivered[c] > 0
        BY <1>7, <1>12, <2>2, <3>2
      <4>2. QED BY <1>2, <1>4, <4>1 DEF SessionInv, ReleasedLast
    <3>3. QED BY <3>1, <3>2
  <2>3. QED BY <2>1, <2>2, TailReleased
<1>15. NeverTwice'
  <2>1. Published(2)' = Published(2)
    BY <1>2 DEF Published
  <2>2. ASSUME NEW c \in Published(2) PROVE delivered'[c] <= 1
    <3>1. CASE c = id /\ id \in stored
      BY <1>7, <1>13, <3>1
    <3>2. CASE ~ (c = id /\ id \in stored)
      BY <1>7, <1>12, <3>2 DEF SessionInv, NeverTwice
    <3>3. QED BY <3>1, <3>2
  <2>3. QED BY <2>1, <2>2 DEF NeverTwice
<1>16. QED BY <1>11, <1>14, <1>15, BrokerKeeps DEF SessionInv

LEMMA OtherTakesKeep ==
    ASSUME SessionInv, BrokerTakes, NEW p, p = Head(toBroker),
           TakeSubscribe(p) \/ TakePubrec(p) \/ TakeFinal(p)
    PROVE  SessionInv'
<1>1. PICK id : id = p.id
  OBVIOUS
<1>2. /\ p \in Sent /\ p \in Packets
      /\ toBroker' \in Seq(Packets) /\ conn = "up" /\ toBroker # <<>> /\ toBroker' = Tail(toBroker)
      /\ Sent' \subseteq Sent
      /\ UNCHANGED <<state, conn, outbox, result, events, data, calls, checked, overtaken, breaks,
                     session>>
  BY TakeGives DEF SessionInv
<1>3. SessionTypeOK /\ IdsInv /\ GivenFirst /\ DOMAIN calls \subseteq Calls
  <2>1. DOMAIN calls \subseteq Calls
    BY Bounds DEF SessionInv, SessionTypeOK, Calls
  <2>2. QED BY <2>1 DEF SessionInv
<1>4. UNCHANGED <<stored, arrived, delivered>>
  BY DEF TakeSubscribe, TakePubrec, TakeFinal
<1>5. /\ toClient' \in Seq(Packets) /\ \A q \in Coming' : q \in Coming \/ Answerable(q)
      /\ granted' \subseteq Calls /\ granted \subseteq granted'
      /\ sending' \in [Incoming -> {"new", "sent", "received", "done"}]
      /\ \A m \in Incoming : sending'[m] # sending[m] => data[m] > 0
  <2>1. CASE TakeSubscribe(p)
    <3>1. p.type \in {"SUBSCRIBE", "UNSUBSCRIBE"} /\ sending' = sending
      BY <2>1 DEF TakeSubscribe
    <3>2. PICK type, packet : /\ type = IF p.type = "SUBSCRIBE" THEN "SUBACK" ELSE "UNSUBACK"
                              /\ packet = Packet(type, id)
      OBVIOUS
    <3>3. PICK ok \in BOOLEAN : /\ granted' = IF ok THEN granted \cup {id} ELSE granted
                                /\ Answers([packet EXCEPT !.ok = ok])
      BY <1>1, <2>1, <3>2 DEF TakeSubscribe, Answer, Answers
    <3>4. id \in DOMAIN calls /\ id \in Calls
      BY <1>1, <1>2, <1>3, <3>1 DEF IdsInv, OfCall, Initiators
    <3>5. packet \in Packets /\ packet.type = type /\ packet.id = id
      BY <3>2, <3>4, PacketGives DEF Types
    <3>6. PICK q : q = [packet EXCEPT !.ok = ok]
      OBVIOUS
    <3>7. q \in Packets /\ q.type = type /\ q.id = id /\ q.ok = ok
      BY <3>5, <3>6 DEF Packets
    <3>8. toClient' \in Seq(Packets) /\ Coming' = Coming \cup {q}
      BY <1>3, <3>3, <3>6, <3>7, AnswersGives
    <3>9. Answerable(q)
      BY <3>2, <3>3, <3>4, <3>7 DEF Answerable
    <3>10. granted' \subseteq Calls /\ granted \subseteq granted'
      BY <1>3, <3>3, <3>4 DEF SessionTypeOK
    <3>11. QED BY <1>3, <3>1, <3>8, <3>9, <3>10 DEF SessionTypeOK
  <2>2. CASE TakePubrec(p)
    <3>1. PICK q : q = Packet("PUBREL", id)
      OBVIOUS
    <3>2. /\ p.type = "PUBREC" /\ granted' = granted /\ Answers(q)
          /\ sending' = [sending EXCEPT ![id] = IF @ = "sent" THEN "received" ELSE @]
      BY <1>1, <2>2, <3>1 DEF TakePubrec, Answer, Answers
    <3>3. id \in Incoming /\ data[id] > 0
      BY <1>1, <1>2, <1>3, <3>2 DEF IdsInv, GivenFirst
    <3>4. q \in Packets /\ q.type = "PUBREL" /\ q.id = id
      BY <3>1, <3>3, PacketGives DEF Types, Handshakes
    <3>5. toClient' \in Seq(Packets) /\ Coming' = Coming \cup {q}
      BY <1>3, <3>2, <3>4, AnswersGives
    <3>6. Answerable(q)
      BY <3>3, <3>4 DEF Answerable
    <3>7. PICK s : s = IF sending[id] = "sent" THEN "received" ELSE sending[id]
      OBVIOUS
    <3>8. /\ sending \in [Incoming -> {"new", "sent", "received", "done"}]
          /\ sending' = [sending EXCEPT ![id] = s] /\ s \in {"new", "sent", "received", "done"}
      BY <1>3, <3>2, <3>3, <3>7 DEF SessionTypeOK
    <3>9. QED BY <1>3, <3>2, <3>3, <3>5, <3>6, <3>8 DEF SessionTypeOK
  <2>3. CASE TakeFinal(p)
    <3>1. /\ p.type \in {"PUBACK", "PUBCOMP"} /\ granted' = granted /\ toClient' = toClient
          /\ sending' = [sending EXCEPT ![id] = "done"]
      BY <1>1, <2>3 DEF TakeFinal
    <3>2. id \in Incoming /\ data[id] > 0
      BY <1>1, <1>2, <1>3, <3>1 DEF IdsInv, GivenFirst
    <3>3. QED BY <1>3, <3>1, <3>2 DEF SessionTypeOK, Coming
  <2>4. QED BY <2>1, <2>2, <2>3
<1>6. SessionTypeOK'
  BY <1>2, <1>3, <1>4, <1>5 DEF SessionTypeOK
<1>7. BrokerFrame
  <2>1. \A c \in DOMAIN calls : delivered'[c] >= delivered[c] /\ (Held(c) => Held(c)')
    BY <1>2, <1>3, <1>4 DEF Held, SessionTypeOK
  <2>2. /\ ToSet(arrived') \subseteq DOMAIN calls
        /\ \A c \in Calls \ DOMAIN calls : delivered'[c] = 0 /\ c \notin stored'
    BY <1>3, <1>4 DEF IdsInv
  <2>3. QED BY <1>2, <1>5, <1>6, <2>1, <2>2 DEF BrokerFrame
<1>8. ReleasedLast'
  BY <1>2, <1>4, TailReleased DEF SessionInv, ReleasedLast
<1>9. NeverTwice'
  BY <1>2, <1>4 DEF SessionInv, NeverTwice, Published
<1>10. QED BY <1>7, <1>8, <1>9, BrokerKeeps DEF SessionInv

LEMMA TakesKeep ==
    ASSUME SessionInv, BrokerTakes
    PROVE  SessionInv'
<1>1. PICK p : p = Head(toBroker)
  OBVIOUS
<1>2. TakePublish(p) \/ TakePubrel(p) \/ TakeSubscribe(p) \/ TakePubrec(p) \/ TakeFinal(p)
  BY <1>1 DEF BrokerTakes, Take
<1>3. QED BY <1>1, <1>2, TakePublishKeeps, TakePubrelKeeps, OtherTakesKeep

----------------------------------------------------------------------------
(* The theorems *)

\* The invariant of the sessions holds of every execution (mqtt_client.c:1387-1528, 1748-1790,
\* 1976-2316): each item, packet and event is that of a call, answers are true, and a message
\* of QoS 2 is released when it is not sent any more.
THEOREM SessionInductiveInvariant == SessionSpec => []SessionInv
<1>1. SessionInit => SessionInv
  <2> SUFFICES ASSUME SessionInit PROVE SessionInv
    OBVIOUS
  <2>1. <<>> \in Seq(Items) /\ <<>> \in Seq(Packets) /\ <<>> \in Seq(Operations) /\ <<>> \in Seq(Calls)
        /\ <<>> \in Seq({"PUBLISHED", "SUBSCRIBED", "SUBSCRIBE_FAILED", "UNSUBSCRIBED"})
        /\ ToSet(<<>>) = {} /\ DOMAIN <<>> = {} /\ Len(<<>>) = 0
    BY DEF ToSet
  <2>2. Kept = {} /\ Sent = {} /\ Coming = {} /\ DOMAIN calls = {} /\ DOMAIN outbox = {}
        /\ DOMAIN toBroker = {} /\ ToSet(arrived) = {}
    BY <2>1 DEF SessionInit, Kept, Sent, Coming
  <2>3. \A qos : Published(qos) = {}
    BY <2>2 DEF Published
  <2>4. SessionTypeOK
    <3>1. Len(calls) <= MAX_CALLS
      BY <2>1, Bounds DEF SessionInit
    <3>2. /\ result \in [Calls -> {"none", "id", "error"}]
          /\ events \in [Calls -> Seq({"PUBLISHED", "SUBSCRIBED", "SUBSCRIBE_FAILED", "UNSUBSCRIBED"})]
          /\ data \in [Incoming -> Nat] /\ sending \in [Incoming -> {"new", "sent", "received", "done"}]
          /\ delivered \in [Calls -> Nat]
      BY <2>1 DEF SessionInit
    <3>3. QED BY <2>1, <3>1, <3>2 DEF SessionInit, SessionTypeOK
  <2>5. ConnInv /\ IdsInv
    BY <2>2 DEF SessionInit, ConnInv, IdsInv, Ordered
  <2>6. AnswersTrue /\ GivenFirst /\ EventsInv
    BY <2>2 DEF SessionInit, AnswersTrue, GivenFirst, EventsInv
  <2>7. AtLeastOnce /\ EventsTrue /\ ReleasedLast /\ NeverTwice
    BY <2>2, <2>3 DEF SessionInit, AtLeastOnce, EventsTrue, ReleasedLast, NeverTwice
  <2>8. QED BY <2>4, <2>5, <2>6, <2>7 DEF SessionInv
<1>2. SessionInv /\ [SessionNext]_sessionVars => SessionInv'
  <2> SUFFICES ASSUME SessionInv, [SessionNext]_sessionVars PROVE SessionInv'
    OBVIOUS
  <2>1. CASE AppCalls
    <3>1. PICK operation, item : CallStep(operation, item)
      BY <2>1, CallGives DEF SessionInv
    <3>2. QED BY <3>1, CallBase, CallRest, CallReleased DEF SessionInv
  <2>2. CASE UNCHANGED sessionVars \/ ReceiveFails \/ Break
             \/ \E operation \in Operations : CheckState(operation)
    BY <2>2, QuietSteps, QuietKeeps DEF SessionInv
  <2>3. CASE Connect
    BY <2>3, ConnectKeeps
  <2>4. CASE ReceivePuback \/ ReceivePubcomp \/ ReceiveSuback \/ ReceiveUnsuback
    BY <2>4, FinishesKeep
  <2>5. CASE ReceivePublish
    BY <2>5, ReceivePublishKeeps
  <2>6. CASE ReceivePubrec
    BY <2>6, ReceivePubrecKeeps
  <2>7. CASE ReceivePubrel
    BY <2>7, ReceivePubrelKeeps
  <2>8. CASE ResendQueued
    BY <2>8, ResendQueuedKeeps
  <2>9. CASE Retransmit
    BY <2>9, RetransmitKeeps
  <2>10. CASE BrokerTakes
    BY <2>10, TakesKeep
  <2>11. CASE BrokerPublishes
    BY <2>11, BrokerPublishesKeeps
  <2>12. QED
    BY <2>1, <2>2, <2>3, <2>4, <2>5, <2>6, <2>7, <2>8, <2>9, <2>10, <2>11
    DEF SessionNext, Task, AppCalls
<1>3. QED BY <1>1, <1>2, PTL DEF SessionSpec

\* A message of QoS 2 is passed on once, however often packets are lost and sent again
\* (mqtt_client.c:1478-1495, 1748-1790).
THEOREM PassedOnOnce == SessionSpec => []NeverTwice
<1>1. SessionInv => NeverTwice
  BY DEF SessionInv
<1>2. QED BY <1>1, SessionInductiveInvariant, PTL

\* No message of QoS 1 or 2 leaves the outbox before the broker passed it on, and none is taken
\* from the broker before the application has it (mqtt_client.c:1426-1495).
THEOREM NoneLost == SessionSpec => []AtLeastOnce
<1>1. SessionInv => AtLeastOnce
  BY DEF SessionInv
<1>2. QED BY <1>1, SessionInductiveInvariant, PTL

\* An event says what the broker did, once for each call (mqtt_client.c:1403-1425, 1463-1528).
THEOREM EventsAreTrue == SessionSpec => []EventsTrue
<1>1. SessionInv => EventsTrue
  BY DEF SessionInv
<1>2. QED BY <1>1, SessionInductiveInvariant, PTL

----------------------------------------------------------------------------
(* The order of messages *)

\* What is written late is overtaken, or was written before; the rest comes last.
LEMMA QueueGrows ==
    ASSUME toBroker \in Seq(Packets), NEW r \in Seq(Packets), toBroker' = toBroker \o r,
           arrived' = arrived, overtaken \subseteq overtaken', QueueInOrder,
           \A k \in DOMAIN r : r[k].type = "PUBLISH" /\ Prompt(r[k].id)' =>
               \/ Written(r[k].id)
               \/ k = 1 /\ \A c \in Calls : Written(c) /\ Prompt(c)' => c < r[k].id
    PROVE  /\ QueueInOrder'
           /\ \A c : Written(c)' <=>
                  Written(c) \/ \E k \in DOMAIN r : r[k].type = "PUBLISH" /\ r[k].id = c
<1>1. PICK n, m : n = Len(toBroker) /\ m = Len(r)
  OBVIOUS
<1>2. /\ n \in Nat /\ m \in Nat
      /\ DOMAIN toBroker = 1 .. n /\ DOMAIN r = 1 .. m /\ DOMAIN toBroker' = 1 .. n + m
      /\ \A k \in 1 .. n : toBroker'[k] = toBroker[k]
      /\ \A k \in 1 .. m : toBroker'[n + k] = r[k]
  BY <1>1, ConcatGives
<1>3. /\ \A k \in 1 .. n : k \in 1 .. n + m
      /\ \A k \in 1 .. m : n + k \in 1 .. n + m /\ n + k \notin 1 .. n
      /\ \A k \in 1 .. n + m : k \notin 1 .. n => k - n \in 1 .. m /\ n + (k - n) = k
  <2>1. \A k \in 1 .. m : n + k \in 1 .. n + m /\ n + k \notin 1 .. n
    BY <1>2
  <2>2. QED BY <1>2, <2>1, Beyond
<1>4. \A k \in 1 .. n : \A c : Publishing(k, c)' <=> Publishing(k, c)
  BY <1>2 DEF Publishing
<1>5. \A k \in 1 .. m : \A c : Publishing(n + k, c)' <=> r[k].type = "PUBLISH" /\ r[k].id = c
  BY <1>2 DEF Publishing
<1>6. ASSUME NEW c
      PROVE  Written(c)' <=> Written(c) \/ \E k \in DOMAIN r : r[k].type = "PUBLISH" /\ r[k].id = c
  <2>1. Written(c)' <=> Contains(arrived, c) \/ \E k \in 1 .. n + m : Publishing(k, c)'
    BY <1>2 DEF Written
  <2>2. (\E k \in 1 .. n + m : Publishing(k, c)')
            <=> (\E k \in 1 .. n : Publishing(k, c)) \/ (\E k \in 1 .. m : Publishing(n + k, c)')
    BY <1>3, <1>4
  <2>3. QED BY <1>2, <1>5, <2>1, <2>2 DEF Written
<1>7. ASSUME NEW l \in 1 .. n + m, NEW d \in Calls,
             Publishing(l, d)', d \notin overtaken', ~ Contains(arrived, d),
             \A k \in 1 .. n + m : k < l => ~ Publishing(k, d)'
      PROVE  /\ \A c \in Calls : Contains(arrived, c) /\ c \notin overtaken' => c < d
             /\ \A k \in 1 .. n + m : \A c \in Calls :
                    k < l /\ Publishing(k, c)' /\ c \notin overtaken' => c < d
  <2>1. \A c : c \notin overtaken' => Prompt(c)
    BY DEF Prompt
  <2>2. CASE l \in 1 .. n
    <3>1. \A k \in 1 .. n + m : k < l => k \in 1 .. n
      BY <1>2, <2>2
    <3>2. /\ Publishing(l, d) /\ Prompt(d) /\ l \in DOMAIN toBroker
          /\ \A k \in DOMAIN toBroker : k < l => ~ Publishing(k, d)
      BY <1>2, <1>3, <1>4, <1>7, <2>1, <2>2
    <3>3. /\ \A c \in Calls : Contains(arrived, c) /\ Prompt(c) => c < d
          /\ \A k \in DOMAIN toBroker : \A c \in Calls : k < l /\ Publishing(k, c) /\ Prompt(c) => c < d
      BY <1>7, <3>2 DEF QueueInOrder
    <3>4. QED BY <1>2, <1>4, <2>1, <3>1, <3>3
  <2>3. CASE l \notin 1 .. n
    <3>1. PICK j : j = l - n
      OBVIOUS
    <3>2. j \in 1 .. m /\ n + j = l
      BY <1>3, <2>3, <3>1
    <3>3. r[j].type = "PUBLISH" /\ r[j].id = d
      BY <1>5, <1>7, <3>2
    <3>4. \A k \in 1 .. n : k < l /\ k \in 1 .. n + m
      BY <1>2, <3>2
    <3>5. ~ Written(d)
      BY <1>2, <1>4, <1>7, <3>4 DEF Written
    <3>6. j = 1 /\ \A c \in Calls : Written(c) /\ Prompt(c)' => c < d
      BY <1>2, <1>7, <3>2, <3>3, <3>5 DEF Prompt
    <3>7. \A k \in 1 .. n + m : k < l => k \in 1 .. n
      BY <1>2, <3>2, <3>6
    <3>8. QED BY <1>2, <1>4, <3>6, <3>7 DEF Written, Prompt
  <2>4. QED BY <2>2, <2>3
<1>8. QueueInOrder'
  BY <1>2, <1>7 DEF QueueInOrder, Prompt
<1>9. QED BY <1>6, <1>8

LEMMA QueueStays ==
    ASSUME toBroker' \in {toBroker, <<>>}, arrived' = arrived, overtaken \subseteq overtaken',
           QueueInOrder
    PROVE  /\ QueueInOrder'
           /\ \A c : Written(c)' => Written(c)
           /\ toBroker' = toBroker => \A c : Written(c) => Written(c)'
<1>1. CASE toBroker' = toBroker
  <2>1. \A k, c : Publishing(k, c)' <=> Publishing(k, c)
    BY <1>1 DEF Publishing
  <2>2. \A c : Written(c)' <=> Written(c)
    BY <1>1, <2>1 DEF Written
  <2>3. QueueInOrder'
    BY <1>1, <2>1 DEF QueueInOrder, Prompt
  <2>4. QED BY <2>2, <2>3
<1>2. CASE toBroker' = <<>> /\ toBroker' # toBroker
  <2>1. DOMAIN toBroker' = {}
    BY <1>2
  <2>2. QED BY <1>2, <2>1 DEF QueueInOrder, Written
<1>3. QED BY <1>1, <1>2

LEMMA ItemsStay ==
    ASSUME ItemsInOrder, overtaken \subseteq overtaken', NEW W,
           \A c \in Calls : Written(c)' => Written(c) \/ c \in W,
           \A y \in Kept' : y.call \in Calls,
           \A y \in Kept' : y.type = "PUBLISH" /\ Prompt(y.call)' /\ y.pending = "QUEUED" =>
               /\ y.call \notin W /\ \A c \in W : Prompt(c)' => c < y.call
               /\ \/ ~ Written(y.call) /\ \A c \in Calls : Written(c) /\ Prompt(c)' => c < y.call
                  \/ \E x \in Kept : x.type = "PUBLISH" /\ x.pending = "QUEUED" /\ x.call = y.call,
           \A y \in Kept' : (y.type = "PUBLISH" /\ Prompt(y.call)' /\ y.pending = "TRANSMITTED"
                                /\ conn' = "up") => Written(y.call)'
    PROVE  ItemsInOrder'
<1>1. \A c : Prompt(c)' => Prompt(c)
  BY DEF Prompt
<1>2. ASSUME NEW y \in Kept', y.type = "PUBLISH", Prompt(y.call)', y.pending = "QUEUED"
      PROVE  ~ Written(y.call)' /\ \A c \in Calls : Written(c)' /\ Prompt(c)' => c < y.call
  <2>1. ~ Written(y.call) /\ \A c \in Calls : Written(c) /\ Prompt(c)' => c < y.call
    <3>1. CASE \E x \in Kept : x.type = "PUBLISH" /\ x.pending = "QUEUED" /\ x.call = y.call
      BY <1>1, <1>2, <3>1 DEF ItemsInOrder
    <3>2. QED BY <1>2, <3>1
  <2>2. QED BY <1>2, <2>1
<1>3. QED BY <1>2 DEF ItemsInOrder

LEMMA WrittenGives ==
    ASSUME SessionTypeOK, IdsInv
    PROVE  /\ DOMAIN calls \subseteq Calls
           /\ \A c : Written(c) => c \in DOMAIN calls
           /\ \A x \in Kept : x.pending = "QUEUED" => x.call \in Unsent
<1>1. DOMAIN calls \subseteq Calls
  BY Bounds DEF SessionTypeOK, Calls
<1>2. ASSUME NEW c, Written(c) PROVE c \in DOMAIN calls
  <2>1. CASE Contains(arrived, c)
    <3>1. arrived \in Seq(Calls) /\ ToSet(arrived) \subseteq DOMAIN calls
      BY DEF SessionTypeOK, IdsInv
    <3>2. QED BY <2>1, <3>1 DEF Contains, ToSet
  <2>2. CASE \E k \in DOMAIN toBroker : Publishing(k, c)
    <3>1. PICK p \in Sent : p.type = "PUBLISH" /\ p.id = c
      BY <2>2 DEF Publishing, Sent, ToSet
    <3>2. QED BY <3>1 DEF IdsInv, OfCall, Initiators
  <2>3. QED BY <1>2, <2>1, <2>2 DEF Written
<1>3. \A x \in Kept : x.pending = "QUEUED" => x.call \in Unsent
  BY DEF Kept, ToSet, Unsent
<1>4. QED BY <1>1, <1>2, <1>3

LEMMA CallsInOrder ==
    ASSUME SessionInv, OrderInv, NEW operation, NEW item, CallStep(operation, item)
    PROVE  OrderInv'
<1>1. /\ Call \in Calls /\ Call \notin DOMAIN calls /\ \A c \in DOMAIN calls : c < Call
  BY CalledGives DEF CallStep, SessionInv, SessionTypeOK
<1>2. PICK p : p = PacketOf(item)
  OBVIOUS
<1>3. PICK r : r = <<p>>
  OBVIOUS
<1>4. /\ p \in Packets /\ p.type = item.type /\ p.id = Call /\ item \in Items
      /\ r \in Seq(Packets) /\ r[1] = p /\ DOMAIN r = {1}
  <2>1. p \in Packets /\ p.type = item.type /\ p.id = Call /\ item \in Items
    BY <1>2, CallWrites DEF SessionInv
  <2>2. r \in Seq(Packets) /\ r[1] = p /\ Len(r) = 1
    BY <1>3, <2>1, OneGives
  <2>3. DOMAIN r = {1}
    BY <2>2
  <2>4. QED BY <2>1, <2>2, <2>3
<1>5. /\ arrived' = arrived /\ overtaken \subseteq overtaken' /\ Kept' \subseteq Kept \cup {item}
      /\ item.pending = "QUEUED" => toBroker' = toBroker
      /\ item.type = "PUBLISH" /\ item.pending = "TRANSMITTED" /\ conn' = "up" =>
             toBroker' = toBroker \o r
      /\ \/ toBroker' = toBroker
         \/ toBroker' = toBroker \o r /\ (item.type = "PUBLISH" => overtaken' = overtaken \cup Unsent)
  BY <1>2, <1>3 DEF CallStep, brokerVars, Marked, KeptOrNot, Made, Connection, Abort, WrittenOrNot
<1>6. item.call = Call /\ (conn' = "up" => conn = "up")
  BY DEF CallStep, Made, Connection, Abort
<1>7. /\ toBroker \in Seq(Packets) /\ toBroker # toBroker \o r
  <2>1. toBroker \in Seq(Packets)
    BY DEF SessionInv, SessionTypeOK
  <2>2. /\ DOMAIN toBroker = 1 .. Len(toBroker) /\ Len(toBroker) \in Nat
        /\ DOMAIN (toBroker \o r) = 1 .. Len(toBroker) + 1
    BY <1>3, <1>4, <2>1, OneMore
  <2>3. Len(toBroker) + 1 \in DOMAIN (toBroker \o r) /\ Len(toBroker) + 1 \notin DOMAIN toBroker
    BY <2>2
  <2>4. QED BY <2>1, <2>3
<1>8. /\ \A c : Written(c) => c \in DOMAIN calls
      /\ \A x \in Kept : x.pending = "QUEUED" => x.call \in Unsent
      /\ \A x \in Kept : x.call \in Calls
  BY WrittenGives, CallOrder DEF SessionInv
<1>9. ItemsInOrder /\ QueueInOrder /\ KeptOrder
  BY DEF OrderInv
<1>10. KeptOrder'
  BY <1>5, <1>9 DEF KeptOrder
<1>11. \A y \in Kept' : y.call \in Calls
  BY <1>1, <1>5, <1>6, <1>8
<1>12. CASE toBroker' = toBroker
  <2>1. QueueInOrder' /\ \A c : Written(c)' <=> Written(c)
    BY <1>5, <1>9, <1>12, QueueStays
  <2>2. ItemsInOrder'
    <3>1. ASSUME NEW y \in Kept', y.type = "PUBLISH", y.pending = "QUEUED"
          PROVE  \/ ~ Written(y.call) /\ \A c \in Calls : Written(c) /\ Prompt(c)' => c < y.call
                 \/ \E x \in Kept : x.type = "PUBLISH" /\ x.pending = "QUEUED" /\ x.call = y.call
      BY <1>1, <1>5, <1>6, <1>8, <3>1
    <3>2. ASSUME NEW y \in Kept', y.type = "PUBLISH", Prompt(y.call)', y.pending = "TRANSMITTED",
                 conn' = "up"
          PROVE  Written(y.call)'
      <4>1. y \in Kept
        BY <1>5, <1>7, <1>12, <3>2
      <4>2. QED BY <1>5, <1>6, <1>9, <2>1, <3>2, <4>1 DEF ItemsInOrder, Prompt
    <3>3. PICK W : W = {}
      OBVIOUS
    <3>4. /\ \A c \in Calls : Written(c)' => Written(c) \/ c \in W
          /\ \A y \in Kept' : y.call \notin W /\ \A c \in W : c < y.call
      BY <2>1, <3>3
    <3>5. QED BY <1>5, <1>9, <1>11, <3>1, <3>2, <3>4, ItemsStay
  <2>3. QED BY <1>10, <2>1, <2>2 DEF OrderInv
<1>13. CASE toBroker' = toBroker \o r /\ (item.type = "PUBLISH" => overtaken' = overtaken \cup Unsent)
  <2> DEFINE W == IF item.type = "PUBLISH" THEN {Call} ELSE {}
  <2>1. /\ QueueInOrder'
        /\ \A c : Written(c)' <=> Written(c) \/ \E k \in DOMAIN r : r[k].type = "PUBLISH" /\ r[k].id = c
    BY <1>1, <1>4, <1>5, <1>7, <1>8, <1>9, <1>13, QueueGrows
  <2>2. \A c : Written(c)' <=> Written(c) \/ c \in W
    BY <1>4, <2>1
  <2>3. ItemsInOrder'
    <3>1. ASSUME NEW y \in Kept', y.type = "PUBLISH", Prompt(y.call)', y.pending = "QUEUED"
          PROVE  W = {} /\ y \in Kept
      <4>1. y \in Kept
        BY <1>5, <1>7, <1>13, <3>1
      <4>2. QED BY <1>8, <1>13, <3>1, <4>1 DEF Prompt
    <3>2. ASSUME NEW y \in Kept', y.type = "PUBLISH", Prompt(y.call)', y.pending = "TRANSMITTED",
                 conn' = "up"
          PROVE  Written(y.call)'
      <4>1. CASE y \in Kept
        BY <1>5, <1>6, <1>9, <2>2, <3>2, <4>1 DEF ItemsInOrder, Prompt
      <4>2. CASE y = item
        BY <1>6, <2>2, <3>2, <4>2
      <4>3. QED BY <1>5, <4>1, <4>2
    <3> HIDE DEF W
    <3>3. QED BY <1>5, <1>9, <1>11, <2>2, <3>1, <3>2, ItemsStay
  <2>4. QED BY <1>10, <2>1, <2>3 DEF OrderInv
<1>14. QED BY <1>5, <1>12, <1>13

\* Steps that write no message for the first time.
LEMMA OthersInOrder ==
    ASSUME SessionInv, OrderInv, arrived' = arrived, overtaken \subseteq overtaken',
           NEW r \in Seq(Packets), toBroker' \in {toBroker, <<>>, toBroker \o r},
           \A k \in DOMAIN r : r[k].type = "PUBLISH" /\ Prompt(r[k].id)' => Written(r[k].id),
           \A y \in Kept' : y.call \in Calls,
           \A y \in Kept' : y.type = "PUBLISH" /\ y.pending = "QUEUED" => y \in Kept,
           \A y \in Kept' : (y.type = "PUBLISH" /\ y.pending = "TRANSMITTED"
                                /\ Prompt(y.call)' /\ conn' = "up") =>
               y \in Kept /\ conn = "up" /\ toBroker' \in {toBroker, toBroker \o r}
    PROVE  OrderInv'
<1>1. ItemsInOrder /\ QueueInOrder /\ KeptOrder /\ toBroker \in Seq(Packets)
  BY DEF OrderInv, SessionInv, SessionTypeOK
<1>2. /\ QueueInOrder' /\ \A c : Written(c)' => Written(c) \/ ~ Prompt(c)'
      /\ toBroker' \in {toBroker, toBroker \o r} => \A c : Written(c) => Written(c)'
  <2>1. CASE toBroker' \in {toBroker, <<>>} /\ ~ (toBroker' = toBroker \o r /\ toBroker' # toBroker)
    BY <1>1, <2>1, QueueStays
  <2>2. CASE toBroker' = toBroker \o r
    BY <1>1, <2>2, QueueGrows
  <2>3. QED BY <2>1, <2>2
<1>3. ItemsInOrder'
  <2>1. PICK W : W = {c \in Calls : ~ Prompt(c)'}
    OBVIOUS
  <2>2. \A c \in Calls : Written(c)' => Written(c) \/ c \in W
    BY <1>2, <2>1
  <2>3. \A y \in Kept' : y.type = "PUBLISH" /\ Prompt(y.call)' /\ y.pending = "QUEUED" =>
            /\ y.call \notin W /\ \A c \in W : Prompt(c)' => c < y.call
            /\ \E x \in Kept : x.type = "PUBLISH" /\ x.pending = "QUEUED" /\ x.call = y.call
    BY <2>1
  <2>4. \A y \in Kept' : (y.type = "PUBLISH" /\ Prompt(y.call)' /\ y.pending = "TRANSMITTED"
                             /\ conn' = "up") => Written(y.call)'
    BY <1>1, <1>2 DEF ItemsInOrder, Prompt
  <2>5. QED BY <1>1, <2>2, <2>3, <2>4, ItemsStay
<1>4. KeptOrder'
  BY <1>1 DEF KeptOrder
<1>5. QED BY <1>2, <1>3, <1>4 DEF OrderInv

LEMMA QuietInOrder ==
    ASSUME SessionInv, OrderInv, QuietStep
    PROVE  OrderInv'
<1>1. /\ arrived' = arrived /\ overtaken' = overtaken /\ Kept' = Kept
  BY DEF QuietStep, brokerVars, Kept
<1>2. conn' = "up" => conn = "up" /\ toBroker' = toBroker
  BY DEF QuietStep
<1>3. \A y \in Kept : y.call \in Calls
  BY CallOrder DEF SessionInv
<1>4. PICK r : r = <<>>
  OBVIOUS
<1>5. r \in Seq(Packets) /\ DOMAIN r = {}
  BY <1>4
<1>6. toBroker' \in {toBroker, <<>>}
  BY DEF QuietStep
<1>7. QED BY <1>1, <1>2, <1>3, <1>5, <1>6, OthersInOrder

LEMMA ConnectInOrder ==
    ASSUME SessionInv, OrderInv, Connect
    PROVE  OrderInv'
<1>1. /\ arrived' = arrived /\ overtaken \subseteq overtaken' /\ Kept' = Kept /\ toBroker' = <<>>
  BY DEF Connect, Kept
<1>2. \A y \in Kept : y.pending # "QUEUED" => y.call \in overtaken'
  BY DEF Connect, Kept, ToSet
<1>3. \A y \in Kept : y.call \in Calls
  BY CallOrder DEF SessionInv
<1>4. PICK r : r = <<>>
  OBVIOUS
<1>5. r \in Seq(Packets) /\ DOMAIN r = {}
  BY <1>4
<1>6. QED BY <1>1, <1>2, <1>3, <1>5, OthersInOrder DEF Prompt

\* The handlers of what is received write no message, and queue none.
Received ==
    \/ ReceivePublish \/ ReceivePuback \/ ReceivePubrec \/ ReceivePubrel \/ ReceivePubcomp
    \/ ReceiveSuback \/ ReceiveUnsuback

LEMMA ReceivedInOrder ==
    ASSUME SessionInv, OrderInv, Received
    PROVE  OrderInv'
<1>1. SessionTypeOK /\ IdsInv /\ outbox \in Seq(Items) /\ Ordered(outbox)
  BY DEF SessionInv, SessionTypeOK, IdsInv
<1>2. arrived' = arrived /\ overtaken' = overtaken
  BY DEF Received, ReceivePublish, ReceivePuback, ReceivePubrec, ReceivePubrel, ReceivePubcomp,
    ReceiveSuback, ReceiveUnsuback, Receive, brokerVars
<1>3. conn' = "up" => conn = "up"
  BY DEF Received, ReceivePublish, ReceivePuback, ReceivePubrec, ReceivePubrel, ReceivePubcomp,
    ReceiveSuback, ReceiveUnsuback, Finished, Abort
<1>4. \A y \in Kept' : /\ y.pending # "ACKNOWLEDGED" => y \in Kept
                       /\ y.call \in Calls
  <2>1. ASSUME NEW initiator, NEW id, NEW event, Finished(initiator, id, event)
        PROVE  Kept' \subseteq Kept
    <3>1. CASE remove_initiator_message(initiator, id)
      <4>1. outbox' = Without(initiator, id)
        BY <2>1, <3>1 DEF Finished
      <4>2. ToSet(Without(initiator, id)) \subseteq Kept
        BY <1>1, <3>1, WithoutGives
      <4>3. QED BY <4>1, <4>2 DEF Kept
    <3>2. CASE ~ remove_initiator_message(initiator, id)
      BY <2>1, <3>2 DEF Finished, Kept
    <3>3. QED BY <3>1, <3>2
  <2>2. CASE ReceivePuback \/ ReceivePubcomp \/ ReceiveSuback \/ ReceiveUnsuback
    BY <1>1, <2>1, <2>2, CallOrder DEF ReceivePuback, ReceivePubcomp, ReceiveSuback, ReceiveUnsuback
  <2>3. CASE ReceivePublish \/ ReceivePubrel
    BY <1>1, <2>3, CallOrder DEF ReceivePublish, ReceivePubrel, Kept
  <2>4. CASE ReceivePubrec
    <3>1. PICK q, id : q = outbox_set_pending(outbox, id, "ACKNOWLEDGED") /\ id = Head(toClient).id
      OBVIOUS
    <3>2. \A y \in ToSet(q) : \E x \in ToSet(outbox) :
              y = IF HasId(x, id) THEN With(x, "ACKNOWLEDGED") ELSE x
      BY <1>1, <3>1, SetPendingGives
    <3>3. Kept' = ToSet(q) /\ Kept = ToSet(outbox)
      BY <2>4, <3>1 DEF ReceivePubrec, Kept
    <3>4. \A x \in Kept : /\ With(x, "ACKNOWLEDGED").pending = "ACKNOWLEDGED"
                          /\ With(x, "ACKNOWLEDGED").call = x.call
      BY <1>1, CallOrder, WithGives
    <3>5. QED BY <1>1, <3>2, <3>3, <3>4, CallOrder
  <2>5. QED BY <2>2, <2>3, <2>4 DEF Received
<1>5. \E r \in Seq(Packets) : /\ toBroker' \in {toBroker, toBroker \o r}
                              /\ \A k \in DOMAIN r : r[k].type # "PUBLISH"
  <2>1. ASSUME NEW type \in Handshakes, NEW id \in Incoming \cup Calls,
               Write(<<Packet(type, id)>>) \/ WriteFails
        PROVE  \E r \in Seq(Packets) : /\ toBroker' \in {toBroker, toBroker \o r}
                                       /\ \A k \in DOMAIN r : r[k].type # "PUBLISH"
    <3>1. PICK p : p = Packet(type, id)
      OBVIOUS
    <3>2. p \in Packets /\ p.type = type
      BY <3>1, PacketGives DEF Types
    <3>3. PICK r : r = <<p>>
      OBVIOUS
    <3>4. r \in Seq(Packets) /\ \A k \in DOMAIN r : r[k] = p
      BY <3>2, <3>3, OneGives
    <3>5. toBroker' \in {toBroker, toBroker \o r}
      BY <2>1, <3>1, <3>3 DEF Write, WriteFails
    <3>6. QED BY <3>2, <3>4, <3>5 DEF Handshakes
  <2>2. CASE ReceivePuback \/ ReceivePubcomp \/ ReceiveSuback \/ ReceiveUnsuback
    <3>1. toBroker' = toBroker
      BY <2>2 DEF ReceivePuback, ReceivePubcomp, ReceiveSuback, ReceiveUnsuback, Finished
    <3>2. <<>> \in Seq(Packets) /\ DOMAIN <<>> = {}
      OBVIOUS
    <3>3. QED BY <3>1, <3>2
  <2>3. PICK id : id = Head(toClient).id
    OBVIOUS
  <2>4. CASE ReceivePublish
    <3>1. PICK type : type = IF Head(toClient).qos = 1 THEN "PUBACK" ELSE "PUBREC"
      OBVIOUS
    <3>2. Write(<<Packet(type, id)>>) \/ WriteFails
      BY <2>3, <2>4, <3>1 DEF ReceivePublish
    <3>3. id \in Incoming \cup Calls
      BY <1>1, <2>3, <2>4, ReceiveGives DEF ReceivePublish, Packets
    <3>4. QED BY <2>1, <3>1, <3>2, <3>3 DEF Handshakes
  <2>5. CASE ReceivePubrec
    <3>1. Write(<<Packet("PUBREL", id)>>) \/ WriteFails
      BY <2>3, <2>5 DEF ReceivePubrec
    <3>2. id \in Incoming \cup Calls
      BY <1>1, <2>3, <2>5, ReceiveGives DEF ReceivePubrec, Packets
    <3>3. QED BY <2>1, <3>1, <3>2 DEF Handshakes
  <2>6. CASE ReceivePubrel
    <3>1. Write(<<Packet("PUBCOMP", id)>>) \/ WriteFails
      BY <2>3, <2>6 DEF ReceivePubrel
    <3>2. id \in Incoming \cup Calls
      BY <1>1, <2>3, <2>6, ReceiveGives DEF ReceivePubrel, Packets
    <3>3. QED BY <2>1, <3>1, <3>2 DEF Handshakes
  <2>7. QED BY <2>2, <2>4, <2>5, <2>6 DEF Received
<1>6. PICK r \in Seq(Packets) : /\ toBroker' \in {toBroker, toBroker \o r}
                                /\ \A k \in DOMAIN r : r[k].type # "PUBLISH"
  BY <1>5
<1>7. QED BY <1>2, <1>3, <1>4, <1>6, OthersInOrder

LEMMA RetransmitInOrder ==
    ASSUME SessionInv, OrderInv, Retransmit
    PROVE  OrderInv'
<1>1. SessionTypeOK /\ ConnInv /\ IdsInv /\ AnswersTrue
  BY DEF SessionInv
<1>2. UNCHANGED <<outbox, overtaken, calls, checked, result, events, data, toClient, stored, arrived,
                  delivered, granted, sending, breaks, session>>
  BY DEF Retransmit, TaskOnly, brokerVars
<1>3. \/ Write(AgainFor) /\ UNCHANGED <<state, conn>>
      \/ WriteFails /\ Abort
  BY DEF Retransmit
<1>4. CASE WriteFails /\ Abort
  <2>1. QuietStep
    BY <1>1, <1>2, <1>4 DEF WriteFails, Abort, QuietStep, brokerVars, SessionTypeOK, ConnInv, Coming
  <2>2. QED BY <2>1, QuietInOrder
<1>5. CASE Write(AgainFor) /\ UNCHANGED <<state, conn>>
  <2>1. Kept' = Kept /\ \A y \in Kept : y.call \in Calls
    BY <1>1, <1>2, CallOrder DEF Kept
  <2>2. CASE conn = "up"
    <3>1. PICK r : r = AgainFor
      OBVIOUS
    <3>2. /\ r \in Seq(Packets)
          /\ \A p \in ToSet(r) :
                 \/ \E x \in Kept : x.pending = "TRANSMITTED" /\ p = PacketOf(x)
                 \/ \E x \in Kept : /\ x.pending = "ACKNOWLEDGED" /\ p.type = "PUBREL"
                                    /\ p.id = x.call
      BY <1>1, <3>1, AgainForGives
    <3>3. toBroker' = toBroker \o r
      BY <1>5, <2>2, <3>1 DEF Write
    <3>4. ASSUME NEW p \in ToSet(r), p.type = "PUBLISH", Prompt(p.id) PROVE Written(p.id)
      <4>1. PICK x \in Kept : x.pending = "TRANSMITTED" /\ p = PacketOf(x)
        BY <3>2, <3>4
      <4>2. p.type = x.type /\ p.id = x.call
        BY <1>1, <4>1, CallOrder, PacketOfGives
      <4>3. QED BY <2>2, <3>4, <4>1, <4>2 DEF OrderInv, ItemsInOrder
    <3>5. \A k \in DOMAIN r : r[k] \in ToSet(r)
      BY <3>2 DEF ToSet
    <3>6. \A k \in DOMAIN r : r[k].type = "PUBLISH" /\ Prompt(r[k].id)' => Written(r[k].id)
      BY <1>2, <3>4, <3>5 DEF Prompt
    <3>7. arrived' = arrived /\ overtaken' = overtaken /\ conn' = conn
      BY <1>2, <1>5
    <3>8. QED BY <2>1, <2>2, <3>2, <3>3, <3>6, <3>7, OthersInOrder
  <2>3. CASE conn # "up"
    <3>1. PICK r : r = <<>>
      OBVIOUS
    <3>2. r \in Seq(Packets) /\ DOMAIN r = {}
      BY <3>1
    <3>3. arrived' = arrived /\ overtaken' = overtaken /\ conn' # "up" /\ toBroker' = toBroker
      BY <1>2, <1>5, <2>3 DEF Write
    <3>4. QED BY <2>1, <3>2, <3>3, OthersInOrder
  <2>4. QED BY <2>2, <2>3
<1>6. QED BY <1>3, <1>4, <1>5

LEMMA BrokerPublishesInOrder ==
    ASSUME SessionInv, OrderInv, BrokerPublishes
    PROVE  OrderInv'
<1>1. UNCHANGED <<conn, outbox, toBroker, arrived, overtaken>>
  BY DEF BrokerPublishes, clientVars
<1>2. Kept' = Kept /\ \A y \in Kept : y.call \in Calls
  BY <1>1, CallOrder DEF Kept, SessionInv
<1>3. PICK r : r = <<>>
  OBVIOUS
<1>4. r \in Seq(Packets) /\ DOMAIN r = {}
  BY <1>3
<1>5. QED BY <1>1, <1>2, <1>4, OthersInOrder

\* What the broker takes has arrived then, and nothing is written by it.
LEMMA TakesInOrder ==
    ASSUME SessionInv, OrderInv, BrokerTakes
    PROVE  OrderInv'
<1>1. PICK p, id : p = Head(toBroker) /\ id = p.id
  OBVIOUS
<1>2. /\ UNCHANGED <<conn, outbox, overtaken>> /\ Take(p) /\ p = toBroker[1]
      /\ toBroker \in Seq(Packets) /\ toBroker # <<>> /\ toBroker' = Tail(toBroker)
      /\ arrived \in Seq(Calls) /\ p \in Sent
  BY <1>1, TakeGives DEF SessionInv, SessionTypeOK
<1>3. /\ 1 \in DOMAIN toBroker
      /\ \A k \in DOMAIN toBroker' : k + 1 \in DOMAIN toBroker /\ toBroker'[k] = toBroker[k + 1]
      /\ \A k \in DOMAIN toBroker :
             k = 1 \/ (k - 1 \in DOMAIN toBroker' /\ toBroker'[k - 1] = toBroker[k])
      /\ \A k \in DOMAIN toBroker : k \in Nat \ {0}
      /\ \A k \in DOMAIN toBroker' : k \in Nat \ {0}
  <2>1. /\ 1 \in DOMAIN toBroker
        /\ \A k \in DOMAIN Tail(toBroker) :
               k + 1 \in DOMAIN toBroker /\ Tail(toBroker)[k] = toBroker[k + 1]
        /\ \A k \in DOMAIN toBroker :
               k = 1 \/ (k - 1 \in DOMAIN Tail(toBroker) /\ Tail(toBroker)[k - 1] = toBroker[k])
        /\ DOMAIN toBroker = 1 .. Len(toBroker) /\ DOMAIN Tail(toBroker) = 1 .. Len(toBroker) - 1
        /\ Len(toBroker) \in Nat
    BY <1>2, TailGives
  <2>2. QED BY <1>2, <2>1
<1>4. \A c : Publishing(1, c) <=> p.type = "PUBLISH" /\ id = c
  BY <1>1, <1>2 DEF Publishing
<1>5. /\ \A k \in DOMAIN toBroker' : \A c : Publishing(k, c)' <=> Publishing(k + 1, c)
      /\ \A k \in DOMAIN toBroker : \A c : k # 1 => (Publishing(k - 1, c)' <=> Publishing(k, c))
  BY <1>3 DEF Publishing
<1>6. \/ p.type = "PUBLISH" /\ ~ Contains(arrived, id) /\ arrived' = Append(arrived, id)
      \/ arrived' = arrived /\ (p.type = "PUBLISH" => Contains(arrived, id))
  BY <1>1, <1>2 DEF Take, TakePublish, TakePubrel, TakeSubscribe, TakePubrec, TakeFinal
<1>7. id \in Calls \/ p.type # "PUBLISH"
  <2>1. DOMAIN calls \subseteq Calls
    BY Bounds DEF SessionInv, SessionTypeOK, Calls
  <2>2. QED BY <1>1, <1>2, <2>1 DEF SessionInv, IdsInv, OfCall, Initiators
<1>8. PICK n : n = Len(arrived)
  OBVIOUS
<1>9. n \in Nat /\ DOMAIN arrived = 1 .. n /\ \A k \in 1 .. n : arrived[k] \in Calls
  BY <1>2, <1>8
<1>10. ASSUME arrived' = Append(arrived, id), id \in Calls
       PROVE  /\ DOMAIN arrived' = 1 .. n + 1 /\ Len(arrived') = n + 1 /\ arrived'[n + 1] = id
              /\ \A k \in 1 .. n : arrived'[k] = arrived[k]
  BY <1>2, <1>8, <1>10, AppendGives
<1>11. \A c : Contains(arrived', c) <=> Contains(arrived, c) \/ Publishing(1, c)
  <2>1. CASE p.type = "PUBLISH" /\ arrived' = Append(arrived, id)
    <3>1. /\ \A k \in 1 .. n + 1 : k \in 1 .. n \/ k = n + 1
          /\ \A k \in 1 .. n : k \in 1 .. n + 1
          /\ n + 1 \in 1 .. n + 1
      BY <1>9
    <3>2. /\ \A c : Contains(arrived', c) <=> \E k \in 1 .. n + 1 : arrived'[k] = c
          /\ \A c : Contains(arrived, c) <=> \E k \in 1 .. n : arrived[k] = c
      BY <1>7, <1>8, <1>10, <2>1 DEF Contains
    <3>3. QED BY <1>4, <1>7, <1>10, <2>1, <3>1, <3>2
  <2>2. CASE arrived' = arrived /\ (p.type = "PUBLISH" => Contains(arrived, id))
    BY <1>4, <2>2
  <2>3. QED BY <1>6, <2>1, <2>2
<1>12. \A c : Written(c)' <=> Written(c)
  <2>1. \A c : (\E k \in DOMAIN toBroker : Publishing(k, c))
                   <=> Publishing(1, c) \/ \E k \in DOMAIN toBroker' : Publishing(k, c)'
    BY <1>3, <1>5
  <2>2. QED BY <1>11, <2>1 DEF Written
<1>13. ItemsInOrder'
  BY <1>2, <1>12 DEF OrderInv, ItemsInOrder, Kept, Prompt
<1>14. ASSUME NEW l \in DOMAIN toBroker', NEW d \in Calls,
              Publishing(l, d)', Prompt(d)', ~ Contains(arrived', d),
              \A k \in DOMAIN toBroker' : k < l => ~ Publishing(k, d)'
       PROVE  /\ \A c \in Calls : Contains(arrived', c) /\ Prompt(c)' => c < d
              /\ \A k \in DOMAIN toBroker' : \A c \in Calls :
                     k < l /\ Publishing(k, c)' /\ Prompt(c)' => c < d
  <2>1. /\ l + 1 \in DOMAIN toBroker /\ Publishing(l + 1, d) /\ 1 < l + 1
        /\ ~ Contains(arrived, d) /\ ~ Publishing(1, d)
    BY <1>3, <1>5, <1>11, <1>14
  <2>2. \A k \in DOMAIN toBroker : k < l + 1 => ~ Publishing(k, d)
    <3>1. ASSUME NEW k \in DOMAIN toBroker, k < l + 1, k # 1 PROVE ~ Publishing(k, d)
      <4>1. k - 1 \in DOMAIN toBroker' /\ k - 1 < l
        BY <1>3, <3>1
      <4>2. QED BY <1>5, <1>14, <3>1, <4>1
    <3>2. QED BY <2>1, <3>1
  <2>3. \A c : Prompt(c)' <=> Prompt(c)
    BY <1>2 DEF Prompt
  <2>4. /\ \A c \in Calls : Contains(arrived, c) /\ Prompt(c) => c < d
        /\ \A k \in DOMAIN toBroker : \A c \in Calls :
               k < l + 1 /\ Publishing(k, c) /\ Prompt(c) => c < d
    BY <1>14, <2>1, <2>2, <2>3 DEF OrderInv, QueueInOrder
  <2>5. \A c \in Calls : Contains(arrived', c) /\ Prompt(c)' => c < d
    BY <1>3, <1>11, <2>1, <2>3, <2>4
  <2>6. ASSUME NEW k \in DOMAIN toBroker', NEW c \in Calls, k < l, Publishing(k, c)', Prompt(c)'
        PROVE  c < d
    <3>1. k + 1 \in DOMAIN toBroker /\ k + 1 < l + 1 /\ Publishing(k + 1, c) /\ Prompt(c)
      BY <1>3, <1>5, <2>3, <2>6
    <3>2. QED BY <2>4, <3>1
  <2>7. QED BY <2>5, <2>6
<1>15. QueueInOrder'
  BY <1>14 DEF QueueInOrder
<1>16. KeptOrder'
  <2>1. CASE p.type = "PUBLISH" /\ ~ Contains(arrived, id) /\ arrived' = Append(arrived, id)
    <3>1. ASSUME Prompt(id) PROVE \A c \in Calls : Contains(arrived, c) /\ Prompt(c) => c < id
      <4>1. \A k \in DOMAIN toBroker : ~ (k < 1)
        BY <1>3
      <4>2. QED BY <1>3, <1>4, <1>7, <2>1, <3>1, <4>1 DEF OrderInv, QueueInOrder
    <3>2. ASSUME NEW i \in 1 .. n + 1, NEW j \in 1 .. n + 1, i < j,
                 arrived'[i] \notin overtaken, arrived'[j] \notin overtaken
          PROVE  arrived'[i] < arrived'[j]
      <4>1. i \in 1 .. n
        BY <1>9, <3>2
      <4>2. CASE j = n + 1
        <5>1. arrived'[j] = id /\ arrived'[i] = arrived[i] /\ arrived[i] \in Calls
          BY <1>7, <1>9, <1>10, <2>1, <4>1, <4>2
        <5>2. Contains(arrived, arrived[i])
          BY <1>8, <4>1 DEF Contains
        <5>3. QED BY <3>1, <3>2, <5>1, <5>2 DEF Prompt
      <4>3. CASE j # n + 1
        <5>1. j \in 1 .. n
          BY <1>9, <4>3
        <5>2. QED BY <1>7, <1>9, <1>10, <2>1, <3>2, <4>1, <5>1 DEF OrderInv, KeptOrder
      <4>4. QED BY <4>2, <4>3
    <3>3. DOMAIN arrived' = 1 .. n + 1
      BY <1>7, <1>10, <2>1
    <3>4. QED BY <1>2, <3>2, <3>3 DEF KeptOrder
  <2>2. CASE arrived' = arrived
    BY <1>2, <2>2 DEF OrderInv, KeptOrder
  <2>3. QED BY <1>6, <2>1, <2>2
<1>17. QED BY <1>13, <1>15, <1>16 DEF OrderInv

\* The oldest item that is queued is the next in order: all that was written comes before it.
LEMMA ResendInOrder ==
    ASSUME SessionInv, OrderInv, ResendQueued
    PROVE  OrderInv'
<1>1. /\ SessionTypeOK /\ ConnInv /\ IdsInv /\ outbox \in Seq(Items) /\ Ordered(outbox)
      /\ toBroker \in Seq(Packets) /\ ItemsInOrder /\ QueueInOrder /\ KeptOrder
  BY DEF SessionInv, SessionTypeOK, IdsInv, OrderInv
<1>2. PICK n, item : n = Pending("QUEUED") /\ item = outbox[n]
  OBVIOUS
<1>3. /\ n \in DOMAIN outbox /\ item \in Kept /\ item.pending = "QUEUED"
      /\ \A x \in Kept : x.pending = "QUEUED" => x = item \/ item.call < x.call
  BY <1>1, <1>2, PendingGives DEF ResendQueued
<1>4. item \in Items /\ item.type = "PUBLISH" /\ item.call \in Calls
  BY <1>1, <1>3, KeptGives, CallOrder
<1>5. /\ UNCHANGED <<calls, checked, result, events, data, toClient, stored, arrived, delivered,
                     granted, sending, breaks, session>>
  BY DEF ResendQueued, TaskOnly, brokerVars
<1>6. PICK p : p = PacketOf(item)
  OBVIOUS
<1>7. p \in Packets /\ p.type = "PUBLISH" /\ p.id = item.call
  BY <1>4, <1>6, PacketOfGives
<1>8. \/ /\ Write(<<p>>)
         /\ outbox' = IF item.qos = 0 THEN RemoveAt(outbox, n)
                      ELSE outbox_set_pending(outbox, item.call, "TRANSMITTED")
         /\ overtaken' = IF conn = "up" THEN overtaken ELSE overtaken \cup {item.call}
         /\ UNCHANGED <<state, conn>>
      \/ WriteFails /\ Abort /\ UNCHANGED <<outbox, overtaken>>
  BY <1>2, <1>6 DEF ResendQueued
<1>9. CASE WriteFails /\ Abort /\ UNCHANGED <<outbox, overtaken>>
  <2>1. QuietStep
    BY <1>1, <1>5, <1>9 DEF WriteFails, Abort, QuietStep, brokerVars, SessionTypeOK, ConnInv, Coming
  <2>2. QED BY <2>1, QuietInOrder
<1>10. CASE /\ Write(<<p>>)
            /\ outbox' = IF item.qos = 0 THEN RemoveAt(outbox, n)
                         ELSE outbox_set_pending(outbox, item.call, "TRANSMITTED")
            /\ overtaken' = IF conn = "up" THEN overtaken ELSE overtaken \cup {item.call}
            /\ UNCHANGED <<state, conn>>
  <2>1. PICK w : w = With(item, "TRANSMITTED")
    OBVIOUS
  <2>2. w.call = item.call /\ w.pending = "TRANSMITTED"
    BY <1>4, <2>1, WithGives
  <2>3. \A y \in Kept' : y \in Kept \ {item} \/ y = w
    BY <1>1, <1>2, <1>3, <1>10, <2>1, ResentGives
  <2>4. /\ \A y \in Kept' : y.call \in Calls
        /\ \A y \in Kept' : y.pending = "QUEUED" =>
               y \in Kept /\ y.call # item.call /\ item.call < y.call
    BY <1>1, <1>3, <1>4, <2>2, <2>3, CallOrder, KeptOnce
  <2>5. arrived' = arrived /\ conn' = conn /\ overtaken \subseteq overtaken'
    BY <1>5, <1>10
  <2>6. CASE conn = "up"
    <3>1. PICK r : r = <<p>>
      OBVIOUS
    <3>2. r \in Seq(Packets) /\ r[1] = p /\ DOMAIN r = {1}
      <4>1. r \in Seq(Packets) /\ r[1] = p /\ Len(r) = 1
        BY <1>7, <3>1, OneGives
      <4>2. QED BY <4>1
    <3>3. toBroker' = toBroker \o r /\ overtaken' = overtaken
      BY <1>10, <2>6, <3>1 DEF Write
    <3>4. Prompt(item.call) => \A c \in Calls : Written(c) /\ Prompt(c)' => c < item.call
      BY <1>1, <1>3, <1>4, <3>3 DEF ItemsInOrder, Prompt
    <3>5. \A k \in DOMAIN r : r[k].type = "PUBLISH" /\ Prompt(r[k].id)' =>
              \/ Written(r[k].id)
              \/ k = 1 /\ \A c \in Calls : Written(c) /\ Prompt(c)' => c < r[k].id
      BY <1>7, <3>2, <3>3, <3>4 DEF Prompt
    <3>6. /\ QueueInOrder'
          /\ \A c : Written(c)' <=>
                 Written(c) \/ \E k \in DOMAIN r : r[k].type = "PUBLISH" /\ r[k].id = c
      BY <1>1, <2>5, <3>2, <3>3, <3>5, QueueGrows
    <3>7. \A c : Written(c)' <=> Written(c) \/ c = item.call
      BY <1>7, <3>2, <3>6
    <3>8. ItemsInOrder'
      <4>1. PICK W : W = {item.call}
        OBVIOUS
      <4>2. \A c \in Calls : Written(c)' => Written(c) \/ c \in W
        BY <3>7, <4>1
      <4>3. \A y \in Kept' : y.type = "PUBLISH" /\ Prompt(y.call)' /\ y.pending = "QUEUED" =>
                /\ y.call \notin W /\ \A c \in W : Prompt(c)' => c < y.call
                /\ \E x \in Kept : x.type = "PUBLISH" /\ x.pending = "QUEUED" /\ x.call = y.call
        BY <2>4, <4>1
      <4>4. \A y \in Kept' : (y.type = "PUBLISH" /\ Prompt(y.call)' /\ y.pending = "TRANSMITTED"
                                 /\ conn' = "up") => Written(y.call)'
        BY <1>1, <2>2, <2>3, <2>6, <3>3, <3>7 DEF ItemsInOrder, Prompt
      <4>5. QED BY <1>1, <2>4, <2>5, <4>2, <4>3, <4>4, ItemsStay
    <3>9. KeptOrder'
      BY <1>1, <2>5, <3>3 DEF KeptOrder
    <3>10. QED BY <3>6, <3>8, <3>9 DEF OrderInv
  <2>7. CASE conn # "up"
    <3>1. PICK r : r = <<>>
      OBVIOUS
    <3>2. r \in Seq(Packets) /\ DOMAIN r = {}
      BY <3>1
    <3>3. conn' # "up" /\ toBroker' = toBroker
      BY <1>10, <2>5, <2>7 DEF Write
    <3>4. QED BY <2>4, <2>5, <3>2, <3>3, OthersInOrder
  <2>8. QED BY <2>6, <2>7
<1>11. QED BY <1>8, <1>9, <1>10

LEMMA OrderStep ==
    ASSUME SessionInv, OrderInv, [SessionNext]_sessionVars
    PROVE  OrderInv'
<1>1. CASE AppCalls
  <2>1. PICK operation, item : CallStep(operation, item)
    BY <1>1, CallGives DEF SessionInv
  <2>2. QED BY <2>1, CallsInOrder
<1>2. CASE UNCHANGED sessionVars \/ ReceiveFails \/ Break
           \/ \E operation \in Operations : CheckState(operation)
  BY <1>2, QuietSteps, QuietInOrder DEF SessionInv
<1>3. CASE Connect
  BY <1>3, ConnectInOrder
<1>4. CASE Received
  BY <1>4, ReceivedInOrder
<1>5. CASE ResendQueued
  BY <1>5, ResendInOrder
<1>6. CASE Retransmit
  BY <1>6, RetransmitInOrder
<1>7. CASE BrokerTakes
  BY <1>7, TakesInOrder
<1>8. CASE BrokerPublishes
  BY <1>8, BrokerPublishesInOrder
<1>9. QED
  BY <1>1, <1>2, <1>3, <1>4, <1>5, <1>6, <1>7, <1>8 DEF SessionNext, Task, AppCalls, Received

\* Messages reach the broker in the order of the calls, but for those that the history marks as
\* overtaken: what was queued when another was written at once, and what a connection that
\* broke took with it (mqtt_client.c:1748-1766, 2160-2316; lib/mqtt_outbox.c:42-65).
THEOREM OrderIsKept == SessionSpec => []KeptOrder
<1>1. SessionInit => OrderInv
  <2> SUFFICES ASSUME SessionInit PROVE OrderInv
    OBVIOUS
  <2>1. ToSet(<<>>) = {} /\ DOMAIN <<>> = {}
    BY DEF ToSet
  <2>2. Kept = {} /\ DOMAIN toBroker = {} /\ DOMAIN arrived = {}
    BY <2>1 DEF SessionInit, Kept
  <2>3. QED BY <2>2 DEF OrderInv, ItemsInOrder, QueueInOrder, KeptOrder
<1>2. SessionInv /\ OrderInv /\ [SessionNext]_sessionVars => OrderInv'
  BY OrderStep
<1>3. OrderInv => KeptOrder
  BY DEF OrderInv
<1>4. QED BY <1>1, <1>2, <1>3, SessionInductiveInvariant, PTL DEF SessionSpec
=============================================================================
