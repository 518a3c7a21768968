--------------------------- MODULE Ingest_proofs ---------------------------
(***************************************************************************)
(* Proofs about Ingest, for every number of windows, of failures and of    *)
(* duplicates, every limit of the broker's queues and every set of payloads *)
(* that the backend refuses or does not survive.                           *)
(***************************************************************************)
EXTENDS Ingest, FiniteSetTheorems, WellFoundedInduction, TLAPS

----------------------------------------------------------------------------
(* The inductive invariant *)

Ids == DOMAIN accepted

TypesOK ==
    /\ accepted \in Seq(Windows) /\ published \in 0 .. MaxWindow
    /\ session \in Seq(Nat) /\ inFlight \in Nat
    /\ link \in BOOLEAN /\ toIngest \in Seq(Nat) /\ toBroker \in Seq(Nat)
    /\ connections \in Nat
    /\ running \in BOOLEAN /\ pc \in {"loop", "store", "return"} /\ msg \in Nat
    /\ rows \in Seq(Windows) /\ logged \subseteq Windows
    /\ duplicates \in Nat /\ breaks \in Nat /\ storeErrors \in Nat

\* The broker forgets ids in their order: how many it has forgotten.
Forgotten == Len(accepted) - Len(session)

\* How many of the rest were handled on this connection, and how many are being handled.
Handled == Forgotten + Len(toBroker)
Busy == IF pc = "loop" THEN 0 ELSE 1

\* On a connection the ids are, one after the other, those acknowledged, the one that
\* on_message works on, those on their way to it and those not sent yet.
IdsInOrder ==
    /\ Len(session) <= Len(accepted)
    /\ \A i \in DOMAIN session : session[i] = Forgotten + i
    /\ ~link => toBroker = <<>> /\ toIngest = <<>>
    /\ ~running => ~link /\ pc = "loop"
    /\ pc # "loop" => msg \in Ids
    /\ link => /\ inFlight = Len(toBroker) + Busy + Len(toIngest)
               /\ inFlight <= Len(session)
               /\ \A i \in DOMAIN toBroker : toBroker[i] = Forgotten + i
               /\ pc # "loop" => msg = Handled + 1
               /\ \A i \in DOMAIN toIngest : toIngest[i] = Handled + Busy + i

Done(n) == Stored(accepted[n]) \/ accepted[n] \in logged

\* Nothing is forgotten, acknowledged or overtaken before it is stored or logged.
DoneInOrder ==
    /\ \A n \in 1 .. Handled : Done(n)
    /\ pc # "loop" => \A n \in 1 .. msg - 1 : Done(n)
    /\ pc = "return" => Done(msg)

\* A row came from an id before which every other had its row or its warning already.
RowsHaveOrigin ==
    \A i \in DOMAIN rows : \E n \in Ids :
        /\ rows[i] = accepted[n]
        /\ \A m \in 1 .. n - 1 : accepted[m] \in logged \/ \E j \in 1 .. i : rows[j] = accepted[m]

\* The copies of w among the first n ids.
CopiesUpto(w, n) == Cardinality({m \in 1 .. n : accepted[m] = w})

\* The ids that may have stored a row on the latest connection.
Current == IF pc = "loop" THEN Handled ELSE IF pc = "store" THEN msg - 1 ELSE msg

\* A connection stores a window once per copy, and the latest one not more than it handled.
RowsCounted ==
    \A w \in Windows :
        IF link \/ pc # "loop"
        THEN /\ connections > 0
             /\ RowsOf(w) <= CopiesOf(w) * (connections - 1) + CopiesUpto(w, Current)
        ELSE RowsOf(w) <= CopiesOf(w) * connections

OrderInv == TypesOK /\ IdsInOrder /\ DoneInOrder /\ RowsHaveOrigin
IngestInv == OrderInv /\ RowsCounted

----------------------------------------------------------------------------
(* Lemmas *)

LEMMA Bounds ==
    /\ MaxWindow \in Nat /\ MaxDuplicates \in Nat /\ MaxBreaks \in Nat /\ MaxStoreErrors \in Nat
    /\ MAX_INFLIGHT \in Nat /\ MAX_QUEUED \in Nat
    /\ Malformed \subseteq Windows /\ Odd \subseteq Windows
BY IngestAssumption

LEMMA Lengths ==
    ASSUME TypesOK
    PROVE  /\ Len(accepted) \in Nat /\ Ids = 1 .. Len(accepted)
           /\ \A n \in Ids : accepted[n] \in Windows
           /\ Len(session) \in Nat /\ DOMAIN session = 1 .. Len(session)
           /\ \A i \in DOMAIN session : session[i] \in Nat
           /\ Len(toBroker) \in Nat /\ DOMAIN toBroker = 1 .. Len(toBroker)
           /\ Len(toIngest) \in Nat /\ DOMAIN toIngest = 1 .. Len(toIngest)
           /\ Len(rows) \in Nat /\ DOMAIN rows = 1 .. Len(rows)
           /\ Busy \in {0, 1} /\ Busy \in Nat /\ Forgotten \in Int /\ Handled \in Int
           /\ inFlight \in Nat /\ msg \in Nat
BY DEF TypesOK, Ids, Busy, Forgotten, Handled

LEMMA Numbers ==
    ASSUME TypesOK
    PROVE  /\ Len(accepted) \in Nat /\ Len(session) \in Nat
           /\ Len(toBroker) \in Nat /\ Len(toIngest) \in Nat /\ Len(rows) \in Nat
           /\ Busy \in Nat /\ Forgotten \in Int /\ Handled \in Int
           /\ inFlight \in Nat /\ msg \in Nat
BY Lengths

LEMMA LeastIsOne ==
    ASSUME NEW S \in SUBSET Nat, 1 \in S, 0 \notin S
    PROVE  Min(S) = 1
<1>1. \A n \in S : n \in Nat /\ 1 <= n
  OBVIOUS
<1>2. \A m \in S : (\A n \in S : m <= n) => m = 1
  BY <1>1
<1>3. QED BY <1>1, <1>2 DEF Min

\* A PUBACK for the oldest id takes that id from the session, and no other.
LEMMA ForgetOldest ==
    ASSUME NEW s \in Seq(Nat), s # <<>>, NEW e, s[1] = e
    PROVE  RemoveFirst(s, e) = Tail(s)
<1> DEFINE I == {i \in 1 .. Len(s) : s[i] = e}
<1>1. Len(s) \in Nat /\ 1 \in 1 .. Len(s)
  OBVIOUS
<1>2. I \in SUBSET Nat /\ 1 \in I /\ 0 \notin I
  BY <1>1
<1>3. Min(I) = 1
  <2> HIDE DEF I
  <2> QED BY <1>2, LeastIsOne
<1>4. RemoveFirst(s, e) = RemoveAt(s, 1)
  <2>1. RemoveFirst(s, e) = RemoveAt(s, IF I # {} THEN Min(I) ELSE 0)
    BY <1>1 DEF RemoveFirst, SelectInSeq
  <2>2. I # {}
    BY <1>2
  <2> HIDE DEF I
  <2> QED BY <1>3, <2>1, <2>2
<1>5. SubSeq(s, 1, 1 - 1) = <<>> /\ SubSeq(s, 1 + 1, Len(s)) = Tail(s)
  BY <1>1
<1>6. Tail(s) \in Seq(Nat)
  OBVIOUS
<1>7. <<>> \o Tail(s) = Tail(s)
  BY <1>6
<1>8. QED BY <1>4, <1>5, <1>7 DEF RemoveAt

\* What the broker took, what is stored and what was warned of is never taken back.
Grows ==
    /\ \A n \in Ids : n \in Ids' /\ accepted'[n] = accepted[n]
    /\ \A i \in DOMAIN rows : i \in DOMAIN rows' /\ rows'[i] = rows[i]
    /\ logged \subseteq logged'

LEMMA DoneStays ==
    ASSUME Grows, NEW n \in Ids, Done(n)
    PROVE  Done(n)'
BY DEF Grows, Done, Stored

\* A row keeps its origin, as long as no row is added.
LEMMA OriginsStay ==
    ASSUME Grows, RowsHaveOrigin, UNCHANGED rows, accepted \in Seq(Windows)
    PROVE  RowsHaveOrigin'
<1>1. SUFFICES ASSUME NEW i \in DOMAIN rows
               PROVE  \E n \in Ids' :
                          /\ rows[i] = accepted'[n]
                          /\ \A m \in 1 .. n - 1 :
                                 accepted'[m] \in logged' \/ \E j \in 1 .. i : rows[j] = accepted'[m]
  BY DEF RowsHaveOrigin
<1>2. PICK n \in Ids :
          /\ rows[i] = accepted[n]
          /\ \A m \in 1 .. n - 1 : accepted[m] \in logged \/ \E j \in 1 .. i : rows[j] = accepted[m]
  BY DEF RowsHaveOrigin
<1>3. \A m \in 1 .. n - 1 : m \in Ids
  BY DEF Ids
<1>4. QED BY <1>2, <1>3 DEF Grows

----------------------------------------------------------------------------
(* The order of ids and of rows *)

\* What was handled on this connection is a part of what the broker took.
LEMMA ToBrokerFits ==
    ASSUME TypesOK, IdsInOrder
    PROVE  /\ Handled \in 0 .. Len(accepted) /\ Forgotten \in 0 .. Handled
           /\ link => Handled + Busy + Len(toIngest) <= Len(accepted)
<1>1. CASE link
  <2>1. /\ inFlight = Len(toBroker) + Busy + Len(toIngest)
        /\ inFlight <= Len(session) /\ Len(session) <= Len(accepted)
    BY <1>1 DEF IdsInOrder
  <2>2. QED BY <2>1, Lengths DEF Handled, Forgotten
<1>2. CASE ~link
  <2>1. Len(toBroker) = 0 /\ Len(session) <= Len(accepted)
    BY <1>2 DEF IdsInOrder
  <2>2. QED BY <1>2, <2>1, Lengths DEF Handled, Forgotten
<1>3. QED BY <1>1, <1>2

LEMMA InitOrder == Init => OrderInv
<1> SUFFICES ASSUME Init PROVE OrderInv
  OBVIOUS
<1>1. TypesOK
  <2>1. 0 \in 0 .. MaxWindow
    BY Bounds
  <2>2. <<>> \in Seq(Windows) /\ <<>> \in Seq(Nat)
    OBVIOUS
  <2>3. QED BY <2>1, <2>2 DEF Init, TypesOK, NoMessage
<1>2. IdsInOrder /\ DoneInOrder /\ RowsHaveOrigin
  BY DEF Init, IdsInOrder, DoneInOrder, RowsHaveOrigin, Forgotten, Handled
<1>3. QED BY <1>1, <1>2 DEF OrderInv

\* The broker takes a message, or has no room for it.
LEMMA AcceptKeeps ==
    ASSUME OrderInv, NEW w \in Windows, Accept(w), published' \in 0 .. MaxWindow,
           duplicates' \in Nat, UNCHANGED <<inFlight, linkVars, processVars, dbVars, breaks>>
    PROVE  OrderInv'
<1> USE DEF linkVars, processVars, dbVars
<1>1. TypesOK /\ IdsInOrder /\ DoneInOrder /\ RowsHaveOrigin
  BY DEF OrderInv
<1>2. TypesOK'
  <2>1. Append(accepted, w) \in Seq(Windows) /\ Append(session, Len(accepted) + 1) \in Seq(Nat)
    BY <1>1 DEF TypesOK
  <2>2. accepted' \in Seq(Windows) /\ session' \in Seq(Nat)
    BY <1>1, <2>1 DEF Accept, TypesOK
  <2>3. QED BY <1>1, <2>2 DEF TypesOK
<1>3. CASE UNCHANGED <<accepted, session>>
  <2>1. IdsInOrder' /\ DoneInOrder' /\ RowsHaveOrigin'
    BY <1>1, <1>3 DEF IdsInOrder, DoneInOrder, RowsHaveOrigin, Ids, Forgotten, Handled, Busy,
       Done, Stored
  <2>2. QED BY <1>2, <2>1 DEF OrderInv
<1>4. CASE accepted' = Append(accepted, w) /\ session' = Append(session, Len(accepted) + 1)
  <2>1. /\ Len(accepted') = Len(accepted) + 1 /\ Len(session') = Len(session) + 1
        /\ Forgotten' = Forgotten /\ Handled' = Handled /\ Busy' = Busy
        /\ Ids \subseteq Ids'
    BY <1>1, <1>4, SMTT(30) DEF TypesOK, Forgotten, Handled, Busy, Ids
  <2>2. Grows
    BY <1>1, <1>4 DEF TypesOK, Grows, Ids
  <2>3. IdsInOrder'
    <3>1. \A i \in DOMAIN session' : session'[i] = Forgotten + i
      <4>1. /\ DOMAIN session' = 1 .. Len(session) + 1
            /\ \A i \in 1 .. Len(session) : session'[i] = session[i]
            /\ session'[Len(session) + 1] = Len(accepted) + 1
        BY <1>1, <1>4 DEF TypesOK
      <4>2. Forgotten + (Len(session) + 1) = Len(accepted) + 1
        BY <1>1, Lengths DEF Forgotten
      <4>3. QED BY <1>1, <4>1, <4>2, Lengths, SMTT(30) DEF IdsInOrder
    <3>2. link => inFlight <= Len(session')
      BY <1>1, <2>1 DEF TypesOK, IdsInOrder
    <3>3. QED BY <1>1, <2>1, <3>1, <3>2 DEF TypesOK, IdsInOrder
  <2>4. DoneInOrder'
    <3>1. \A n \in 1 .. Handled : n \in Ids
      BY <1>1, ToBrokerFits, Lengths DEF IdsInOrder
    <3>2. pc # "loop" => \A n \in 1 .. msg : n \in Ids
      BY <1>1 DEF TypesOK, IdsInOrder, Ids
    <3>3. \A n \in Ids : Done(n) => Done(n)'
      BY <2>2, DoneStays
    <3>4. pc # "loop" => msg \in 1 .. msg /\ \A n \in 1 .. msg - 1 : n \in 1 .. msg
      BY <1>1 DEF TypesOK, IdsInOrder, Ids
    <3> QED BY <1>1, <2>1, <3>1, <3>2, <3>3, <3>4 DEF DoneInOrder
  <2>5. RowsHaveOrigin'
    BY <1>1, <2>2, OriginsStay DEF TypesOK
  <2>6. QED BY <1>2, <2>3, <2>4, <2>5 DEF OrderInv
<1>5. QED BY <1>3, <1>4 DEF Accept

LEMMA DevicePublishesKeeps == OrderInv /\ DevicePublishes => OrderInv'
<1> SUFFICES ASSUME OrderInv, DevicePublishes PROVE OrderInv'
  OBVIOUS
<1>1. published + 1 \in Windows /\ published' \in 0 .. MaxWindow /\ duplicates' \in Nat
  BY Bounds DEF OrderInv, TypesOK, DevicePublishes, Windows
<1>2. QED BY <1>1, AcceptKeeps DEF DevicePublishes

LEMMA DeviceRetransmitsKeeps == OrderInv /\ DeviceRetransmits => OrderInv'
<1> SUFFICES ASSUME OrderInv, DeviceRetransmits PROVE OrderInv'
  OBVIOUS
<1>1. PICK w \in 1 .. published : Accept(w)
  BY DEF DeviceRetransmits
<1>2. w \in Windows /\ published' \in 0 .. MaxWindow /\ duplicates' \in Nat
  BY Bounds DEF OrderInv, TypesOK, DeviceRetransmits, Windows
<1>3. QED BY <1>1, <1>2, AcceptKeeps DEF DeviceRetransmits

LEMMA BrokerSendsKeeps == OrderInv /\ BrokerSends => OrderInv'
<1> SUFFICES ASSUME OrderInv, BrokerSends PROVE OrderInv'
  OBVIOUS
<1> USE DEF processVars, dbVars
<1>1. TypesOK /\ IdsInOrder /\ DoneInOrder /\ RowsHaveOrigin
  BY DEF OrderInv
<1>2. /\ link /\ inFlight + 1 \in DOMAIN session
      /\ session[inFlight + 1] \in Nat
      /\ session[inFlight + 1] = Handled + Busy + (Len(toIngest) + 1)
  <2>1. /\ link /\ inFlight < Len(session)
        /\ inFlight = Len(toBroker) + Busy + Len(toIngest)
    BY <1>1 DEF BrokerSends, IdsInOrder
  <2>2. inFlight + 1 \in DOMAIN session
    BY <1>1, <2>1, Lengths
  <2>3. session[inFlight + 1] \in Nat /\ session[inFlight + 1] = Forgotten + (inFlight + 1)
    BY <1>1, <2>2, Lengths DEF IdsInOrder
  <2>4. Forgotten + (inFlight + 1) = Handled + Busy + (Len(toIngest) + 1)
    <3>1. PICK f \in Int, tb \in Nat, b \in Nat, ti \in Nat :
              f = Forgotten /\ tb = Len(toBroker) /\ b = Busy /\ ti = Len(toIngest)
      BY <1>1, Numbers
    <3>2. f + ((tb + b + ti) + 1) = (f + tb) + b + (ti + 1)
      OBVIOUS
    <3>3. QED BY <2>1, <3>1, <3>2 DEF Handled
  <2>5. QED BY <2>1, <2>2, <2>3, <2>4
<1>3. TypesOK'
  BY <1>1, <1>2 DEF BrokerSends, TypesOK
<1>4. IdsInOrder'
  <2>1. /\ Forgotten' = Forgotten /\ Handled' = Handled /\ Busy' = Busy /\ Ids' = Ids
    BY DEF BrokerSends, Forgotten, Handled, Busy, Ids
  <2>2. /\ DOMAIN toIngest' = 1 .. Len(toIngest) + 1 /\ Len(toIngest') = Len(toIngest) + 1
        /\ \A i \in 1 .. Len(toIngest) : toIngest'[i] = toIngest[i]
        /\ toIngest'[Len(toIngest) + 1] = session[inFlight + 1]
    BY <1>1, <1>2 DEF BrokerSends, TypesOK
  <2>3. \A i \in DOMAIN toIngest' : toIngest'[i] = Handled + Busy + i
    <3>1. \A i \in 1 .. Len(toIngest) : toIngest[i] = Handled + Busy + i
      BY <1>1, <1>2, Lengths DEF IdsInOrder
    <3>2. Len(toIngest) \in Nat
      BY <1>1, Numbers
    <3>3. SUFFICES ASSUME NEW i \in 1 .. Len(toIngest) + 1
                   PROVE  toIngest'[i] = Handled + Busy + i
      BY <2>2
    <3>4. CASE i = Len(toIngest) + 1
      BY <1>2, <2>2, <3>4
    <3>5. CASE i # Len(toIngest) + 1
      <4>1. i \in 1 .. Len(toIngest)
        BY <3>2, <3>5
      <4>2. QED BY <2>2, <3>1, <4>1
    <3>6. QED BY <3>4, <3>5
  <2>4. inFlight' = Len(toBroker) + Busy + Len(toIngest') /\ inFlight' <= Len(session)
    <3>1. /\ inFlight' = inFlight + 1 /\ inFlight < Len(session)
          /\ inFlight = Len(toBroker) + Busy + Len(toIngest)
      BY <1>1 DEF BrokerSends, IdsInOrder
    <3>2. QED BY <1>1, <2>2, <3>1, Lengths
  <2>5. UNCHANGED <<accepted, session, link, toBroker, running, pc, msg>>
    BY DEF BrokerSends
  <2>6. QED BY <1>1, <1>2, <2>1, <2>3, <2>4, <2>5 DEF IdsInOrder
<1>5. DoneInOrder' /\ RowsHaveOrigin'
  BY <1>1 DEF BrokerSends, DoneInOrder, RowsHaveOrigin, Forgotten, Handled, Ids, Done, Stored
<1>6. QED BY <1>3, <1>4, <1>5 DEF OrderInv

\* The broker forgets the oldest id, which is the oldest PUBACK as well.
LEMMA ForgetsOldest ==
    ASSUME TypesOK, IdsInOrder, BrokerForgets
    PROVE  /\ link /\ toBroker # <<>> /\ session # <<>>
           /\ Len(session') = Len(session) - 1 /\ Len(toBroker') = Len(toBroker) - 1
           /\ DOMAIN session' = 1 .. Len(session) - 1
           /\ \A i \in 1 .. Len(session) - 1 : session'[i] = session[i + 1]
           /\ DOMAIN toBroker' = 1 .. Len(toBroker) - 1
           /\ \A i \in 1 .. Len(toBroker) - 1 : toBroker'[i] = toBroker[i + 1]
           /\ Len(session) \in Nat \ {0} /\ Len(toBroker) \in Nat \ {0}
           /\ session' \in Seq(Nat) /\ toBroker' \in Seq(Nat)
           /\ Forgotten' = Forgotten + 1 /\ Handled' = Handled
<1>1. /\ link /\ session # <<>> /\ session \in Seq(Nat)
      /\ toBroker # <<>> /\ toBroker \in Seq(Nat) /\ session[1] = Head(toBroker)
  <2>1. toBroker # <<>> /\ link /\ session \in Seq(Nat) /\ toBroker \in Seq(Nat)
    BY DEF BrokerForgets, TypesOK, IdsInOrder
  <2>2. Len(toBroker) > 0 /\ 1 \in DOMAIN toBroker /\ toBroker[1] = Head(toBroker)
    BY <2>1
  <2>3. Len(session) > 0
    BY <2>1, <2>2, Lengths DEF IdsInOrder
  <2>4. session # <<>> /\ 1 \in DOMAIN session
    BY <2>1, <2>3
  <2>5. session[1] = toBroker[1]
    BY <2>1, <2>2, <2>4 DEF IdsInOrder
  <2>6. QED BY <2>1, <2>2, <2>4, <2>5
<1>2. session' = Tail(session) /\ toBroker' = Tail(toBroker)
  BY <1>1, ForgetOldest DEF BrokerForgets
<1>3. /\ Len(session') = Len(session) - 1 /\ Len(toBroker') = Len(toBroker) - 1
      /\ DOMAIN session' = 1 .. Len(session) - 1
      /\ \A i \in 1 .. Len(session) - 1 : session'[i] = session[i + 1]
      /\ DOMAIN toBroker' = 1 .. Len(toBroker) - 1
      /\ \A i \in 1 .. Len(toBroker) - 1 : toBroker'[i] = toBroker[i + 1]
      /\ Len(session) \in Nat \ {0} /\ Len(toBroker) \in Nat \ {0}
      /\ session' \in Seq(Nat) /\ toBroker' \in Seq(Nat)
  BY <1>1, <1>2
<1>4. Forgotten' = Forgotten + 1 /\ Handled' = Handled
  <2>1. PICK a \in Nat, n \in Nat, tb \in Nat :
            a = Len(accepted) /\ n = Len(session) /\ tb = Len(toBroker)
    BY Numbers
  <2>2. accepted' = accepted
    BY DEF BrokerForgets
  <2>3. /\ Forgotten = a - n /\ Forgotten' = a - (n - 1)
        /\ Handled = (a - n) + tb /\ Handled' = (a - (n - 1)) + (tb - 1)
    BY <1>3, <2>1, <2>2 DEF Forgotten, Handled
  <2>4. QED BY <2>3
<1>5. QED BY <1>1, <1>3, <1>4

LEMMA BrokerForgetsKeeps == OrderInv /\ BrokerForgets => OrderInv'
<1> SUFFICES ASSUME OrderInv, BrokerForgets PROVE OrderInv'
  OBVIOUS
<1> USE DEF processVars, dbVars
<1>1. TypesOK /\ IdsInOrder /\ DoneInOrder /\ RowsHaveOrigin
  BY DEF OrderInv
<1>2. link /\ toBroker # <<>> /\ session # <<>>
  BY <1>1, ForgetsOldest
<1>3. /\ Len(session') = Len(session) - 1 /\ Len(toBroker') = Len(toBroker) - 1
      /\ DOMAIN session' = 1 .. Len(session) - 1
      /\ \A i \in 1 .. Len(session) - 1 : session'[i] = session[i + 1]
      /\ DOMAIN toBroker' = 1 .. Len(toBroker) - 1
      /\ \A i \in 1 .. Len(toBroker) - 1 : toBroker'[i] = toBroker[i + 1]
      /\ Len(session) \in Nat \ {0} /\ Len(toBroker) \in Nat \ {0}
      /\ session' \in Seq(Nat) /\ toBroker' \in Seq(Nat)
  BY <1>1, ForgetsOldest
<1>4. UNCHANGED <<accepted, published, link, toIngest, connections, running, pc, msg, rows, logged, breaks,
                  duplicates, storeErrors>>
      /\ inFlight' = inFlight - 1
  BY DEF BrokerForgets
<1>5. Forgotten' = Forgotten + 1 /\ Handled' = Handled /\ Busy' = Busy /\ Ids' = Ids
  BY <1>1, <1>4, ForgetsOldest DEF Busy, Ids
<1>6. TypesOK'
  <2>1. inFlight = Len(toBroker) + Busy + Len(toIngest)
    BY <1>1, <1>2 DEF IdsInOrder
  <2>2. inFlight' \in Nat
    <3>1. PICK tb \in Nat, b \in Nat, ti \in Nat :
              tb = Len(toBroker) /\ b = Busy /\ ti = Len(toIngest)
      BY <1>1, Numbers
    <3>2. tb # 0 /\ inFlight' = (tb + b + ti) - 1
      BY <1>3, <1>4, <2>1, <3>1
    <3>3. QED BY <3>2
  <2>3. QED BY <1>1, <1>3, <1>4, <2>2 DEF TypesOK, BrokerForgets
<1>7. IdsInOrder'
  <2>1. \A i \in DOMAIN session' : session'[i] = Forgotten + 1 + i
    <3>1. \A i \in DOMAIN session' : i + 1 \in DOMAIN session /\ session'[i] = session[i + 1]
      <4>1. \A i \in 1 .. Len(session) - 1 : i + 1 \in 1 .. Len(session)
        BY <1>3
      <4>2. DOMAIN session = 1 .. Len(session)
        BY <1>1, Lengths
      <4>3. QED BY <1>3, <4>1, <4>2, Zenon
    <3>2. \A i \in DOMAIN session' : session'[i] = Forgotten + (i + 1)
      BY <1>1, <3>1 DEF IdsInOrder
    <3>3. QED BY <1>1, <1>3, <3>2, Lengths
  <2>2. \A i \in DOMAIN toBroker' : toBroker'[i] = Forgotten + 1 + i
    <3>1. \A i \in DOMAIN toBroker' : i + 1 \in DOMAIN toBroker /\ toBroker'[i] = toBroker[i + 1]
      <4>1. \A i \in 1 .. Len(toBroker) - 1 : i + 1 \in 1 .. Len(toBroker)
        BY <1>3
      <4>2. DOMAIN toBroker = 1 .. Len(toBroker)
        BY <1>1, Lengths
      <4>3. QED BY <1>3, <4>1, <4>2, Zenon
    <3>2. \A i \in DOMAIN toBroker' : toBroker'[i] = Forgotten + (i + 1)
      BY <1>1, <1>2, <3>1 DEF IdsInOrder
    <3>3. QED BY <1>1, <1>3, <3>2, Lengths
  <2>3. /\ Len(session') <= Len(accepted)
        /\ inFlight' = Len(toBroker') + Busy + Len(toIngest)
        /\ inFlight' <= Len(session')
    BY <1>1, <1>2, <1>3, <1>4 DEF TypesOK, IdsInOrder, Busy
  <2>4. QED BY <1>1, <1>2, <1>4, <1>5, <2>1, <2>2, <2>3 DEF IdsInOrder
<1>8. DoneInOrder' /\ RowsHaveOrigin'
  BY <1>1, <1>4, <1>5 DEF DoneInOrder, RowsHaveOrigin, Done, Stored
<1>9. QED BY <1>6, <1>7, <1>8 DEF OrderInv

LEMMA OnConnectKeeps == OrderInv /\ OnConnect => OrderInv'
<1> SUFFICES ASSUME OrderInv, OnConnect PROVE OrderInv'
  OBVIOUS
<1> USE DEF processVars, dbVars
<1>1. TypesOK /\ IdsInOrder /\ DoneInOrder /\ RowsHaveOrigin
  BY DEF OrderInv
<1>2. TypesOK'
  BY <1>1 DEF OnConnect, TypesOK
<1>3. IdsInOrder'
  <2>1. Len(toBroker) = 0 /\ Len(toIngest) = 0 /\ DOMAIN toBroker = {} /\ DOMAIN toIngest = {}
    BY <1>1 DEF OnConnect, TypesOK, IdsInOrder
  <2>2. QED BY <1>1, <2>1 DEF OnConnect, TypesOK, IdsInOrder, Forgotten, Busy, Ids
<1>4. DoneInOrder' /\ RowsHaveOrigin'
  BY <1>1 DEF OnConnect, DoneInOrder, RowsHaveOrigin, Forgotten, Handled, Ids, Done, Stored
<1>5. QED BY <1>2, <1>3, <1>4 DEF OrderInv

\* on_message takes the oldest id that was sent.
LEMMA OnMessageKeeps == OrderInv /\ OnMessage => OrderInv'
<1> SUFFICES ASSUME OrderInv, OnMessage PROVE OrderInv'
  OBVIOUS
<1>1. TypesOK /\ IdsInOrder /\ DoneInOrder /\ RowsHaveOrigin
  BY DEF OrderInv
<1>2. /\ pc = "loop" /\ running /\ toIngest # <<>> /\ toIngest \in Seq(Nat)
      /\ msg' = Head(toIngest) /\ toIngest' = Tail(toIngest)
      /\ pc' \in {"store", "return"} /\ logged \subseteq logged'
      /\ pc' = "return" => accepted[msg'] \in logged'
      /\ logged' = logged \/ (logged' = logged \cup {accepted[msg']} /\ accepted[msg'] \in Malformed)
      /\ UNCHANGED <<accepted, session, inFlight, link, toBroker, connections, running, rows>>
  BY <1>1 DEF OnMessage, TypesOK, brokerVars
<1>3. /\ Len(toIngest) \in Nat \ {0} /\ 1 \in DOMAIN toIngest /\ toIngest[1] = Head(toIngest)
      /\ Len(toIngest') = Len(toIngest) - 1 /\ DOMAIN toIngest' = 1 .. Len(toIngest) - 1
      /\ \A i \in 1 .. Len(toIngest) - 1 : toIngest'[i] = toIngest[i + 1]
      /\ toIngest' \in Seq(Nat) /\ msg' \in Nat
  BY <1>2
<1>4. link /\ Busy = 0 /\ Busy' = 1 /\ Forgotten' = Forgotten /\ Handled' = Handled /\ Ids' = Ids
  BY <1>1, <1>2 DEF IdsInOrder, Busy, Forgotten, Handled, Ids
<1>5. msg' = Handled + 1
  <2>1. msg' = Handled + Busy + 1
    BY <1>1, <1>2, <1>3, <1>4 DEF IdsInOrder
  <2>2. QED BY <1>1, <1>4, <2>1, Numbers
<1>6. msg' \in Ids
  <2>1. Handled \in Nat /\ Handled + Busy + Len(toIngest) <= Len(accepted)
    BY <1>1, <1>4, ToBrokerFits
  <2>2. QED BY <1>1, <1>3, <1>4, <1>5, <2>1, Lengths
<1>7. TypesOK'
  <2>1. accepted[msg'] \in Windows
    BY <1>1, <1>6, Lengths
  <2>2. QED BY <1>1, <1>2, <1>3, <2>1 DEF TypesOK, OnMessage, brokerVars
<1>8. IdsInOrder'
  <2>1. \A i \in DOMAIN toIngest' : toIngest'[i] = Handled + Busy' + i
    <3>1. \A i \in DOMAIN toIngest' : i + 1 \in DOMAIN toIngest /\ toIngest'[i] = toIngest[i + 1]
      <4>1. \A i \in 1 .. Len(toIngest) - 1 : i + 1 \in 1 .. Len(toIngest)
        BY <1>3
      <4>2. DOMAIN toIngest = 1 .. Len(toIngest)
        BY <1>1, Lengths
      <4>3. QED BY <1>3, <4>1, <4>2, Zenon
    <3>2. \A i \in DOMAIN toIngest' : toIngest'[i] = Handled + Busy + (i + 1)
      BY <1>1, <1>4, <3>1 DEF IdsInOrder
    <3>3. Handled \in Int
      BY <1>1, Numbers
    <3>4. QED BY <1>3, <1>4, <3>2, <3>3
  <2>2. inFlight = Len(toBroker) + Busy' + Len(toIngest') /\ inFlight <= Len(session)
    <3>1. inFlight = Len(toBroker) + Busy + Len(toIngest) /\ inFlight <= Len(session)
      BY <1>1, <1>4 DEF IdsInOrder
    <3>2. Len(toBroker) + Busy + Len(toIngest) = Len(toBroker) + Busy' + Len(toIngest')
      <4>1. PICK tb \in Nat, ti \in Nat : tb = Len(toBroker) /\ ti = Len(toIngest)
        BY <1>1, Numbers
      <4>2. tb + 0 + ti = tb + 1 + (ti - 1)
        OBVIOUS
      <4>3. QED BY <1>3, <1>4, <4>1, <4>2
    <3>3. QED BY <3>1, <3>2
  <2>3. QED BY <1>1, <1>2, <1>4, <1>5, <1>6, <2>1, <2>2 DEF IdsInOrder
<1>9. Grows
  BY <1>1, <1>2 DEF Grows, Ids
<1>10. DoneInOrder'
  <2>1. \A n \in 1 .. Handled : Done(n)'
    <3>1. \A n \in 1 .. Handled : n \in Ids
      BY <1>1, ToBrokerFits, Lengths
    <3>2. \A n \in Ids : Done(n) => Done(n)'
      BY <1>9, DoneStays
    <3>3. QED BY <1>1, <3>1, <3>2 DEF DoneInOrder
  <2>2. msg' - 1 = Handled
    BY <1>1, <1>5, Numbers
  <2>3. pc' = "return" => Done(msg)'
    BY <1>2 DEF Done
  <2>4. QED BY <1>4, <2>1, <2>2, <2>3 DEF DoneInOrder
<1>11. RowsHaveOrigin'
  BY <1>1, <1>2, <1>9, OriginsStay DEF TypesOK
<1>12. QED BY <1>7, <1>8, <1>10, <1>11 DEF OrderInv

\* store_window has returned, with the message stored or the warning written.
StoreEnds ==
    /\ pc = "store" /\ pc' = "return"
    /\ UNCHANGED <<running, msg, brokerVars, linkVars>>

LEMMA StoreEndsInOrder ==
    ASSUME OrderInv, StoreEnds, Grows, Done(msg)'
    PROVE  IdsInOrder' /\ DoneInOrder'
<1>1. TypesOK /\ IdsInOrder /\ DoneInOrder
  BY DEF OrderInv
<1>2. /\ Forgotten' = Forgotten /\ Handled' = Handled /\ Busy' = Busy /\ Ids' = Ids
      /\ UNCHANGED <<accepted, session, inFlight, link, toIngest, toBroker>>
  BY DEF StoreEnds, brokerVars, linkVars, Forgotten, Handled, Busy, Ids
<1>3. IdsInOrder'
  BY <1>1, <1>2 DEF IdsInOrder, StoreEnds
<1>4. DoneInOrder'
  <2>1. \A n \in 1 .. Handled : n \in Ids
    BY <1>1, ToBrokerFits, Lengths
  <2>2. \A n \in 1 .. msg - 1 : n \in Ids
    BY <1>1, Lengths DEF IdsInOrder, StoreEnds
  <2>3. \A n \in Ids : Done(n) => Done(n)'
    BY DoneStays
  <2>4. QED BY <1>1, <1>2, <2>1, <2>2, <2>3 DEF DoneInOrder, StoreEnds
<1>5. QED BY <1>3, <1>4

LEMMA StoreWindowKeeps == OrderInv /\ StoreWindow => OrderInv'
<1> SUFFICES ASSUME OrderInv, StoreWindow PROVE OrderInv'
  OBVIOUS
<1>1. TypesOK /\ IdsInOrder /\ DoneInOrder /\ RowsHaveOrigin
  BY DEF OrderInv
<1>2. /\ pc = "store" /\ StoreEnds /\ rows' = Append(rows, accepted[msg])
      /\ UNCHANGED <<accepted, msg, logged>>
  BY DEF StoreWindow, StoreEnds, Window, brokerVars
<1>3. msg \in Ids /\ msg \in Nat /\ accepted[msg] \in Windows /\ rows \in Seq(Windows)
  BY <1>1, <1>2, Lengths DEF IdsInOrder, TypesOK
<1>4. /\ rows' \in Seq(Windows) /\ Len(rows) \in Nat
      /\ DOMAIN rows = 1 .. Len(rows) /\ DOMAIN rows' = 1 .. Len(rows) + 1
      /\ \A i \in 1 .. Len(rows) : rows'[i] = rows[i]
      /\ rows'[Len(rows) + 1] = accepted[msg]
  BY <1>2, <1>3
<1>5. Grows
  BY <1>2, <1>4 DEF Grows, Ids
<1>6. Done(msg)'
  <2>1. Len(rows) + 1 \in DOMAIN rows'
    BY <1>4
  <2>2. QED BY <1>2, <1>4, <2>1 DEF Done, Stored
<1>7. TypesOK'
  BY <1>1, <1>2, <1>4 DEF StoreWindow, TypesOK, brokerVars, linkVars
<1>8. RowsHaveOrigin'
  <2>1. SUFFICES ASSUME NEW i \in DOMAIN rows'
                 PROVE  \E n \in Ids :
                            /\ rows'[i] = accepted[n]
                            /\ \A m \in 1 .. n - 1 : accepted[m] \in logged
                                   \/ \E j \in 1 .. i : rows'[j] = accepted[m]
    BY <1>2 DEF RowsHaveOrigin, Ids
  <2>2. CASE i = Len(rows) + 1
    <3>1. \A m \in 1 .. msg - 1 : accepted[m] \in logged \/ \E j \in DOMAIN rows : rows[j] = accepted[m]
      BY <1>1, <1>2 DEF DoneInOrder, Done, Stored
    <3>2. \A j \in DOMAIN rows : j \in 1 .. i /\ rows'[j] = rows[j]
      BY <1>4, <2>2
    <3>3. \A m \in 1 .. msg - 1 : accepted[m] \in logged \/ \E j \in 1 .. i : rows'[j] = accepted[m]
      <4> SUFFICES ASSUME NEW m \in 1 .. msg - 1, accepted[m] \notin logged
                   PROVE  \E j \in 1 .. i : rows'[j] = accepted[m]
        OBVIOUS
      <4>1. PICK j \in DOMAIN rows : rows[j] = accepted[m]
        BY <3>1
      <4>2. QED BY <3>2, <4>1
    <3>4. QED BY <1>3, <1>4, <2>2, <3>3
  <2>3. CASE i # Len(rows) + 1
    <3>1. i \in DOMAIN rows /\ i \in 1 .. Len(rows)
      BY <1>4, <2>3
    <3>2. PICK n \in Ids :
              /\ rows[i] = accepted[n]
              /\ \A m \in 1 .. n - 1 : accepted[m] \in logged \/ \E j \in 1 .. i : rows[j] = accepted[m]
      BY <1>1, <3>1 DEF RowsHaveOrigin
    <3>3. \A j \in 1 .. i : j \in 1 .. Len(rows)
      BY <1>4, <3>1
    <3>4. QED BY <1>4, <3>1, <3>2, <3>3
  <2>4. QED BY <2>2, <2>3
<1>9. QED BY <1>2, <1>5, <1>6, <1>7, <1>8, StoreEndsInOrder DEF OrderInv

LEMMA StoreWindowFailsKeeps == OrderInv /\ StoreWindowFails => OrderInv'
<1> SUFFICES ASSUME OrderInv, StoreWindowFails PROVE OrderInv'
  OBVIOUS
<1>1. TypesOK /\ IdsInOrder /\ DoneInOrder /\ RowsHaveOrigin
  BY DEF OrderInv
<1>2. /\ pc = "store" /\ StoreEnds /\ logged' = logged \cup {accepted[msg]}
      /\ UNCHANGED <<accepted, msg, rows>>
  BY DEF StoreWindowFails, StoreEnds, Window, brokerVars
<1>3. msg \in Ids /\ accepted[msg] \in Windows
  BY <1>1, <1>2, Lengths DEF IdsInOrder
<1>4. Grows
  BY <1>2 DEF Grows, Ids
<1>5. Done(msg)'
  BY <1>2 DEF Done
<1>6. TypesOK'
  BY <1>1, <1>2, <1>3 DEF StoreWindowFails, TypesOK, brokerVars, linkVars
<1>7. RowsHaveOrigin'
  BY <1>1, <1>2, <1>4, OriginsStay DEF TypesOK
<1>8. QED BY <1>2, <1>4, <1>5, <1>6, <1>7, StoreEndsInOrder DEF OrderInv

LEMMA AcknowledgeKeeps == OrderInv /\ Acknowledge => OrderInv'
<1> SUFFICES ASSUME OrderInv, Acknowledge PROVE OrderInv'
  OBVIOUS
<1>1. TypesOK /\ IdsInOrder /\ DoneInOrder /\ RowsHaveOrigin
  BY DEF OrderInv
<1>2. /\ pc = "return" /\ pc' = "loop" /\ msg' = 0
      /\ toBroker' = IF link THEN Append(toBroker, msg) ELSE toBroker
      /\ UNCHANGED <<accepted, session, inFlight, link, toIngest, running, rows, logged>>
  BY DEF Acknowledge, brokerVars, dbVars, NoMessage
<1>3. /\ Forgotten' = Forgotten /\ Ids' = Ids /\ Busy = 1 /\ Busy' = 0
      /\ Grows
  BY <1>2 DEF Forgotten, Ids, Busy, Grows
<1>4. TypesOK'
  <2>1. toBroker' \in Seq(Nat)
    BY <1>1, <1>2 DEF TypesOK
  <2>2. QED BY <1>1, <1>2, <2>1 DEF Acknowledge, TypesOK, brokerVars, dbVars
<1>5. RowsHaveOrigin'
  BY <1>1, <1>2, <1>3, OriginsStay DEF TypesOK
<1>6. CASE ~link
  <2>1. Handled' = Handled /\ toBroker' = toBroker
    BY <1>2, <1>3, <1>6 DEF Handled
  <2>2. IdsInOrder' /\ DoneInOrder'
    BY <1>1, <1>2, <1>3, <1>6, <2>1 DEF IdsInOrder, DoneInOrder, Done, Stored
  <2>3. QED BY <1>4, <1>5, <2>2 DEF OrderInv
<1>7. CASE link
  <2>1. /\ Len(toBroker) \in Nat /\ Len(toBroker') = Len(toBroker) + 1
        /\ DOMAIN toBroker' = 1 .. Len(toBroker) + 1
        /\ \A i \in 1 .. Len(toBroker) : toBroker'[i] = toBroker[i]
        /\ toBroker'[Len(toBroker) + 1] = msg
    BY <1>1, <1>2, <1>7 DEF TypesOK
  <2>2. PICK f \in Nat, tb \in Nat, ti \in Nat :
            f = Forgotten /\ tb = Len(toBroker) /\ ti = Len(toIngest)
    BY <1>1, Numbers, ToBrokerFits
  <2>3. msg = f + tb + 1 /\ Handled' = f + (tb + 1) /\ Handled = f + tb
    BY <1>1, <1>2, <1>3, <1>7, <2>1, <2>2 DEF IdsInOrder, Handled
  <2>4. \A i \in DOMAIN toBroker' : toBroker'[i] = f + i
    <3>1. SUFFICES ASSUME NEW i \in 1 .. tb + 1 PROVE toBroker'[i] = f + i
      BY <2>1, <2>2
    <3>2. CASE i = tb + 1
      BY <2>1, <2>2, <2>3, <3>2
    <3>3. CASE i # tb + 1
      <4>1. i \in 1 .. tb /\ i \in DOMAIN toBroker
        BY <1>1, <2>2, <3>3, Lengths, SMTT(30)
      <4>2. QED BY <1>1, <1>7, <2>1, <2>2, <4>1 DEF IdsInOrder
    <3>4. QED BY <3>2, <3>3
  <2>5. inFlight = Len(toBroker') + Busy' + Len(toIngest)
    <3>1. inFlight = tb + 1 + ti
      BY <1>1, <1>3, <1>7, <2>2 DEF IdsInOrder
    <3>2. QED BY <1>3, <2>1, <2>2, <3>1
  <2>6. \A i \in DOMAIN toIngest : toIngest[i] = Handled' + Busy' + i
    <3>1. DOMAIN toIngest = 1 .. ti /\ \A i \in DOMAIN toIngest : toIngest[i] = f + tb + 1 + i
      BY <1>1, <1>3, <1>7, <2>2, <2>3, Lengths DEF IdsInOrder
    <3>2. QED BY <1>3, <2>3, <3>1
  <2>7. IdsInOrder'
    BY <1>1, <1>2, <1>3, <1>7, <2>2, <2>4, <2>5, <2>6 DEF IdsInOrder
  <2>8. DoneInOrder'
    <3>1. \A n \in 1 .. f + (tb + 1) : Done(n)
      <4> SUFFICES ASSUME NEW n \in 1 .. f + (tb + 1) PROVE Done(n)
        OBVIOUS
      <4>1. CASE n = msg
        BY <1>1, <1>2, <4>1 DEF DoneInOrder
      <4>2. CASE n # msg
        <5>1. n \in 1 .. Handled
          BY <2>3, <4>2
        <5>2. QED BY <1>1, <5>1 DEF DoneInOrder
      <4>3. QED BY <4>1, <4>2
    <3>2. QED BY <1>2, <2>3, <3>1 DEF DoneInOrder, Done, Stored
  <2>9. QED BY <1>4, <1>5, <2>7, <2>8 DEF OrderInv
<1>8. QED BY <1>6, <1>7

\* The connection is lost, with or without the process, and the ids on it with it.
LinkEnds ==
    /\ CloseLink
    /\ \/ UNCHANGED <<running, pc, msg>>
       \/ running' = FALSE /\ pc' = "loop" /\ msg' = NoMessage
    /\ breaks' \in Nat
    /\ UNCHANGED <<brokerVars, dbVars>>

LEMMA LinkEndsKeeps == OrderInv /\ LinkEnds => OrderInv'
<1> SUFFICES ASSUME OrderInv, LinkEnds PROVE OrderInv'
  OBVIOUS
<1> USE DEF brokerVars, dbVars
<1>1. TypesOK /\ IdsInOrder /\ DoneInOrder /\ RowsHaveOrigin
  BY DEF OrderInv
<1>2. TypesOK'
  <2>1. <<>> \in Seq(Nat)
    OBVIOUS
  <2>2. running' \in BOOLEAN /\ pc' \in {"loop", "store", "return"} /\ msg' \in Nat
    <3>1. CASE UNCHANGED <<running, pc, msg>>
      BY <1>1, <3>1 DEF TypesOK
    <3>2. CASE running' = FALSE /\ pc' = "loop" /\ msg' = NoMessage
      BY <3>2 DEF NoMessage
    <3>3. QED BY <3>1, <3>2 DEF LinkEnds
  <2>3. QED BY <1>1, <2>1, <2>2 DEF LinkEnds, CloseLink, TypesOK
<1>3. Handled' = Forgotten /\ Forgotten' = Forgotten
  <2>1. Len(<<>>) = 0 /\ Forgotten \in Int
    BY <1>1, Numbers
  <2>2. Handled' = Forgotten + Len(<<>>)
    BY DEF LinkEnds, CloseLink, Handled, Forgotten
  <2>3. QED BY <2>1, <2>2 DEF LinkEnds, Forgotten
<1>4. IdsInOrder'
  BY <1>1, <1>3 DEF LinkEnds, CloseLink, IdsInOrder, Ids
<1>5. DoneInOrder'
  <2>1. \A n \in 1 .. Forgotten : n \in 1 .. Handled
    BY <1>1, ToBrokerFits
  <2>2. QED BY <1>1, <1>3, <2>1 DEF LinkEnds, DoneInOrder, Done, Stored
<1>6. RowsHaveOrigin'
  BY <1>1 DEF LinkEnds, RowsHaveOrigin, Ids
<1>7. QED BY <1>2, <1>4, <1>5, <1>6 DEF OrderInv

LEMMA LinkEndSteps ==
    ASSUME TypesOK, StoreWindowRaises \/ ConnectionLost \/ Killed
    PROVE  LinkEnds
<1>1. breaks \in Nat /\ breaks + 1 \in Nat
  BY DEF TypesOK
<1>2. CASE StoreWindowRaises
  BY <1>1, <1>2 DEF StoreWindowRaises, Die, LinkEnds
<1>3. CASE ConnectionLost
  BY <1>1, <1>3 DEF ConnectionLost, LinkEnds, processVars
<1>4. CASE Killed
  BY <1>1, <1>4 DEF Killed, Die, LinkEnds
<1>5. QED BY <1>2, <1>3, <1>4

LEMMA RestartKeeps == OrderInv /\ Restart => OrderInv'
BY DEF Restart, OrderInv, TypesOK, IdsInOrder, DoneInOrder, RowsHaveOrigin, Forgotten, Handled, Busy,
   Ids, Done, Stored, brokerVars, linkVars, dbVars

LEMMA StutterKeeps == OrderInv /\ UNCHANGED vars => OrderInv'
BY DEF vars, OrderInv, TypesOK, IdsInOrder, DoneInOrder, RowsHaveOrigin, Forgotten, Handled, Busy,
   Ids, Done, Stored, brokerVars, linkVars, processVars, dbVars

LEMMA NextKeeps == OrderInv /\ [Next]_vars => OrderInv'
<1> SUFFICES ASSUME OrderInv, [Next]_vars PROVE OrderInv'
  OBVIOUS
<1>1. CASE Device
  BY <1>1, DevicePublishesKeeps, DeviceRetransmitsKeeps DEF Device
<1>2. CASE Broker
  BY <1>2, BrokerSendsKeeps, BrokerForgetsKeeps DEF Broker
<1>3. CASE OnConnect
  BY <1>3, OnConnectKeeps
<1>4. CASE Callback
  <2>1. CASE StoreWindowRaises
    BY <2>1, LinkEndSteps, LinkEndsKeeps DEF OrderInv
  <2>2. QED BY <1>4, <2>1, OnMessageKeeps, StoreWindowKeeps, StoreWindowFailsKeeps, AcknowledgeKeeps
           DEF Callback
<1>5. CASE Restart
  BY <1>5, RestartKeeps
<1>6. CASE Failure
  BY <1>6, LinkEndSteps, LinkEndsKeeps DEF Failure, OrderInv
<1>7. CASE UNCHANGED vars
  BY <1>7, StutterKeeps
<1>8. QED BY <1>1, <1>2, <1>3, <1>4, <1>5, <1>6, <1>7 DEF Next

(***************************************************************************)
(* Ids stay in the order in which the broker took the messages, from its   *)
(* session over the connection and on_message back to it, and none is      *)
(* acknowledged (on_message, ingest.py:68-87), let alone forgotten, before *)
(* its window is stored or dropped with a warning.                         *)
(***************************************************************************)
THEOREM IngestInductiveInvariant == Spec => []OrderInv
<1>1. Init => OrderInv
  BY InitOrder
<1>2. OrderInv /\ [Next]_vars => OrderInv'
  BY NextKeeps
<1>3. QED BY <1>1, <1>2, PTL DEF Spec

(***************************************************************************)
(* Every window the broker took is stored, still held by it, or was        *)
(* dropped with a warning, whatever connections are lost and however often *)
(* the process is killed and started again: on_message returns, and paho   *)
(* acknowledges, only when store_window has committed or its error is      *)
(* logged (ingest.py:73-87).                                               *)
(***************************************************************************)
THEOREM WindowsNotLost == Spec => []NothingLost
<1>1. OrderInv => NothingLost
  <2> SUFFICES ASSUME OrderInv, NEW n \in Ids
               PROVE  Done(n) \/ Held(accepted[n])
    BY DEF NothingLost, Done, Ids
  <2>1. TypesOK /\ IdsInOrder /\ DoneInOrder
    BY DEF OrderInv
  <2>2. CASE n <= Forgotten
    <3>1. n \in 1 .. Handled
      BY <2>1, <2>2, ToBrokerFits, Lengths
    <3>2. QED BY <2>1, <3>1 DEF DoneInOrder
  <2>3. CASE ~ (n <= Forgotten)
    <3>1. Forgotten = Len(accepted) - Len(session)
      BY DEF Forgotten
    <3>2. PICK i \in Int : i = n - Forgotten /\ Forgotten + i = n
      BY <2>1, Lengths
    <3>3. i \in DOMAIN session
      BY <2>1, <2>3, <3>1, <3>2, Lengths
    <3>4. session[i] = n
      BY <2>1, <3>2, <3>3 DEF IdsInOrder
    <3>5. n \in ToSet(session)
      BY <3>3, <3>4 DEF ToSet
    <3>6. QED BY <3>5 DEF Held
  <2>4. QED BY <2>2, <2>3
<1>2. QED BY <1>1, IngestInductiveInvariant, PTL

(***************************************************************************)
(* Row ids follow the order in which the broker took the windows, up to    *)
(* the windows that a warning says were not stored: what fetch_fft_results *)
(* and split_healthy take for the order of time.                           *)
(***************************************************************************)
THEOREM RowsInOrder == Spec => []FirstRowsInOrder
<1>1. OrderInv => FirstRowsInOrder
  <2> SUFFICES ASSUME OrderInv, NEW m \in Ids, NEW n \in Ids, NEW i \in DOMAIN rows, m < n,
                      rows[i] = accepted[n], accepted[n] \notin {accepted[k] : k \in 1 .. m}
               PROVE  accepted[m] \in logged \/ \E j \in 1 .. i : rows[j] = accepted[m]
    BY DEF FirstRowsInOrder, Ids
  <2>1. TypesOK /\ RowsHaveOrigin
    BY DEF OrderInv
  <2>2. PICK q \in Ids :
            /\ rows[i] = accepted[q]
            /\ \A k \in 1 .. q - 1 : accepted[k] \in logged \/ \E j \in 1 .. i : rows[j] = accepted[k]
    BY <2>1 DEF RowsHaveOrigin
  <2>3. m \in Nat \ {0} /\ q \in Nat \ {0}
    BY <2>1, Lengths
  <2>4. q \notin 1 .. m
    BY <2>2
  <2>5. m \in 1 .. q - 1
    BY <2>3, <2>4
  <2>6. QED BY <2>2, <2>5
<1>2. QED BY <1>1, IngestInductiveInvariant, PTL

----------------------------------------------------------------------------
(* Counting rows *)

LEMMA FiniteParts ==
    ASSUME NEW S, IsFiniteSet(S), NEW T \in SUBSET S
    PROVE  IsFiniteSet(T) /\ Cardinality(T) \in Nat /\ Cardinality(T) <= Cardinality(S)
BY FS_Subset, FS_CardinalityType

\* The copies of w among the first n ids are some of its copies.
LEMMA CopiesCounted ==
    ASSUME TypesOK, NEW w, NEW n \in 0 .. Len(accepted)
    PROVE  /\ CopiesOf(w) \in Nat /\ CopiesUpto(w, n) \in Nat /\ CopiesUpto(w, n) <= CopiesOf(w)
           /\ \A k \in 0 .. n : CopiesUpto(w, k) <= CopiesUpto(w, n)
<1> DEFINE S(k) == {m \in 1 .. k : accepted[m] = w}
<1>1. Len(accepted) \in Nat /\ Ids = 1 .. Len(accepted)
  BY Lengths
<1>2. IsFiniteSet(1 .. Len(accepted))
  BY <1>1, FS_Interval
<1>3. IsFiniteSet(S(Len(accepted)))
  <2>1. S(Len(accepted)) \in SUBSET (1 .. Len(accepted))
    OBVIOUS
  <2> HIDE DEF S
  <2>2. QED BY <1>2, <2>1, FiniteParts
<1>4. \A a \in 0 .. Len(accepted) : S(a) \in SUBSET S(Len(accepted))
  BY <1>1
<1>5. \A k \in 0 .. n : S(k) \in SUBSET S(n) /\ k \in 0 .. Len(accepted)
  BY <1>1
<1>6. /\ CopiesOf(w) = Cardinality(S(Len(accepted)))
      /\ \A a : CopiesUpto(w, a) = Cardinality(S(a))
  BY <1>1 DEF CopiesOf, CopiesUpto, Ids
<1> HIDE DEF S
<1>7. IsFiniteSet(S(n)) /\ Cardinality(S(n)) \in Nat
      /\ Cardinality(S(n)) <= Cardinality(S(Len(accepted)))
  BY <1>3, <1>4, FiniteParts
<1>8. Cardinality(S(Len(accepted))) \in Nat
  BY <1>3, FS_CardinalityType
<1>9. \A k \in 0 .. n : Cardinality(S(k)) <= Cardinality(S(n))
  BY <1>5, <1>7, FiniteParts
<1>10. QED BY <1>6, <1>7, <1>8, <1>9

LEMMA RowsCount ==
    ASSUME TypesOK, NEW w
    PROVE  RowsOf(w) \in Nat /\ IsFiniteSet({i \in DOMAIN rows : rows[i] = w})
<1>1. IsFiniteSet(1 .. Len(rows)) /\ DOMAIN rows = 1 .. Len(rows)
  BY Lengths, FS_Interval
<1>2. {i \in DOMAIN rows : rows[i] = w} \in SUBSET (1 .. Len(rows))
  BY <1>1
<1>3. QED BY <1>1, <1>2, FiniteParts DEF RowsOf

\* One more id with the window w, one more copy of it.
LEMMA OneMoreCopy ==
    ASSUME TypesOK, NEW n \in Ids
    PROVE  CopiesUpto(accepted[n], n) = CopiesUpto(accepted[n], n - 1) + 1
<1> DEFINE w == accepted[n]
           S == {m \in 1 .. n - 1 : accepted[m] = w}
<1>1. n \in Nat \ {0} /\ n - 1 \in Nat
  BY Lengths
<1>2. IsFiniteSet(1 .. n - 1) /\ S \in SUBSET (1 .. n - 1)
  BY <1>1, FS_Interval
<1>3. IsFiniteSet(S)
  <2> HIDE DEF S
  <2> QED BY <1>2, FiniteParts
<1>4. {m \in 1 .. n : accepted[m] = w} = S \cup {n} /\ n \notin S
  BY <1>1
<1>5. CopiesUpto(w, n) = Cardinality(S \cup {n}) /\ CopiesUpto(w, n - 1) = Cardinality(S)
  BY <1>4 DEF CopiesUpto
<1>6. n \notin S
  BY <1>4
<1> HIDE DEF S
<1>7. Cardinality(S \cup {n}) = Cardinality(S) + 1
  BY <1>3, <1>6, FS_AddElement
<1>8. QED BY <1>5, <1>7

\* One more row of the window w, and no more of any other.
LEMMA OneMoreRow ==
    ASSUME TypesOK, NEW w, NEW v, rows' = Append(rows, v)
    PROVE  RowsOf(w)' = IF v = w THEN RowsOf(w) + 1 ELSE RowsOf(w)
<1> DEFINE S == {i \in DOMAIN rows : rows[i] = w}
           T == {i \in DOMAIN rows' : rows'[i] = w}
           n == Len(rows) + 1
<1>1. /\ Len(rows) \in Nat /\ DOMAIN rows = 1 .. Len(rows) /\ DOMAIN rows' = 1 .. n
      /\ \A i \in 1 .. Len(rows) : rows'[i] = rows[i]
      /\ rows'[n] = v
  BY DEF TypesOK
<1>2. IsFiniteSet(S) /\ n \notin S
  <2>1. S \subseteq 1 .. Len(rows) /\ n \notin 1 .. Len(rows)
    BY <1>1
  <2>2. IsFiniteSet(S)
    BY RowsCount
  <2>3. QED BY <2>1, <2>2
<1>3. T = IF v = w THEN S \cup {n} ELSE S
  <2>1. \A i : i \in 1 .. n <=> i \in 1 .. Len(rows) \/ i = n
    BY <1>1
  <2>2. n \notin 1 .. Len(rows)
    BY <1>1
  <2> HIDE DEF n
  <2>3. QED BY <1>1, <2>1, <2>2
<1>4. RowsOf(w) = Cardinality(S) /\ RowsOf(w)' = Cardinality(T)
  BY DEF RowsOf
<1> HIDE DEF S, T, n
<1>5. Cardinality(S \cup {n}) = Cardinality(S) + 1
  BY <1>2, FS_AddElement
<1>6. QED BY <1>3, <1>4, <1>5

\* What a connection may add to the rows of a window, in whole copies and in part.
LEMMA WholeCopies ==
    ASSUME NEW r \in Nat, NEW a \in Nat, NEW c \in Nat, NEW p \in Nat, p <= a, c > 0,
           r <= a * (c - 1) + p
    PROVE  r <= a * c
<1>1. a * c = a * (c - 1) + a
  <2>1. PICK d \in Nat : c = d + 1 /\ c - 1 = d
    BY SMT
  <2>2. a * (d + 1) = a * d + a
    BY SMT
  <2>3. QED BY <2>1, <2>2
<1>2. PICK x \in Nat : x = a * (c - 1)
  <2>1. c - 1 \in Nat
    OBVIOUS
  <2>2. QED BY <2>1
<1>3. QED BY <1>1, <1>2

LEMMA MoreCopies ==
    ASSUME NEW a \in Nat, NEW b \in Nat, NEW c \in Nat, a <= b
    PROVE  a * c <= b * c
<1>1. PICK d \in Nat : b = a + d
  <2>1. b - a \in Nat /\ b = a + (b - a)
    OBVIOUS
  <2>2. QED BY <2>1
<1>2. (a + d) * c = a * c + d * c
  BY SMT
<1>3. d * c \in Nat /\ a * c \in Nat
  OBVIOUS
<1>4. QED BY <1>1, <1>2, <1>3

\* Between the start of a connection and the end of the last call of on_message it caused.
Delivering == link \/ pc # "loop"

LEMMA CurrentFits ==
    ASSUME TypesOK, IdsInOrder
    PROVE  Current \in 0 .. Len(accepted)
<1>1. CASE pc = "loop"
  BY <1>1, ToBrokerFits DEF Current
<1>2. CASE pc # "loop"
  <2>1. msg \in 1 .. Len(accepted)
    BY <1>2, Lengths DEF IdsInOrder
  <2>2. QED BY <1>2, <2>1, Lengths DEF Current
<1>3. QED BY <1>1, <1>2

\* The copies among ids the broker took before do not change.
LEMMA CopiesStay ==
    ASSUME TypesOK, TypesOK', Grows, NEW w
    PROVE  /\ \A n \in 0 .. Len(accepted) : CopiesUpto(w, n)' = CopiesUpto(w, n)
           /\ CopiesOf(w) <= CopiesOf(w)' /\ Len(accepted) <= Len(accepted')
<1>1. Len(accepted) \in Nat /\ Ids = 1 .. Len(accepted)
  BY Lengths
<1>2. Len(accepted') \in Nat /\ Ids' = 1 .. Len(accepted')
  <2>1. accepted' \in Seq(Windows)
    BY DEF TypesOK
  <2>2. QED BY <2>1 DEF Ids
<1>3. Len(accepted) <= Len(accepted')
  <2>1. Len(accepted) # 0 => Len(accepted) \in Ids
    BY <1>1
  <2>2. QED BY <1>1, <1>2, <2>1 DEF Grows
<1>4. ASSUME NEW n \in 0 .. Len(accepted) PROVE CopiesUpto(w, n)' = CopiesUpto(w, n)
  <2>1. \A m \in 1 .. n : m \in Ids
    BY <1>1
  <2>2. \A m \in 1 .. n : accepted'[m] = accepted[m]
    BY <2>1 DEF Grows
  <2>3. {m \in 1 .. n : accepted'[m] = w} = {m \in 1 .. n : accepted[m] = w}
    BY <2>2
  <2>4. QED BY <2>3 DEF CopiesUpto
<1>5. CopiesOf(w) = CopiesUpto(w, Len(accepted))
  BY <1>1 DEF CopiesOf, CopiesUpto, Ids
<1>6. {m \in 1 .. Len(accepted) : accepted[m] = w} = {m \in 1 .. Len(accepted) : accepted'[m] = w}
  BY <1>1 DEF Grows
<1>7. Cardinality({m \in 1 .. Len(accepted) : accepted'[m] = w})
          <= Cardinality({m \in DOMAIN accepted' : accepted'[m] = w})
  <2>1. IsFiniteSet(1 .. Len(accepted'))
    BY <1>2, FS_Interval
  <2>2. {m \in DOMAIN accepted' : accepted'[m] = w} \in SUBSET (1 .. Len(accepted'))
    BY <1>2 DEF Ids
  <2>3. IsFiniteSet({m \in DOMAIN accepted' : accepted'[m] = w})
    BY <2>1, <2>2, FiniteParts
  <2>4. {m \in 1 .. Len(accepted) : accepted'[m] = w}
            \in SUBSET {m \in DOMAIN accepted' : accepted'[m] = w}
    BY <1>1, <1>2, <1>3 DEF Ids
  <2>5. QED BY <2>3, <2>4, FiniteParts
<1>8. QED BY <1>3, <1>4, <1>5, <1>6, <1>7 DEF CopiesOf, CopiesUpto

CountsFit ==
    /\ Len(accepted) \in Nat /\ Current \in 0 .. Len(accepted)
    /\ \A w \in Windows :
           /\ CopiesOf(w) \in Nat
           /\ \A n \in 0 .. Len(accepted) : \A k \in 0 .. n :
                  CopiesUpto(w, n) \in Nat /\ CopiesUpto(w, k) <= CopiesUpto(w, n)

LEMMA Counting == TypesOK /\ IdsInOrder => CountsFit
<1> SUFFICES ASSUME TypesOK, IdsInOrder PROVE CountsFit
  OBVIOUS
<1>1. Len(accepted) \in Nat /\ Current \in 0 .. Len(accepted) /\ 0 \in 0 .. Len(accepted)
  BY CurrentFits, Lengths
<1>2. QED BY <1>1, CopiesCounted DEF CountsFit

\* The same rows, the same connection, and no less of it handled.
LEMMA CountStays ==
    ASSUME OrderInv, OrderInv', RowsCounted, Grows, UNCHANGED <<rows, connections>>,
           Delivering' <=> Delivering, Delivering => Current <= Current'
    PROVE  RowsCounted'
<1>1. TypesOK /\ IdsInOrder /\ TypesOK' /\ IdsInOrder'
  BY DEF OrderInv
<1>2. SUFFICES ASSUME NEW w \in Windows
               PROVE  IF Delivering
                      THEN /\ connections > 0
                           /\ RowsOf(w) <= CopiesOf(w)' * (connections - 1) + CopiesUpto(w, Current)'
                      ELSE RowsOf(w) <= CopiesOf(w)' * connections
  BY DEF RowsCounted, Delivering, RowsOf
<1>3. /\ RowsOf(w) \in Nat /\ connections \in Nat
      /\ CopiesOf(w) \in Nat
  <2>1. 0 \in 0 .. Len(accepted)
    BY <1>1, Lengths
  <2>2. QED BY <1>1, <2>1, RowsCount, CopiesCounted DEF TypesOK
<1>4. CountsFit'
  <2>1. (TypesOK /\ IdsInOrder => CountsFit)'
    BY Counting, PTL
  <2>2. QED BY <1>1, <2>1
<1>5. CopiesOf(w)' \in Nat /\ CopiesOf(w) <= CopiesOf(w)'
  BY <1>1, <1>4, CopiesStay DEF CountsFit
<1>6. CASE ~Delivering
  <2>1. RowsOf(w) <= CopiesOf(w) * connections
    BY <1>6 DEF RowsCounted, Delivering
  <2>2. CopiesOf(w) * connections <= CopiesOf(w)' * connections
    BY <1>3, <1>5, MoreCopies
  <2>3. CopiesOf(w) * connections \in Nat /\ CopiesOf(w)' * connections \in Nat
    BY <1>3, <1>5
  <2>4. QED BY <1>3, <1>6, <2>1, <2>2, <2>3
<1>7. CASE Delivering
  <2>1. connections > 0 /\ connections - 1 \in Nat
        /\ RowsOf(w) <= CopiesOf(w) * (connections - 1) + CopiesUpto(w, Current)
    BY <1>3, <1>7 DEF RowsCounted, Delivering
  <2>2. CopiesOf(w) * (connections - 1) <= CopiesOf(w)' * (connections - 1)
    BY <1>3, <1>5, <2>1, MoreCopies
  <2>3. Current \in 0 .. Len(accepted) /\ Current' \in 0 .. Len(accepted') /\ Len(accepted') \in Nat
    BY <1>1, <1>4, CurrentFits DEF CountsFit
  <2>4. CopiesUpto(w, Current) \in Nat
    BY <1>1, <2>3, CopiesCounted
  <2>5. CopiesUpto(w, Current)' \in Nat /\ CopiesUpto(w, Current) <= CopiesUpto(w, Current)'
    <3>1. Current \in 0 .. Current'
      BY <1>7, <2>3
    <3>2. \A n \in 0 .. Len(accepted') : \A k \in 0 .. n :
              /\ Cardinality({m \in 1 .. n : accepted'[m] = w}) \in Nat
              /\ Cardinality({m \in 1 .. k : accepted'[m] = w})
                     <= Cardinality({m \in 1 .. n : accepted'[m] = w})
      BY <1>4 DEF CountsFit, CopiesUpto
    <3>3. CopiesUpto(w, Current) = Cardinality({m \in 1 .. Current : accepted'[m] = w})
      <4>1. \A m \in 1 .. Current : m \in Ids
        BY <1>1, <2>3, Lengths
      <4>2. \A m \in 1 .. Current : accepted'[m] = accepted[m]
        BY <4>1 DEF Grows
      <4>3. {m \in 1 .. Current : accepted'[m] = w} = {m \in 1 .. Current : accepted[m] = w}
        BY <4>2
      <4>4. QED BY <4>3 DEF CopiesUpto
    <3>4. CopiesUpto(w, Current)' = Cardinality({m \in 1 .. Current' : accepted'[m] = w})
      BY DEF CopiesUpto
    <3>5. QED BY <2>3, <3>1, <3>2, <3>3, <3>4
  <2>6. CopiesOf(w) * (connections - 1) \in Nat /\ CopiesOf(w)' * (connections - 1) \in Nat
    BY <1>3, <1>5, <2>1
  <2>7. QED BY <1>3, <1>7, <2>1, <2>2, <2>4, <2>5, <2>6
<1>8. QED BY <1>6, <1>7

\* The last call that a connection caused is over: it stored no copy twice.
LEMMA CountCloses ==
    ASSUME OrderInv, RowsCounted, UNCHANGED <<accepted, rows, connections>>,
           ~Delivering'
    PROVE  RowsCounted'
<1>1. TypesOK /\ IdsInOrder
  BY DEF OrderInv
<1>2. SUFFICES ASSUME NEW w \in Windows
               PROVE  RowsOf(w) <= CopiesOf(w) * connections
  BY DEF RowsCounted, Delivering, RowsOf, CopiesOf
<1>3. CASE ~Delivering
  BY <1>3 DEF RowsCounted, Delivering
<1>4. CASE Delivering
  <2>1. /\ connections > 0
        /\ RowsOf(w) <= CopiesOf(w) * (connections - 1) + CopiesUpto(w, Current)
    BY <1>4 DEF RowsCounted, Delivering
  <2>2. /\ RowsOf(w) \in Nat /\ connections \in Nat
        /\ CopiesOf(w) \in Nat /\ CopiesUpto(w, Current) \in Nat
        /\ CopiesUpto(w, Current) <= CopiesOf(w)
    BY <1>1, CurrentFits, RowsCount, CopiesCounted DEF TypesOK
  <2>3. QED BY <2>1, <2>2, WholeCopies
<1>5. QED BY <1>3, <1>4

LEMMA InitCount == Init => RowsCounted
<1> SUFFICES ASSUME Init, NEW w \in Windows PROVE RowsOf(w) <= CopiesOf(w) * connections
  BY DEF Init, RowsCounted
<1>1. {i \in DOMAIN rows : rows[i] = w} = {} /\ {m \in DOMAIN accepted : accepted[m] = w} = {}
  BY DEF Init
<1>2. RowsOf(w) = 0 /\ CopiesOf(w) = 0 /\ connections = 0
  BY <1>1, FS_EmptySet DEF RowsOf, CopiesOf, Init
<1>3. QED BY <1>2

\* Steps of the device and the broker, and those of on_message that store nothing.
LEMMA CountOfQuietStep ==
    ASSUME OrderInv, OrderInv', RowsCounted,
           Device \/ Broker \/ OnMessage \/ StoreWindowFails \/ Restart
    PROVE  RowsCounted'
<1> USE DEF brokerVars, linkVars, processVars, dbVars, Delivering
<1>1. TypesOK /\ IdsInOrder
  BY DEF OrderInv
<1>2. CASE Device
  <2>1. UNCHANGED <<rows, connections, link, pc, logged, msg, toBroker>>
    BY <1>2 DEF Device, DevicePublishes, DeviceRetransmits
  <2>2. UNCHANGED <<accepted, session>> \/ \E w \in Windows :
            accepted' = Append(accepted, w) /\ session' = Append(session, Len(accepted) + 1)
    <3>1. PICK w \in Windows : Accept(w)
      BY <1>1, <1>2, Bounds DEF Device, DevicePublishes, DeviceRetransmits, TypesOK, Windows
    <3>2. QED BY <3>1 DEF Accept
  <2>3. Grows
    <3>1. CASE UNCHANGED <<accepted, session>>
      BY <2>1, <3>1 DEF Grows, Ids
    <3>2. CASE \E w \in Windows :
                   accepted' = Append(accepted, w) /\ session' = Append(session, Len(accepted) + 1)
      BY <1>1, <2>1, <3>2 DEF Grows, Ids, TypesOK
    <3>3. QED BY <2>2, <3>1, <3>2
  <2>4. Forgotten' = Forgotten
    <3>1. CASE UNCHANGED <<accepted, session>>
      BY <3>1 DEF Forgotten
    <3>2. CASE \E w \in Windows :
                   accepted' = Append(accepted, w) /\ session' = Append(session, Len(accepted) + 1)
      BY <1>1, <3>2 DEF Forgotten, TypesOK
    <3>3. QED BY <2>2, <3>1, <3>2
  <2>5. Current' = Current
    BY <2>1, <2>4 DEF Current, Handled
  <2>6. Current <= Current'
    BY <1>1, <2>5, CurrentFits, Numbers
  <2>7. QED BY <2>1, <2>3, <2>6, CountStays
<1>3. CASE BrokerSends
  <2>1. UNCHANGED <<accepted, session, rows, connections, link, pc, logged, msg, toBroker>>
    BY <1>3 DEF BrokerSends
  <2>2. Current' = Current
    BY <2>1 DEF Current, Handled, Forgotten
  <2>3. Current <= Current'
    BY <1>1, <2>2, CurrentFits, Numbers
  <2>4. Grows
    BY <2>1 DEF Grows, Ids
  <2>5. QED BY <2>1, <2>3, <2>4, CountStays
<1>4. CASE BrokerForgets
  <2>1. UNCHANGED <<accepted, rows, connections, link, pc, logged, msg>>
    BY <1>4 DEF BrokerForgets
  <2>2. Handled' = Handled
    BY <1>1, <1>4, ForgetsOldest
  <2>3. Current <= Current'
    <3>1. Current' = Current
      BY <2>1, <2>2 DEF Current
    <3>2. QED BY <1>1, <3>1, CurrentFits, Numbers
  <2>4. Grows
    BY <2>1 DEF Grows, Ids
  <2>5. QED BY <2>1, <2>3, <2>4, CountStays
<1>5. CASE OnMessage
  <2>1. /\ UNCHANGED <<accepted, session, rows, connections, link, toBroker>>
        /\ pc = "loop" /\ toIngest # <<>> /\ logged \subseteq logged'
        /\ pc' \in {"store", "return"}
    BY <1>5 DEF OnMessage
  <2>2. link /\ Handled' = Handled
    BY <1>1, <2>1 DEF IdsInOrder, Handled, Forgotten
  <2>3. msg' = Handled + 1
    <3>1. IdsInOrder'
      BY DEF OrderInv
    <3>2. QED BY <2>1, <2>2, <3>1 DEF IdsInOrder
  <2>4. Current <= Current'
    <3>1. Handled \in Int
      BY <1>1, Numbers
    <3>2. Current = Handled /\ Current' \in {(Handled + 1) - 1, Handled + 1}
      BY <2>1, <2>3 DEF Current
    <3>3. QED BY <3>1, <3>2
  <2>5. Grows
    BY <2>1 DEF Grows, Ids
  <2>6. QED BY <2>1, <2>2, <2>4, <2>5, CountStays
<1>6. CASE StoreWindowFails
  <2>1. /\ UNCHANGED <<accepted, rows, connections, link, msg>>
        /\ pc = "store" /\ pc' = "return" /\ logged \subseteq logged'
    BY <1>6 DEF StoreWindowFails
  <2>2. Current <= Current'
    BY <1>1, <2>1, Numbers DEF Current
  <2>3. Grows
    BY <2>1 DEF Grows, Ids
  <2>4. QED BY <2>1, <2>2, <2>3, CountStays
<1>7. CASE Restart
  BY <1>1, <1>7 DEF Restart, RowsCounted, RowsOf, CopiesOf, CopiesUpto, Current, Handled, Forgotten
<1>8. QED BY <1>2, <1>3, <1>4, <1>5, <1>6, <1>7 DEF Broker

LEMMA CountOfStoreWindow ==
    ASSUME OrderInv, RowsCounted, StoreWindow
    PROVE  RowsCounted'
<1>1. TypesOK /\ IdsInOrder
  BY DEF OrderInv
<1>2. /\ pc = "store" /\ pc' = "return" /\ rows' = Append(rows, accepted[msg])
      /\ UNCHANGED <<accepted, link, msg, connections>>
  BY DEF StoreWindow, Window, brokerVars, linkVars
<1>3. msg \in Ids /\ msg \in Nat /\ Current = msg - 1 /\ Current' = msg
  BY <1>1, <1>2, Lengths DEF IdsInOrder, Current
<1>4. SUFFICES ASSUME NEW w \in Windows
               PROVE  /\ connections > 0
                      /\ RowsOf(w)' <= CopiesOf(w) * (connections - 1) + CopiesUpto(w, msg)
  BY <1>2, <1>3 DEF RowsCounted, CopiesOf, CopiesUpto
<1>5. /\ connections > 0
      /\ RowsOf(w) <= CopiesOf(w) * (connections - 1) + CopiesUpto(w, msg - 1)
  BY <1>2, <1>3 DEF RowsCounted
<1>6. msg \in 0 .. Len(accepted) /\ msg - 1 \in 0 .. msg
  BY <1>1, <1>3, Lengths
<1>7. /\ RowsOf(w) \in Nat /\ connections \in Nat /\ CopiesOf(w) \in Nat
      /\ CopiesUpto(w, msg) \in Nat /\ CopiesUpto(w, msg - 1) <= CopiesUpto(w, msg)
  BY <1>1, <1>6, RowsCount, CopiesCounted DEF TypesOK
<1>8. CopiesUpto(w, msg - 1) \in Nat
  <2>1. msg - 1 \in 0 .. Len(accepted)
    BY <1>1, <1>3, Lengths
  <2>2. QED BY <1>1, <2>1, CopiesCounted
<1>9. PICK x \in Nat : x = CopiesOf(w) * (connections - 1)
  <2>1. connections - 1 \in Nat
    BY <1>5, <1>7
  <2>2. CopiesOf(w) * (connections - 1) \in Nat
    BY <1>7, <2>1
  <2>3. QED BY <2>2
<1>10. RowsOf(w)' <= x + CopiesUpto(w, msg)
  <2>1. CASE w = accepted[msg]
    <3>1. RowsOf(w)' = RowsOf(w) + 1
      BY <1>1, <1>2, <2>1, OneMoreRow
    <3>2. CopiesUpto(w, msg) = CopiesUpto(w, msg - 1) + 1
      BY <1>1, <1>3, <2>1, OneMoreCopy
    <3>3. QED BY <1>5, <1>7, <1>8, <1>9, <3>1, <3>2
  <2>2. CASE w # accepted[msg]
    <3>1. RowsOf(w)' = RowsOf(w)
      BY <1>1, <1>2, <2>2, OneMoreRow
    <3>2. QED BY <1>5, <1>7, <1>8, <1>9, <3>1
  <2>3. QED BY <2>1, <2>2
<1>11. QED BY <1>5, <1>9, <1>10

LEMMA CountOfOnConnect ==
    ASSUME OrderInv, OrderInv', RowsCounted, OnConnect
    PROVE  RowsCounted'
<1>1. TypesOK /\ IdsInOrder /\ TypesOK' /\ IdsInOrder'
  BY DEF OrderInv
<1>2. /\ ~link /\ pc = "loop" /\ link' /\ connections' = connections + 1
      /\ UNCHANGED <<accepted, rows, pc>>
  BY DEF OnConnect, processVars, dbVars
<1>3. SUFFICES ASSUME NEW w \in Windows
               PROVE  /\ connections' > 0
                      /\ RowsOf(w) <= CopiesOf(w) * (connections' - 1) + CopiesUpto(w, Current)'
  BY <1>2 DEF RowsCounted, RowsOf, CopiesOf
<1>4. connections \in Nat /\ connections' > 0 /\ connections' - 1 = connections
  BY <1>1, <1>2 DEF TypesOK
<1>5. RowsOf(w) <= CopiesOf(w) * connections
  BY <1>2 DEF RowsCounted
<1>6. CopiesUpto(w, Current)' \in Nat
  <2>1. (TypesOK /\ IdsInOrder => CountsFit)'
    BY Counting, PTL
  <2>2. CountsFit'
    BY <1>1, <2>1
  <2>3. \A n \in 0 .. Len(accepted') : 0 \in 0 .. n
    BY <2>2 DEF CountsFit
  <2>4. QED BY <2>2, <2>3 DEF CountsFit, CopiesUpto
<1>7. RowsOf(w) \in Nat /\ CopiesOf(w) * connections \in Nat
  <2>1. 0 \in 0 .. Len(accepted)
    BY <1>1, Lengths
  <2>2. CopiesOf(w) \in Nat
    BY <1>1, <2>1, CopiesCounted
  <2>3. connections \in Nat /\ RowsOf(w) \in Nat
    BY <1>1, RowsCount DEF TypesOK
  <2>4. QED BY <2>2, <2>3
<1>8. QED BY <1>4, <1>5, <1>6, <1>7

\* PUBACKs and failures end the work of a connection, or leave it going on.
LEMMA CountOfEnd ==
    ASSUME OrderInv, OrderInv', RowsCounted,
           Acknowledge \/ StoreWindowRaises \/ ConnectionLost \/ Killed
    PROVE  RowsCounted'
<1> USE DEF brokerVars, linkVars, processVars, dbVars
<1>1. TypesOK /\ IdsInOrder
  BY DEF OrderInv
<1>2. UNCHANGED <<accepted, session, rows, connections, logged>>
  BY DEF Acknowledge, StoreWindowRaises, ConnectionLost, Killed, Die, CloseLink
<1>3. Grows
  BY <1>2 DEF Grows, Ids
<1>4. CASE Acknowledge /\ link
  <2>1. /\ pc = "return" /\ pc' = "loop" /\ link' = link /\ toBroker' = Append(toBroker, msg)
    BY <1>4 DEF Acknowledge
  <2>2. msg = Handled + 1
    BY <1>1, <1>4, <2>1 DEF IdsInOrder
  <2>3. Forgotten \in Int /\ Len(toBroker) \in Nat /\ Len(toBroker') = Len(toBroker) + 1
    BY <1>1, <2>1, Numbers DEF TypesOK
  <2>4. Handled' = Forgotten + (Len(toBroker) + 1) /\ Handled = Forgotten + Len(toBroker)
    BY <1>2, <2>3 DEF Handled, Forgotten
  <2>5. Current = Handled + 1 /\ Current' = Handled'
    BY <2>1, <2>2 DEF Current
  <2>6. Current <= Current'
    BY <2>3, <2>4, <2>5
  <2>7. QED BY <1>2, <1>3, <1>4, <2>1, <2>6, CountStays DEF Delivering
<1>5. CASE ConnectionLost /\ pc # "loop"
  <2>1. pc' = pc /\ msg' = msg
    BY <1>5 DEF ConnectionLost
  <2>2. Current <= Current'
    <3>1. Current' = Current
      BY <1>5, <2>1 DEF Current
    <3>2. QED BY <1>1, <3>1, CurrentFits, Numbers
  <2>3. QED BY <1>2, <1>3, <1>5, <2>1, <2>2, CountStays DEF Delivering
<1>6. CASE ~ (Acknowledge /\ link) /\ ~ (ConnectionLost /\ pc # "loop")
  <2>1. ~link' /\ pc' = "loop"
    BY <1>6 DEF Acknowledge, StoreWindowRaises, ConnectionLost, Killed, Die, CloseLink
  <2>2. QED BY <1>2, <2>1, CountCloses DEF Delivering
<1>7. QED BY <1>4, <1>5, <1>6

LEMMA NextCounts == IngestInv /\ [Next]_vars => IngestInv'
<1> SUFFICES ASSUME OrderInv, RowsCounted, [Next]_vars PROVE OrderInv' /\ RowsCounted'
  BY DEF IngestInv
<1>1. OrderInv'
  BY NextKeeps
<1>2. CASE Device \/ Broker \/ OnMessage \/ StoreWindowFails \/ Restart
  BY <1>1, <1>2, CountOfQuietStep
<1>3. CASE StoreWindow
  BY <1>1, <1>3, CountOfStoreWindow
<1>4. CASE OnConnect
  BY <1>1, <1>4, CountOfOnConnect
<1>5. CASE Acknowledge \/ StoreWindowRaises \/ ConnectionLost \/ Killed
  BY <1>1, <1>5, CountOfEnd
<1>6. CASE UNCHANGED vars
  BY <1>1, <1>6 DEF vars, RowsCounted, RowsOf, CopiesOf, CopiesUpto, Current, Handled, Forgotten,
     brokerVars, linkVars, processVars, dbVars
<1>7. QED BY <1>1, <1>2, <1>3, <1>4, <1>5, <1>6 DEF Next, Callback, Failure

(***************************************************************************)
(* A window has at most one row per copy that the broker took and per      *)
(* connection that ingest.py made: store_window (storage.py:81-99) inserts *)
(* again what is delivered again, and within a connection no id is         *)
(* delivered twice.                                                        *)
(***************************************************************************)
THEOREM RowsPerDelivery == Spec => []OncePerDelivery
<1>1. Init => IngestInv
  BY InitOrder, InitCount DEF IngestInv
<1>2. IngestInv /\ [Next]_vars => IngestInv'
  BY NextCounts
<1>3. IngestInv => OncePerDelivery
  <2> SUFFICES ASSUME OrderInv, RowsCounted, NEW w \in Windows
               PROVE  RowsOf(w) <= CopiesOf(w) * connections
    BY DEF IngestInv, OncePerDelivery
  <2>1. TypesOK /\ IdsInOrder
    BY DEF OrderInv
  <2>2. CASE link \/ pc # "loop"
    <3>1. /\ connections > 0
          /\ RowsOf(w) <= CopiesOf(w) * (connections - 1) + CopiesUpto(w, Current)
      BY <2>2 DEF RowsCounted
    <3>2. /\ RowsOf(w) \in Nat /\ connections \in Nat
          /\ CopiesOf(w) \in Nat /\ CopiesUpto(w, Current) \in Nat
          /\ CopiesUpto(w, Current) <= CopiesOf(w)
      BY <2>1, CurrentFits, RowsCount, CopiesCounted DEF TypesOK
    <3>3. QED BY <3>1, <3>2, WholeCopies
  <2>3. CASE ~ (link \/ pc # "loop")
    BY <2>3 DEF RowsCounted
  <2>4. QED BY <2>2, <2>3
<1>4. QED BY <1>1, <1>2, <1>3, PTL DEF Spec
=============================================================================
