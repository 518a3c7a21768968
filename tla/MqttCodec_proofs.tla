------------------------- MODULE MqttCodec_proofs -------------------------
(***************************************************************************)
(* Lemmas about lib/mqtt_msg.c and lib/mqtt5_msg.c: what is encoded is     *)
(* read back, for every number, string, list of properties and buffer.     *)
(* Mqtt5_proofs and MqttWire_proofs rest on them.                          *)
(***************************************************************************)
EXTENDS Mqtt5Msg, SequenceTheorems, FiniteSetTheorems, WellFoundedInduction, TLAPS

----------------------------------------------------------------------------
(* Induction *)

\* A set of naturals that has each number whose predecessors it has is all of them.
LEMMA NatSetStrong ==
    ASSUME NEW S, \A n \in Nat : (\A m \in 0 .. n - 1 : m \in S) => n \in S
    PROVE  Nat \subseteq S
<1> DEFINE T == Nat \ S
           R == {ss \in Nat \X Nat : ss[1] < ss[2]}
<1>1. SUFFICES ASSUME T # {} PROVE FALSE
  OBVIOUS
<1>2. IsWellFoundedOn(R, Nat)
  BY NatLessThanWellFounded, Zenon DEF OpToRel
<1>3. PICK n \in T : \A m \in T : ~ (<<m, n>> \in R)
  <2> HIDE DEF R, T
  <2>1. T \subseteq Nat
    BY DEF T
  <2> QED BY <1>1, <1>2, <2>1, WFMin
<1>4. \A m \in 0 .. n - 1 : m \in S
  <2> TAKE m \in 0 .. n - 1
  <2>1. n \in Nat /\ m \in Nat /\ m < n
    OBVIOUS
  <2>2. <<m, n>> \in R
    BY <2>1
  <2> QED BY <1>3, <2>1, <2>2
<1>5. QED BY <1>3, <1>4

LEMMA NatSetInduction ==
    ASSUME NEW S, 0 \in S, \A n \in Nat : n \in S => n + 1 \in S
    PROVE  Nat \subseteq S
<1>1. ASSUME NEW n \in Nat, \A m \in 0 .. n - 1 : m \in S PROVE n \in S
  <2>1. CASE n = 0
    BY <2>1
  <2>2. CASE n # 0
    <3>1. n - 1 \in 0 .. n - 1 /\ n - 1 \in Nat /\ (n - 1) + 1 = n
      BY <2>2
    <3> QED BY <1>1, <3>1
  <2> QED BY <2>1, <2>2
<1> QED BY <1>1, NatSetStrong

----------------------------------------------------------------------------
(* The base-128 digits of a length *)

\* The recursive function is what its definition says.
LEMMA RemainingLengthSteps ==
    \A n \in Nat : remaining_length[n] =
        IF n < 128 THEN <<n>> ELSE <<128 + (n % 128)>> \o remaining_length[n \div 128]
<1> DEFINE Body(g, n) == IF n < 128 THEN <<n>> ELSE <<128 + (n % 128)>> \o g[n \div 128]
           Upto(g, n) == g = [m \in 0 .. n |-> Body(g, m)]
           Defines(g) == g = [m \in Nat |-> Body(g, m)]
           Chosen == CHOOSE g : Defines(g)
<1>0. \A n \in Nat : n >= 128 => n \div 128 \in 0 .. n - 1
  OBVIOUS
<1>1. \A g, h : \A n \in Nat : (\A m \in 0 .. n - 1 : g[m] = h[m]) => Body(g, n) = Body(h, n)
  <2> TAKE g, h
  <2> TAKE n \in Nat
  <2> HAVE \A m \in 0 .. n - 1 : g[m] = h[m]
  <2>1. CASE n < 128
    BY <2>1
  <2>2. CASE ~ (n < 128)
    <3>1. g[n \div 128] = h[n \div 128]
      BY <1>0, <2>2
    <3> QED BY <2>2, <3>1
  <2> QED BY <2>1, <2>2
<1> HIDE DEF Body
\* two of them agree where both are defined
<1>2. \A n \in Nat : \A a, b \in Nat : \A g, h :
          Upto(g, a) /\ Upto(h, b) /\ n <= a /\ n <= b => g[n] = h[n]
  <2> DEFINE Agree(n) == \A a, b \in Nat : \A g, h :
                             Upto(g, a) /\ Upto(h, b) /\ n <= a /\ n <= b => g[n] = h[n]
             S == {n \in Nat : Agree(n)}
  <2>1. ASSUME NEW n \in Nat, \A m \in 0 .. n - 1 : m \in S PROVE n \in S
    <3> SUFFICES ASSUME NEW a \in Nat, NEW b \in Nat, NEW g, NEW h,
                        Upto(g, a), Upto(h, b), n <= a, n <= b
                 PROVE  g[n] = h[n]
      OBVIOUS
    <3>1. \A m \in 0 .. n - 1 : g[m] = h[m]
      <4> TAKE m \in 0 .. n - 1
      <4>1. Agree(m) /\ m <= a /\ m <= b
        BY <2>1
      <4> HIDE DEF Upto
      <4> QED BY <4>1
    <3>2. g[n] = Body(g, n)
      <4> n \in 0 .. a
        OBVIOUS
      <4> QED BY Zenon
    <3>3. h[n] = Body(h, n)
      <4> n \in 0 .. b
        OBVIOUS
      <4> QED BY Zenon
    <3> HIDE DEF Upto
    <3> QED BY <1>1, <3>1, <3>2, <3>3
  <2>2. Nat \subseteq S
    <3> HIDE DEF S
    <3> QED BY <2>1, NatSetStrong
  <2> HIDE DEF Agree
  <2>3. \A n \in Nat : Agree(n)
    BY <2>2
  <2> QED BY <2>3 DEF Agree
<1>3. \A n \in Nat : \E g : Upto(g, n)
  <2> DEFINE S == {n \in Nat : \E g : Upto(g, n)}
  <2>1. ASSUME NEW n \in Nat, \A m \in 0 .. n - 1 : m \in S PROVE n \in S
    <3> DEFINE piece == [m \in 0 .. n - 1 |-> CHOOSE f : Upto(f, m)]
               g == [m \in 0 .. n - 1 |-> piece[m][m]]
               h == [m \in 0 .. n |-> IF m < n THEN g[m] ELSE Body(g, n)]
    <3>1. \A m \in 0 .. n - 1 : Upto(piece[m], m)
      <4> HIDE DEF Upto
      <4> TAKE m \in 0 .. n - 1
      <4>1. \E f : Upto(f, m)
        BY <2>1
      <4>2. piece[m] = CHOOSE f : Upto(f, m)
        OBVIOUS
      <4> HIDE DEF piece
      <4> QED BY <4>1, <4>2
    <3>2. \A m \in 0 .. n - 1 : g[m] = Body(g, m)
      <4> TAKE m \in 0 .. n - 1
      <4>1. g[m] = piece[m][m]
        OBVIOUS
      <4>2. piece[m][m] = Body(piece[m], m)
        <5> HIDE DEF piece
        <5>1. m \in 0 .. m
          OBVIOUS
        <5>2. PICK f : f = piece[m]
          OBVIOUS
        <5>3. f = [k \in 0 .. m |-> Body(f, k)]
          BY <3>1, <5>2
        <5>4. f[m] = Body(f, m)
          BY <5>1, <5>3, Zenon
        <5> QED BY <5>2, <5>4
      <4>3. \A k \in 0 .. m - 1 : piece[m][k] = g[k]
        <5> TAKE k \in 0 .. m - 1
        <5>1. k \in 0 .. n - 1 /\ k \in Nat /\ m \in Nat /\ k <= m /\ k <= k
          OBVIOUS
        <5>2. g[k] = piece[k][k]
          BY <5>1
        <5>3. Upto(piece[k], k) /\ Upto(piece[m], m)
          BY <3>1, <5>1
        <5> HIDE DEF piece, g, Upto
        <5>4. piece[m][k] = piece[k][k]
          BY <1>2, <5>1, <5>3
        <5> QED BY <5>2, <5>4
      <4> HIDE DEF piece, g
      <4>4. Body(piece[m], m) = Body(g, m)
        BY <1>1, <4>3
      <4> QED BY <4>1, <4>2, <4>4
    <3> HIDE DEF g
    <3>3. \A m \in 0 .. n - 1 : h[m] = g[m]
      OBVIOUS
    <3>4. h[n] = Body(g, n)
      OBVIOUS
    <3>5. \A m \in 0 .. n : h[m] = Body(h, m)
      <4> HIDE DEF h
      <4> TAKE m \in 0 .. n
      <4>1. \A k \in 0 .. m - 1 : h[k] = g[k]
        BY <3>3
      <4>2. Body(h, m) = Body(g, m)
        BY <1>1, <4>1
      <4> QED BY <3>2, <3>3, <3>4, <4>2
    <3>6. Upto(h, n)
      BY <3>5
    <3> HIDE DEF Upto
    <3> QED BY <3>6
  <2>2. Nat \subseteq S
    <3> HIDE DEF S
    <3> QED BY <2>1, NatSetStrong
  <2> QED BY <2>2
<1>4. \E g : Defines(g)
  <2> DEFINE piece == [n \in Nat |-> CHOOSE f : Upto(f, n)]
             g == [n \in Nat |-> piece[n][n]]
  <2>1. \A n \in Nat : Upto(piece[n], n)
    <3> HIDE DEF Upto
    <3> TAKE n \in Nat
    <3>1. piece[n] = CHOOSE f : Upto(f, n)
      OBVIOUS
    <3> HIDE DEF piece
    <3> QED BY <1>3, <3>1
  <2>2. \A n \in Nat : g[n] = Body(g, n)
    <3> TAKE n \in Nat
    <3>1. g[n] = piece[n][n]
      OBVIOUS
    <3>2. piece[n][n] = Body(piece[n], n)
      <4> HIDE DEF piece
      <4>1. n \in 0 .. n
        OBVIOUS
      <4>2. PICK f : f = piece[n]
        OBVIOUS
      <4>3. f = [k \in 0 .. n |-> Body(f, k)]
        BY <2>1, <4>2
      <4>4. f[n] = Body(f, n)
        BY <4>1, <4>3, Zenon
      <4> QED BY <4>2, <4>4
    <3>3. \A k \in 0 .. n - 1 : piece[n][k] = g[k]
      <4> TAKE k \in 0 .. n - 1
      <4>1. k \in Nat /\ k <= n /\ k <= k
        OBVIOUS
      <4>2. g[k] = piece[k][k]
        BY <4>1
      <4>3. Upto(piece[k], k) /\ Upto(piece[n], n)
        BY <2>1, <4>1
      <4> HIDE DEF piece, g, Upto
      <4>4. piece[n][k] = piece[k][k]
        BY <1>2, <4>1, <4>3
      <4> QED BY <4>2, <4>4
    <3> HIDE DEF piece, g
    <3>4. Body(piece[n], n) = Body(g, n)
      BY <1>1, <3>3
    <3> QED BY <3>1, <3>2, <3>4
  <2>3. Defines(g)
    <3> HIDE DEF piece
    <3> QED BY <2>2
  <2> HIDE DEF Defines
  <2> QED BY <2>3
<1>5. Defines(Chosen)
  <2> HIDE DEF Defines
  <2> QED BY <1>4
<1>6. remaining_length = Chosen
  BY DEF remaining_length, Body
<1> HIDE DEF Chosen
<1>7. \A n \in Nat : remaining_length[n] = Body(remaining_length, n)
  BY <1>5, <1>6, Zenon
<1> QED BY <1>7 DEF Body


LEMMA RemainingLengthType ==
    ASSUME NEW number \in Nat
    PROVE  /\ remaining_length[number] \in Seq(Nat) /\ Len(remaining_length[number]) >= 1
           /\ \A i \in 1 .. Len(remaining_length[number]) :
                  HighBit(remaining_length[number][i]) <=> i # Len(remaining_length[number])
<1> DEFINE Good(r) == /\ r \in Seq(Nat) /\ Len(r) >= 1
                      /\ \A i \in 1 .. Len(r) : HighBit(r[i]) <=> i # Len(r)
           S == {k \in Nat : Good(remaining_length[k])}
<1>1. ASSUME NEW k \in Nat, \A m \in 0 .. k - 1 : m \in S PROVE k \in S
  <2>1. CASE k < 128
    <3>1. remaining_length[k] = <<k>> /\ k \in Nat
      <4>1. remaining_length[k] =
                IF k < 128 THEN <<k>> ELSE <<128 + (k % 128)>> \o remaining_length[k \div 128]
        BY RemainingLengthSteps, Zenon
      <4>2. k < 128 => remaining_length[k] = <<k>>
        BY <4>1, Zenon
      <4> QED BY <2>1, <4>2
    <3>2. Good(<<k>>)
      BY <2>1, <3>1 DEF HighBit
    <3> HIDE DEF Good
    <3> QED BY <3>1, <3>2
  <2>2. CASE k >= 128
    <3>1. k \div 128 \in 0 .. k - 1 /\ 128 + (k % 128) \in Nat /\ 128 + (k % 128) >= 128
      BY <2>2
    <3>2. PICK r : r = remaining_length[k \div 128]
      OBVIOUS
    <3>3. PICK c : c = 128 + (k % 128)
      OBVIOUS
    <3>4. remaining_length[k] = <<c>> \o r
      <4>1. remaining_length[k] =
                IF k < 128 THEN <<k>> ELSE <<128 + (k % 128)>> \o remaining_length[k \div 128]
        BY RemainingLengthSteps, Zenon
      <4>2. ~ (k < 128)
        BY <2>2
      <4> QED BY <3>2, <3>3, <4>1, <4>2, Zenon
    <3>5. Good(r)
      <4> HIDE DEF Good
      <4> QED BY <1>1, <3>1, <3>2
    <3>6. c \in Nat /\ HighBit(c)
      BY <3>1, <3>3 DEF HighBit
    <3>7. Good(<<c>> \o r)
      <4>1. <<c>> \o r \in Seq(Nat) /\ Len(<<c>> \o r) = 1 + Len(r)
        BY <3>5, <3>6
      <4>2. ASSUME NEW i \in 1 .. 1 + Len(r)
            PROVE  HighBit((<<c>> \o r)[i]) <=> i # 1 + Len(r)
        <5>1. CASE i = 1
          BY <3>5, <3>6, <5>1
        <5>2. CASE i # 1
          <6>1. i - 1 \in 1 .. Len(r) /\ (<<c>> \o r)[i] = r[i - 1]
            BY <3>5, <3>6, <5>2
          <6>2. HighBit(r[i - 1]) <=> i - 1 # Len(r)
            BY <3>5, <6>1
          <6> QED BY <3>5, <6>1, <6>2
        <5> QED BY <5>1, <5>2
      <4> QED BY <3>5, <4>1, <4>2
    <3> HIDE DEF Good
    <3> QED BY <3>4, <3>7
  <2> QED BY <2>1, <2>2
<1>2. Nat \subseteq S
  <2> HIDE DEF S
  <2> QED BY <1>1, NatSetStrong
<1> HIDE DEF Good
<1>3. Good(remaining_length[number])
  BY <1>2
<1> QED BY <1>3 DEF Good

\* The digits of a number, read one by one.
LEMMA Base128Steps ==
    ASSUME NEW b, NEW o \in Nat, NEW s \in Nat
    PROVE  /\ Base128(b, o, 0) = 0
           /\ Base128(b, o, s + 1) = (b[o + 1] % 128) + 128 * Base128(b, o + 1, s)
<1> DEFINE Body(e, g, i) == IF i = 0 THEN 0 ELSE (b[e - i + 1] % 128) + 128 * g[i - 1]
           Upto(e, g, n) == g = [i \in 0 .. n |-> Body(e, g, i)]
<1>1. \A e \in Nat : \A g, h : \A i \in Nat :
          (i # 0 => g[i - 1] = h[i - 1]) => Body(e, g, i) = Body(e, h, i)
  OBVIOUS
<1>2. \A e \in Nat : \A n \in Nat : \E g : Upto(e, g, n)
  <2> TAKE e \in Nat
  <2> DEFINE S == {n \in Nat : \E g : Upto(e, g, n)}
  <2>1. 0 \in S
    <3> DEFINE g == [i \in 0 .. 0 |-> 0]
    <3>1. Upto(e, g, 0)
      OBVIOUS
    <3> QED BY <3>1
  <2>2. ASSUME NEW n \in Nat, n \in S PROVE n + 1 \in S
    <3>1. PICK g : Upto(e, g, n)
      BY <2>2
    <3> HIDE DEF Body
    <3> DEFINE h == [i \in 0 .. n + 1 |-> IF i <= n THEN g[i] ELSE Body(e, g, n + 1)]
    <3>2. \A i \in 0 .. n : h[i] = g[i]
      OBVIOUS
    <3>3. \A i \in 0 .. n : g[i] = Body(e, g, i)
      BY <3>1, Zenon
    <3>4. h[n + 1] = Body(e, g, n + 1)
      OBVIOUS
    <3> HIDE DEF h
    <3>5. \A i \in 0 .. n + 1 : h[i] = Body(e, h, i)
      <4> TAKE i \in 0 .. n + 1
      <4>1. i # 0 => h[i - 1] = g[i - 1]
        BY <3>2
      <4>2. Body(e, h, i) = Body(e, g, i)
        BY <1>1, <4>1
      <4>3. CASE i <= n
        BY <3>2, <3>3, <4>2, <4>3
      <4>4. CASE i = n + 1
        BY <3>4, <4>2, <4>4
      <4> QED BY <4>3, <4>4
    <3>6. Upto(e, h, n + 1)
      BY <3>5 DEF h
    <3> HIDE DEF Upto
    <3> QED BY <3>6
  <2>3. Nat \subseteq S
    <3> HIDE DEF S
    <3> QED BY <2>1, <2>2, NatSetInduction
  <2> QED BY <2>3
<1> DEFINE Reads(p, n, value) ==
               value = [i \in 0 .. n |-> IF i = 0 THEN 0
                                         ELSE (b[p + n - i + 1] % 128) + 128 * value[i - 1]]
           Value128(p, n) == CHOOSE value : Reads(p, n, value)
<1>3. \A p, n : Base128(b, p, n) = Value128(p, n)[n]
  BY DEF Base128
<1>4. \A p, n \in Nat : Upto(p + n, Value128(p, n), n)
  <2> TAKE p, n \in Nat
  <2>1. \E g : Upto(p + n, g, n)
    <3> HIDE DEF Upto
    <3>1. p + n \in Nat
      OBVIOUS
    <3> QED BY <1>2, <3>1
  <2>2. \A g : Reads(p, n, g) <=> Upto(p + n, g, n)
    OBVIOUS
  <2> HIDE DEF Upto, Reads
  <2> QED BY <2>1, <2>2
<1> HIDE DEF Body, Value128
<1>5. \A p, n \in Nat : \A i \in 0 .. n : Value128(p, n)[i] = Body(p + n, Value128(p, n), i)
  <2> TAKE p, n \in Nat
  <2> PICK g : g = Value128(p, n)
    OBVIOUS
  <2>1. g = [i \in 0 .. n |-> Body(p + n, g, i)]
    BY <1>4
  <2> QED BY <2>1, Zenon
<1> HIDE DEF Upto
<1>6. PICK g, h : g = Value128(o + 1, s) /\ h = Value128(o, s + 1)
  OBVIOUS
<1>7. PICK e \in Nat : e = o + (s + 1) /\ e = (o + 1) + s
  OBVIOUS
<1>8. \A i \in 0 .. s : g[i] = Body(e, g, i)
  BY <1>5, <1>6, <1>7, o + 1 \in Nat, ZenonT(60)
<1>9. \A i \in 0 .. s + 1 : h[i] = Body(e, h, i)
  BY <1>5, <1>6, <1>7, s + 1 \in Nat, ZenonT(60)
<1>10. \A i \in 0 .. s : g[i] = h[i]
  <2> DEFINE S == {i \in Nat : i <= s => g[i] = h[i]}
  <2>1. 0 \in S
    BY <1>8, <1>9 DEF Body
  <2>2. ASSUME NEW i \in Nat, i \in S PROVE i + 1 \in S
    <3> SUFFICES ASSUME i + 1 <= s PROVE g[i + 1] = h[i + 1]
      OBVIOUS
    <3>1. g[i] = h[i] /\ (i + 1) - 1 = i /\ i + 1 \in 0 .. s /\ i + 1 \in 0 .. s + 1
      BY <2>2
    <3>2. Body(e, g, i + 1) = Body(e, h, i + 1)
      BY <1>1, <3>1
    <3> QED BY <1>8, <1>9, <3>1, <3>2
  <2>3. Nat \subseteq S
    <3> HIDE DEF S
    <3> QED BY <2>1, <2>2, NatSetInduction
  <2> QED BY <2>3
<1>11. Base128(b, o, 0) = 0
  <2>1. o + 0 \in Nat /\ 0 \in Nat /\ 0 \in 0 .. 0
    OBVIOUS
  <2>2. Value128(o, 0)[0] = Body(o + 0, Value128(o, 0), 0)
    BY <1>5, <2>1, Zenon
  <2> QED BY <1>3, <2>2 DEF Body
<1>12. h[s + 1] = (b[o + 1] % 128) + 128 * g[s]
  <2>1. e - (s + 1) + 1 = o + 1 /\ (s + 1) - 1 = s /\ s + 1 # 0 /\ s + 1 \in 0 .. s + 1
    BY <1>7
  <2>2. h[s + 1] = Body(e, h, s + 1) /\ h[s] = g[s]
    BY <1>9, <1>10, <2>1
  <2> QED BY <2>1, <2>2 DEF Body
<1> QED BY <1>3, <1>6, <1>11, <1>12, Zenon

----------------------------------------------------------------------------
(* Where bytes are in a buffer *)

\* The bytes s are in the buffer b after its first o.
At(b, o, s) ==
    /\ o \in Nat /\ o + Len(s) <= Len(b)
    /\ \A i \in 1 .. Len(s) : b[o + i] = s[i]

LEMMA AtWhole == \A s \in Seq(Nat) : At(s, 0, s)
BY DEF At

LEMMA AtConcat ==
    ASSUME NEW buffer \in Seq(Nat), NEW offset \in Nat, NEW front \in Seq(Nat), NEW back \in Seq(Nat)
    PROVE  At(buffer, offset, front \o back) <=> At(buffer, offset, front) /\ At(buffer, offset + Len(front), back)
<1>1. /\ Len(front \o back) = Len(front) + Len(back)
      /\ \A i \in 1 .. Len(front) : i \in 1 .. Len(front \o back) /\ (front \o back)[i] = front[i]
      /\ \A i \in 1 .. Len(back) : /\ Len(front) + i \in 1 .. Len(front \o back) /\ (front \o back)[Len(front) + i] = back[i]
      /\ \A i \in 1 .. Len(front \o back) : i \in 1 .. Len(front) \/ i - Len(front) \in 1 .. Len(back)
  OBVIOUS
<1>2. Len(front) \in Nat /\ Len(back) \in Nat /\ Len(buffer) \in Nat
  OBVIOUS
<1> DEFINE u == front \o back
<1> HIDE DEF u
<1>3. ASSUME At(buffer, offset, u) PROVE At(buffer, offset, front) /\ At(buffer, offset + Len(front), back)
  <2>1. \A i \in 1 .. Len(front) : buffer[offset + i] = front[i]
    BY <1>1, <1>3 DEF At, u
  <2>2. \A i \in 1 .. Len(back) : buffer[(offset + Len(front)) + i] = back[i]
    <3> TAKE i \in 1 .. Len(back)
    <3>1. buffer[offset + (Len(front) + i)] = back[i]
      BY <1>1, <1>3 DEF At, u
    <3>2. offset + (Len(front) + i) = (offset + Len(front)) + i
      BY <1>2
    <3> QED BY <3>1, <3>2
  <2> QED BY <1>1, <1>2, <1>3, <2>1, <2>2 DEF At, u
<1>4. ASSUME At(buffer, offset, front), At(buffer, offset + Len(front), back) PROVE At(buffer, offset, u)
  <2>1. ASSUME NEW i \in 1 .. Len(u) PROVE buffer[offset + i] = u[i]
    <3>1. CASE i \in 1 .. Len(front)
      BY <1>1, <1>4, <3>1 DEF At, u
    <3>2. CASE i - Len(front) \in 1 .. Len(back)
      <4>1. buffer[(offset + Len(front)) + (i - Len(front))] = back[i - Len(front)]
        BY <1>4, <3>2 DEF At
      <4>2. (offset + Len(front)) + (i - Len(front)) = offset + i /\ Len(front) + (i - Len(front)) = i
        BY <1>2, <2>1
      <4>3. u[i] = back[i - Len(front)]
        BY <1>1, <3>2, <4>2 DEF u
      <4> QED BY <4>1, <4>2, <4>3
    <3> QED BY <1>1, <2>1, <3>1, <3>2 DEF u
  <2> QED BY <1>1, <1>2, <1>4, <2>1 DEF At, u
<1> QED BY <1>3, <1>4 DEF u

LEMMA AtSub ==
    ASSUME NEW buffer \in Seq(Nat), NEW offset \in Nat, NEW bytes \in Seq(Nat), At(buffer, offset, bytes)
    PROVE  SubSeq(buffer, offset + 1, offset + Len(bytes)) = bytes
<1>1. offset + 1 \in Nat /\ offset + Len(bytes) \in Nat /\ offset + Len(bytes) <= Len(buffer) /\ Len(bytes) \in Nat
  BY DEF At
<1> DEFINE r == SubSeq(buffer, offset + 1, offset + Len(bytes))
<1>2. r \in Seq(Nat) /\ Len(r) = Len(bytes)
  BY <1>1
<1>3. \A i \in 1 .. Len(bytes) : r[i] = bytes[i]
  BY <1>1 DEF At
<1> HIDE DEF r
<1>4. r = bytes
  BY <1>2, <1>3, SeqEqual
<1> QED BY <1>4 DEF r

\* Empty bytes are anywhere.
LEMMA AtNone == \A b \in Seq(Nat) : \A o \in 0 .. Len(b) : At(b, o, <<>>)
BY DEF At

LEMMA WordType ==
    ASSUME NEW number \in Nat
    PROVE  Word(number) \in Seq(Nat) /\ Len(Word(number)) = 2
<1>1. number \div 256 \in Nat /\ number % 256 \in Nat
  OBVIOUS
<1> QED BY <1>1 DEF Word

LEMMA WordRead ==
    ASSUME NEW buffer, NEW offset \in Nat, NEW number \in Nat, At(buffer, offset, Word(number))
    PROVE  WordAt(buffer, offset) = number
<1>1. buffer[offset + 1] = number \div 256 /\ buffer[offset + 2] = number % 256
  <2>1. PICK p, q : p = number \div 256 /\ q = number % 256
    OBVIOUS
  <2>2. Word(number) = <<p, q>>
    BY <2>1 DEF Word
  <2>3. Len(<<p, q>>) = 2 /\ <<p, q>>[1] = p /\ <<p, q>>[2] = q
    OBVIOUS
  <2>4. 1 \in 1 .. 2 /\ 2 \in 1 .. 2
    OBVIOUS
  <2> QED BY <2>1, <2>2, <2>3, <2>4 DEF At
<1>2. (number \div 256) * 256 + (number % 256) = number
  OBVIOUS
<1> QED BY <1>1, <1>2 DEF WordAt

\* The digits of a length give the length again.
LEMMA DigitsRead ==
    ASSUME NEW number \in Nat, NEW buffer, NEW offset \in Nat, At(buffer, offset, remaining_length[number])
    PROVE  Base128(buffer, offset, Len(remaining_length[number])) = number
<1> DEFINE S == {k \in Nat : \A p \in Nat : At(buffer, p, remaining_length[k])
                                  => Base128(buffer, p, Len(remaining_length[k])) = k}
<1>0. ASSUME NEW p \in Nat
      PROVE  /\ Base128(buffer, p, 0) = 0
             /\ \A q \in Nat : Base128(buffer, p, q + 1) = (buffer[p + 1] % 128) + 128 * Base128(buffer, p + 1, q)
  <2>1. Base128(buffer, p, 0) = 0
    BY Base128Steps, 0 \in Nat
  <2>2. ASSUME NEW q \in Nat
        PROVE  Base128(buffer, p, q + 1) = (buffer[p + 1] % 128) + 128 * Base128(buffer, p + 1, q)
    <3> DEFINE P(u, v, w) == /\ Base128(u, v, 0) = 0
                             /\ Base128(u, v, w + 1) = (u[v + 1] % 128) + 128 * Base128(u, v + 1, w)
    <3>1. \A u : \A v, w \in Nat : P(u, v, w)
      BY Base128Steps, Zenon
    <3>2. P(buffer, p, q)
      <4> HIDE DEF P
      <4> QED BY <3>1
    <3> QED BY <3>2
  <2> QED BY <2>1, <2>2
<1>1. ASSUME NEW k \in Nat, \A m \in 0 .. k - 1 : m \in S PROVE k \in S
  <2> SUFFICES ASSUME NEW p \in Nat, At(buffer, p, remaining_length[k])
               PROVE  Base128(buffer, p, Len(remaining_length[k])) = k
    OBVIOUS
  <2>0. remaining_length[k] =
            IF k < 128 THEN <<k>> ELSE <<128 + (k % 128)>> \o remaining_length[k \div 128]
    BY RemainingLengthSteps, Zenon
  <2>1. CASE k < 128
    <3>1. remaining_length[k] = <<k>>
      BY <2>0, <2>1, Zenon
    <3>2. Len(<<k>>) = 1 /\ buffer[p + 1] = k
      BY <3>1 DEF At
    <3>3. Base128(buffer, p, 0 + 1) = (buffer[p + 1] % 128) + 128 * Base128(buffer, p + 1, 0)
      BY <1>0, 0 \in Nat, ZenonT(60)
    <3>4. Base128(buffer, p + 1, 0) = 0
      BY <1>0, p + 1 \in Nat
    <3>5. k % 128 = k
      BY <2>1
    <3> QED BY <3>1, <3>2, <3>3, <3>4, <3>5
  <2>2. CASE ~ (k < 128)
    <3>1. PICK m \in 0 .. k - 1 : m = k \div 128
      BY <2>2
    <3>2. PICK c \in Nat : c = 128 + (k % 128)
      OBVIOUS
    <3>3. PICK r \in Seq(Nat) : r = remaining_length[m]
      BY <3>1, RemainingLengthType, m \in Nat
    <3>4. remaining_length[k] = <<c>> \o r
      BY <2>0, <2>2, <3>1, <3>2, <3>3, Zenon
    <3>5. Len(<<c>> \o r) = Len(r) + 1
      OBVIOUS
    <3>6. buffer[p + 1] = c /\ At(buffer, p + 1, r)
      <4>1. Len(r) \in Nat /\ \A i \in 1 .. Len(r) : (<<c>> \o r)[i + 1] = r[i] /\ i + 1 \in 1 .. Len(r) + 1
        OBVIOUS
      <4>2. (<<c>> \o r)[1] = c /\ 1 \in 1 .. Len(r) + 1
        OBVIOUS
      <4>3. p + Len(<<c>> \o r) <= Len(buffer)
        BY <3>4 DEF At
      <4>4. \A i \in 1 .. Len(r) + 1 : buffer[p + i] = (<<c>> \o r)[i]
        BY <3>4, <3>5 DEF At
      <4>5. \A i \in 1 .. Len(r) : buffer[(p + 1) + i] = r[i]
        <5> TAKE i \in 1 .. Len(r)
        <5>1. (p + 1) + i = p + (i + 1)
          OBVIOUS
        <5> QED BY <4>1, <4>4, <5>1
      <4>6. p + (Len(r) + 1) = (p + 1) + Len(r)
        BY <4>1
      <4> HIDE DEF At
      <4>7. (p + 1) + Len(r) <= Len(buffer)
        BY <3>5, <4>3, <4>6
      <4>8. buffer[p + 1] = c
        BY <4>2, <4>4
      <4> QED BY <4>5, <4>7, <4>8 DEF At
    <3>7. Base128(buffer, p + 1, Len(r)) = m
      BY <1>1, <3>3, <3>6, p + 1 \in Nat
    <3>8. Base128(buffer, p, Len(r) + 1) = (c % 128) + 128 * m
      <4>1. Base128(buffer, p, Len(r) + 1) = (buffer[p + 1] % 128) + 128 * Base128(buffer, p + 1, Len(r))
        BY <1>0, Len(r) \in Nat, ZenonT(60)
      <4> QED BY <3>6, <3>7, <4>1, Zenon
    <3>9. (c % 128) + 128 * m = k
      BY <3>1, <3>2
    <3> QED BY <3>4, <3>5, <3>8, <3>9
  <2> QED BY <2>1, <2>2
<1>2. Nat \subseteq S
  <2> HIDE DEF S
  <2> QED BY <1>1, NatSetStrong
<1> QED BY <1>2

LEMMA VarLenRead ==
    ASSUME NEW number \in Nat, NEW buffer \in Seq(Nat), NEW offset \in Nat, At(buffer, offset, remaining_length[number]),
           NEW limit \in Nat, offset + Len(remaining_length[number]) <= limit, limit <= Len(buffer)
    PROVE  get_variable_len(buffer, offset, limit) = [len |-> number, bytes |-> Len(remaining_length[number])]
<1>1. PICK r \in Seq(Nat) : r = remaining_length[number]
  BY RemainingLengthType
<1>2. Len(r) \in Nat /\ Len(r) >= 1 /\ \A i \in 1 .. Len(r) : HighBit(r[i]) <=> i # Len(r)
  BY <1>1, RemainingLengthType
<1> DEFINE ends == {i \in offset + 1 .. limit : ~ HighBit(buffer[i])}
           e == offset + Len(r)
<1>3. \A i \in 1 .. Len(r) : buffer[offset + i] = r[i]
  BY <1>1 DEF At
<1>4. e \in ends
  <2>1. e \in offset + 1 .. limit /\ Len(r) \in 1 .. Len(r)
    BY <1>1, <1>2
  <2>2. buffer[e] = r[Len(r)] /\ ~ HighBit(r[Len(r)])
    BY <1>2, <1>3, <2>1
  <2> QED BY <2>1, <2>2
<1>5. \A i \in ends : i >= e
  <2> SUFFICES ASSUME NEW i \in offset + 1 .. limit, ~ HighBit(buffer[i]), i < e PROVE FALSE
    <3>1. e \in Nat
      BY <1>2
    <3> HIDE DEF e
    <3> QED BY <3>1
  <2>1. i - offset \in 1 .. Len(r) /\ i - offset # Len(r) /\ offset + (i - offset) = i
    BY <1>2
  <2> QED BY <1>2, <1>3, <2>1
<1>6. Min(ends) = e /\ ends # {}
  <2>1. \A x, y \in ends : x \in Int /\ y \in Int
    OBVIOUS
  <2> HIDE DEF ends, e
  <2> QED BY <1>4, <1>5, <2>1 DEF Min
<1>7. e - offset = Len(r)
  BY <1>2
<1>8. Base128(buffer, offset, Len(r)) = number
  BY <1>1, DigitsRead
<1>9. get_variable_len(buffer, offset, limit) = [len |-> Base128(buffer, offset, e - offset), bytes |-> e - offset]
  <2> HIDE DEF e
  <2> QED BY <1>6, Zenon DEF get_variable_len
<1> QED BY <1>1, <1>7, <1>8, <1>9

----------------------------------------------------------------------------
(* Reading properties one by one *)

LEMMA PropertiesSteps ==
    ASSUME NEW b, NEW known, NEW o \in Nat, NEW n \in Nat
    PROVE  /\ Properties(b, o, 0, known) = <<>>
           /\ \A k \in 1 .. n : PropertyAt(b, o, known).len = k =>
                  Properties(b, o, n, known) =
                      <<PropertyAt(b, o, known).field>> \o Properties(b, o + k, n - k, known)
<1> DEFINE Next5(e, i) == PropertyAt(b, e - i, known)
           Body(e, g, i) ==
               IF i = 0 THEN <<>>
               ELSE <<Next5(e, i).field>>
                      \o (IF i - Next5(e, i).len \in 0 .. i - 1 THEN g[i - Next5(e, i).len] ELSE <<>>)
           Upto(e, g, m) == g = [i \in 0 .. m |-> Body(e, g, i)]
<1> HIDE DEF Next5
<1>1. \A e \in Nat : \A g, h : \A i \in Nat :
          (\A m \in 0 .. i - 1 : g[m] = h[m]) => Body(e, g, i) = Body(e, h, i)
  <2> TAKE e \in Nat
  <2> TAKE g, h
  <2> TAKE i \in Nat
  <2> HAVE \A m \in 0 .. i - 1 : g[m] = h[m]
  <2> PICK left : left = i - Next5(e, i).len
    OBVIOUS
  <2>1. CASE left \in 0 .. i - 1
    <3>1. g[left] = h[left]
      BY <2>1
    <3> QED BY <3>1
  <2>2. CASE ~ (left \in 0 .. i - 1)
    BY <2>2
  <2> QED BY <2>1, <2>2
<1>2. \A e \in Nat : \A m \in Nat : \E g : Upto(e, g, m)
  <2> TAKE e \in Nat
  <2> DEFINE S == {m \in Nat : \E g : Upto(e, g, m)}
  <2>1. 0 \in S
    <3> DEFINE g == [i \in 0 .. 0 |-> <<>>]
    <3>1. \A i \in 0 .. 0 : Body(e, g, i) = <<>>
      OBVIOUS
    <3> HIDE DEF Body
    <3>2. Upto(e, g, 0)
      BY <3>1
    <3> QED BY <3>2
  <2>2. ASSUME NEW m \in Nat, m \in S PROVE m + 1 \in S
    <3>1. PICK g : Upto(e, g, m)
      BY <2>2
    <3> HIDE DEF Body
    <3> DEFINE h == [i \in 0 .. m + 1 |-> IF i <= m THEN g[i] ELSE Body(e, g, m + 1)]
    <3>2. \A i \in 0 .. m : h[i] = g[i]
      OBVIOUS
    <3>3. \A i \in 0 .. m : g[i] = Body(e, g, i)
      BY <3>1, Zenon
    <3>4. h[m + 1] = Body(e, g, m + 1)
      OBVIOUS
    <3> HIDE DEF h
    <3>5. \A i \in 0 .. m + 1 : h[i] = Body(e, h, i)
      <4> TAKE i \in 0 .. m + 1
      <4>1. \A k \in 0 .. i - 1 : h[k] = g[k]
        BY <3>2
      <4>2. Body(e, h, i) = Body(e, g, i)
        BY <1>1, <4>1
      <4>3. CASE i <= m
        BY <3>2, <3>3, <4>2, <4>3
      <4>4. CASE i = m + 1
        BY <3>4, <4>2, <4>4
      <4> QED BY <4>3, <4>4
    <3>6. Upto(e, h, m + 1)
      BY <3>5 DEF h
    <3> HIDE DEF Upto
    <3> QED BY <3>6
  <2>3. Nat \subseteq S
    <3> HIDE DEF S
    <3> QED BY <2>1, <2>2, NatSetInduction
  <2> QED BY <2>3
<1> DEFINE Reads(p, m, read) ==
               read = [i \in 0 .. m |->
                   LET next == PropertyAt(b, p + m - i, known)
                       left == i - next.len
                   IN  IF i = 0 THEN <<>>
                       ELSE <<next.field>> \o (IF left \in 0 .. i - 1 THEN read[left] ELSE <<>>)]
           Read(p, m) == CHOOSE read : Reads(p, m, read)
<1>3. \A p, m : Properties(b, p, m, known) = Read(p, m)[m]
  BY SMTT(30) DEF Properties
<1>4. \A p, m \in Nat : Upto(p + m, Read(p, m), m)
  <2> TAKE p, m \in Nat
  <2>1. \E g : Upto(p + m, g, m)
    <3> HIDE DEF Upto
    <3>1. p + m \in Nat
      OBVIOUS
    <3> QED BY <1>2, <3>1
  <2>2. \A g : Reads(p, m, g) <=> Upto(p + m, g, m)
    BY DEF Next5
  <2> HIDE DEF Upto, Reads
  <2> QED BY <2>1, <2>2
<1> HIDE DEF Body, Read
<1>5. \A p, m \in Nat : \A i \in 0 .. m : Read(p, m)[i] = Body(p + m, Read(p, m), i)
  <2> TAKE p, m \in Nat
  <2> PICK g : g = Read(p, m)
    OBVIOUS
  <2>1. g = [i \in 0 .. m |-> Body(p + m, g, i)]
    BY <1>4
  <2> QED BY <2>1, Zenon
<1> HIDE DEF Upto
<1>6. Properties(b, o, 0, known) = <<>>
  <2>1. o + 0 \in Nat /\ 0 \in Nat /\ 0 \in 0 .. 0
    OBVIOUS
  <2>2. Read(o, 0)[0] = Body(o + 0, Read(o, 0), 0)
    BY <1>5, <2>1, Zenon
  <2> QED BY <1>3, <2>2 DEF Body
<1>7. ASSUME NEW k \in 1 .. n, PropertyAt(b, o, known).len = k
      PROVE  Properties(b, o, n, known) =
                 <<PropertyAt(b, o, known).field>> \o Properties(b, o + k, n - k, known)
  <2>1. o + k \in Nat /\ n - k \in Nat /\ n - k < n /\ n # 0
    OBVIOUS
  <2>2. PICK p, m \in Nat : p = o + k /\ m = n - k
    BY <2>1
  <2>3. PICK g, h : g = Read(o, n) /\ h = Read(p, m)
    OBVIOUS
  <2>4. PICK e \in Nat : e = o + n /\ e = p + m /\ e - n = o
    BY <2>2
  <2>5. \A i \in 0 .. n : g[i] = Body(e, g, i)
    <3>1. \A i \in 0 .. n : Read(o, n)[i] = Body(o + n, Read(o, n), i)
      BY <1>5, Zenon
    <3> QED BY <2>3, <2>4, <3>1, Zenon
  <2>6. \A i \in 0 .. m : h[i] = Body(e, h, i)
    <3>1. \A i \in 0 .. m : Read(p, m)[i] = Body(p + m, Read(p, m), i)
      BY <1>5, Zenon
    <3> QED BY <2>3, <2>4, <3>1, Zenon
  <2>7. \A i \in 0 .. m : g[i] = h[i]
    <3> DEFINE S == {i \in Nat : i <= m => g[i] = h[i]}
    <3>1. ASSUME NEW i \in Nat, \A j \in 0 .. i - 1 : j \in S PROVE i \in S
      <4> SUFFICES ASSUME i <= m PROVE g[i] = h[i]
        OBVIOUS
      <4>1. \A j \in 0 .. i - 1 : g[j] = h[j]
        BY <3>1
      <4>2. Body(e, g, i) = Body(e, h, i)
        BY <1>1, <4>1
      <4>3. i \in 0 .. m /\ i \in 0 .. n
        BY <2>2
      <4> QED BY <2>5, <2>6, <4>2, <4>3
    <3>2. Nat \subseteq S
      <4> HIDE DEF S
      <4> QED BY <3>1, NatSetStrong
    <3> QED BY <3>2
  <2>8. Next5(e, n) = PropertyAt(b, o, known)
    BY <2>4 DEF Next5
  <2>9. g[n] = Body(e, g, n)
    BY <2>5
  <2>10. n - Next5(e, n).len = m /\ m \in 0 .. n - 1
    BY <1>7, <2>2, <2>8
  <2>11. Body(e, g, n) = <<Next5(e, n).field>> \o g[m]
    BY <2>1, <2>10 DEF Body
  <2>12. g[m] = h[m]
    BY <2>7
  <2> QED BY <1>3, <2>2, <2>3, <2>8, <2>9, <2>11, <2>12
<1> QED BY <1>6, <1>7

\* What one property reads as.
Field == [id : Nat, key : Seq(Nat), value : Seq(Nat)]

\* The bytes s read as the properties fs, wherever they are and whatever follows them.
Carries(s, fs, known) ==
    /\ s \in Seq(Nat) /\ fs \in Seq(Field)
    /\ \A b \in Seq(Nat), o \in Nat, n \in Nat :
           At(b, o, s) /\ Properties(b, o + Len(s), n, known) \in Seq(Field) =>
               Properties(b, o, Len(s) + n, known) = fs \o Properties(b, o + Len(s), n, known)

LEMMA CarriesUse ==
    ASSUME NEW ids, NEW bytes, NEW fields, Carries(bytes, fields, ids),
           NEW buffer \in Seq(Nat), NEW offset \in Nat, NEW size \in Nat, At(buffer, offset, bytes),
           Properties(buffer, offset + Len(bytes), size, ids) \in Seq(Field)
    PROVE  Properties(buffer, offset, Len(bytes) + size, ids)
               = fields \o Properties(buffer, offset + Len(bytes), size, ids)
BY DEF Carries

LEMMA CarriesNone == \A known : Carries(<<>>, <<>>, known)
<1> TAKE known
<1> PICK r : r = <<>>
  OBVIOUS
<1>1. r \in Seq(Nat) /\ r \in Seq(Field) /\ Len(r) = 0
  OBVIOUS
<1>2. ASSUME NEW b \in Seq(Nat), NEW o \in Nat, NEW n \in Nat,
             Properties(b, o + Len(r), n, known) \in Seq(Field)
      PROVE  Properties(b, o, Len(r) + n, known) = r \o Properties(b, o + Len(r), n, known)
  <2>1. o + Len(r) = o /\ Len(r) + n = n
    BY <1>1
  <2>2. PICK rest \in Seq(Field) : rest = Properties(b, o, n, known)
    BY <1>2, <2>1
  <2>3. r \o rest = rest
    OBVIOUS
  <2> QED BY <2>1, <2>2, <2>3
<1> QED BY <1>1, <1>2 DEF Carries

LEMMA CarriesConcat ==
    ASSUME NEW ids, NEW front, NEW back, NEW fields, NEW others, Carries(front, fields, ids), Carries(back, others, ids)
    PROVE  Carries(front \o back, fields \o others, ids)
<1>1. /\ front \in Seq(Nat) /\ back \in Seq(Nat) /\ fields \in Seq(Field) /\ others \in Seq(Field)
      /\ Len(front) \in Nat /\ Len(back) \in Nat
  BY DEF Carries
<1>2. front \o back \in Seq(Nat) /\ Len(front \o back) = Len(front) + Len(back) /\ fields \o others \in Seq(Field)
  BY <1>1
<1>3. ASSUME NEW b \in Seq(Nat), NEW o \in Nat, NEW n \in Nat, At(b, o, front \o back),
             Properties(b, o + Len(front \o back), n, ids) \in Seq(Field)
      PROVE  Properties(b, o, Len(front \o back) + n, ids)
                 = (fields \o others) \o Properties(b, o + Len(front \o back), n, ids)
  <2>1. At(b, o, front) /\ At(b, o + Len(front), back)
    BY <1>1, <1>3, AtConcat
  <2>2. o + Len(front) \in Nat /\ Len(back) + n \in Nat
    BY <1>1
  <2>3. PICK p, m \in Nat : p = o + Len(front) /\ m = Len(back) + n
    BY <2>2
  <2>4. p + Len(back) = o + Len(front \o back) /\ Len(front) + m = Len(front \o back) + n
    BY <1>1, <1>2, <2>3
  <2>5. PICK rest \in Seq(Field) : rest = Properties(b, p + Len(back), n, ids)
    BY <1>3, <2>4
  <2>6. Properties(b, p, Len(back) + n, ids) = others \o Properties(b, p + Len(back), n, ids)
    <3>1. At(b, p, back) /\ Properties(b, p + Len(back), n, ids) \in Seq(Field)
      BY <2>1, <2>3, <2>5
    <3> QED BY <3>1, CarriesUse
  <2>7. Properties(b, p, m, ids) = others \o rest
    BY <2>3, <2>5, <2>6
  <2>8. Properties(b, o + Len(front), m, ids) \in Seq(Field)
    <3>1. others \o rest \in Seq(Field)
      BY <1>1
    <3> QED BY <2>3, <2>7, <3>1, Zenon
  <2>9. Properties(b, o, Len(front) + m, ids) = fields \o Properties(b, o + Len(front), m, ids)
    BY <2>1, <2>8, CarriesUse
  <2>10. fields \o (others \o rest) = (fields \o others) \o rest
    <3>1. fields \in Seq(Field) /\ others \in Seq(Field) /\ rest \in Seq(Field)
      BY <1>1
    <3> QED BY <3>1, ConcatAssociative
  <2> QED BY <2>3, <2>4, <2>5, <2>7, <2>9, <2>10
<1> QED BY <1>2, <1>3 DEF Carries

LEMMA CarriesOne ==
    ASSUME NEW known, NEW s \in Seq(Nat), NEW f \in Field, Len(s) >= 1,
           \A b \in Seq(Nat), o \in Nat :
               At(b, o, s) => PropertyAt(b, o, known) = [len |-> Len(s), field |-> f]
    PROVE  Carries(s, <<f>>, known)
<1>1. <<f>> \in Seq(Field) /\ Len(s) \in Nat
  OBVIOUS
<1>2. ASSUME NEW b \in Seq(Nat), NEW o \in Nat, NEW n \in Nat, At(b, o, s),
             Properties(b, o + Len(s), n, known) \in Seq(Field)
      PROVE  Properties(b, o, Len(s) + n, known) = <<f>> \o Properties(b, o + Len(s), n, known)
  <2>1. PropertyAt(b, o, known).len = Len(s) /\ PropertyAt(b, o, known).field = f
    BY <1>2
  <2>2. PICK m \in Nat : m = Len(s) + n
    BY <1>1
  <2>3. Len(s) \in 1 .. m /\ m - Len(s) = n
    BY <1>1, <2>2
  <2>4. Properties(b, o, m, known) =
            <<PropertyAt(b, o, known).field>> \o Properties(b, o + Len(s), m - Len(s), known)
    BY <2>1, <2>3, PropertiesSteps
  <2> QED BY <2>1, <2>2, <2>3, <2>4
<1> QED BY <1>1, <1>2 DEF Carries

\* Read to the end.
LEMMA CarriesAll ==
    ASSUME NEW known, NEW s, NEW fs, Carries(s, fs, known),
           NEW b \in Seq(Nat), NEW o \in Nat, At(b, o, s)
    PROVE  Properties(b, o, Len(s), known) = fs
<1> PICK r : r = <<>>
  OBVIOUS
<1>1. r \in Seq(Field) /\ Len(s) \in Nat /\ fs \in Seq(Field) /\ Len(s) + 0 = Len(s)
  BY DEF Carries
<1>2. o + Len(s) \in Nat /\ 0 \in Nat
  BY <1>1
<1>3. Properties(b, o + Len(s), 0, known) = r
  BY <1>2, PropertiesSteps
<1>4. Properties(b, o, Len(s) + 0, known) = fs \o r
  BY <1>1, <1>2, <1>3, ZenonT(60) DEF Carries
<1>5. fs \o r = fs
  BY <1>1, ConcatEmptySeq
<1> QED BY <1>1, <1>4, <1>5

----------------------------------------------------------------------------
(* Each kind of property reads back *)

Strings(known) == known \ (OneByte \cup TwoBytes \cup FourBytes
                              \cup {SUBSCRIBE_IDENTIFIER, USER_PROPERTY})

\* The value of a property is as long as its kind says.
Sizes(id, value) ==
    \/ id \in OneByte /\ Len(value) = 1
    \/ id \in TwoBytes /\ Len(value) = 2
    \/ id \in FourBytes /\ Len(value) = 4

Plain(id, value) == [id |-> id, key |-> <<>>, value |-> value]

LEMMA PlainType ==
    ASSUME NEW id \in Nat, NEW value \in Seq(Nat)
    PROVE  Plain(id, value) \in Field
<1> PICK r : r = <<>>
  OBVIOUS
<1>1. id \in Nat /\ r \in Seq(Nat)
  OBVIOUS
<1> QED BY <1>1 DEF Plain, Field

LEMMA HeadAt ==
    ASSUME NEW buffer \in Seq(Nat), NEW offset \in Nat, NEW head \in Nat, NEW tail \in Seq(Nat),
           At(buffer, offset, <<head>> \o tail)
    PROVE  buffer[offset + 1] = head /\ At(buffer, offset + 1, tail)
<1>1. <<head>> \in Seq(Nat) /\ Len(<<head>>) = 1 /\ <<head>>[1] = head
  OBVIOUS
<1>2. At(buffer, offset, <<head>>) /\ At(buffer, offset + Len(<<head>>), tail)
  BY <1>1, AtConcat
<1>3. PICK s : s = <<head>>
  OBVIOUS
<1>4. buffer[offset + 1] = s[1]
  BY <1>1, <1>2, <1>3 DEF At
<1> QED BY <1>1, <1>2, <1>3, <1>4

\* A property is of one kind.
LEMMA KindsApart ==
    ASSUME NEW id
    PROVE  /\ id \in OneByte => id \notin TwoBytes /\ id \notin FourBytes
           /\ id \in TwoBytes => id \notin FourBytes
           /\ id \in OneByte \cup TwoBytes \cup FourBytes =>
                  id # SUBSCRIBE_IDENTIFIER /\ id # USER_PROPERTY
           /\ SUBSCRIBE_IDENTIFIER # USER_PROPERTY
BY DEF OneByte, TwoBytes, FourBytes, PAYLOAD_FORMAT_INDICATOR, REQUEST_PROBLEM_INFO,
   REQUEST_RESP_INFO, MAXIMUM_QOS, RETAIN_AVAILABLE, SERVER_KEEP_ALIVE, RECEIVE_MAXIMUM,
   TOPIC_ALIAS_MAXIMUM, TOPIC_ALIAS, MESSAGE_EXPIRY_INTERVAL, SESSION_EXPIRY_INTERVAL,
   WILL_DELAY_INTERVAL, MAXIMUM_PACKET_SIZE, SUBSCRIBE_IDENTIFIER, USER_PROPERTY

LEMMA SizedCarries ==
    ASSUME NEW known, NEW id \in known, NEW value \in Seq(Nat), id \in Nat, Sizes(id, value)
    PROVE  Carries(<<id>> \o value, <<Plain(id, value)>>, known)
<1> DEFINE s == <<id>> \o value
<1>1. s \in Seq(Nat) /\ Len(s) = 1 + Len(value)
  OBVIOUS
<1>2. ASSUME NEW b \in Seq(Nat), NEW o \in Nat, At(b, o, s)
      PROVE  PropertyAt(b, o, known) = [len |-> Len(s), field |-> Plain(id, value)]
  <2>1. b[o + 1] = id /\ At(b, o + 1, value)
    BY <1>2, HeadAt
  <2>2. SubSeq(b, (o + 1) + 1, (o + 1) + Len(value)) = value
    BY <2>1, AtSub, o + 1 \in Nat
  <2>3. PICK w \in Nat : w = Len(value)
    OBVIOUS
  <2>4. (o + 1) + 1 = o + 2 /\ (o + 1) + w = o + 1 + w
    OBVIOUS
  <2>5. SubSeq(b, o + 2, o + 1 + w) = value
    BY <2>2, <2>3, <2>4
  <2> HIDE DEF s
  <2> DEFINE Arm(k) == [len |-> 1 + k, field |-> [id |-> id, key |-> <<>>,
                                                  value |-> SubSeq(b, o + 2, o + 1 + k)]]
  <2>a. Arm(w) = [len |-> Len(s), field |-> Plain(id, value)]
    BY <1>1, <2>3, <2>5 DEF Plain
  <2> HIDE DEF Arm
  <2>6. CASE id \in OneByte /\ w = 1
    <3>1. PropertyAt(b, o, known) = Arm(1)
      BY <2>1, <2>6, KindsApart DEF PropertyAt, Arm
    <3> QED BY <2>a, <2>6, <3>1
  <2>7. CASE id \in TwoBytes /\ w = 2
    <3>2. PropertyAt(b, o, known) = Arm(2)
      BY <2>1, <2>7, KindsApart DEF PropertyAt, Arm
    <3> QED BY <2>a, <2>7, <3>2
  <2>8. CASE id \in FourBytes /\ w = 4
    <3>2. PropertyAt(b, o, known) = Arm(4)
      BY <2>1, <2>8, KindsApart DEF PropertyAt, Arm
    <3> QED BY <2>a, <2>8, <3>2
  <2> QED BY <2>3, <2>6, <2>7, <2>8 DEF Sizes
<1>3. Plain(id, value) \in Field
  BY PlainType
<1> HIDE DEF s
<1>4. Len(s) >= 1
  BY <1>1
<1>5. Carries(s, <<Plain(id, value)>>, known)
  BY <1>1, <1>2, <1>3, <1>4, CarriesOne
<1> QED BY <1>5 DEF s

\* A string after its length.
String(text) == Word(Len(text)) \o text

LEMMA StringRead ==
    ASSUME NEW buffer \in Seq(Nat), NEW offset \in Nat, NEW text \in Seq(Nat),
           At(buffer, offset, String(text))
    PROVE  /\ WordAt(buffer, offset) = Len(text)
           /\ SubSeq(buffer, offset + 3, offset + 2 + WordAt(buffer, offset)) = text
           /\ At(buffer, offset + 2, text)
<1>1. Len(text) \in Nat
  OBVIOUS
<1>2. PICK w \in Seq(Nat) : w = Word(Len(text)) /\ Len(w) = 2
  BY <1>1, WordType
<1>3. At(buffer, offset, w) /\ At(buffer, offset + Len(w), text)
  BY <1>2, AtConcat DEF String
<1>4. WordAt(buffer, offset) = Len(text)
  BY <1>1, <1>2, <1>3, WordRead
<1>5. PICK p \in Nat : p = offset + 2
  OBVIOUS
<1>6. At(buffer, p, text)
  BY <1>2, <1>3, <1>5
<1>7. SubSeq(buffer, p + 1, p + Len(text)) = text
  BY <1>6, AtSub
<1>8. p + 1 = offset + 3
  BY <1>5
<1> QED BY <1>4, <1>5, <1>6, <1>7, <1>8

LEMMA StringType ==
    ASSUME NEW text \in Seq(Nat)
    PROVE  String(text) \in Seq(Nat) /\ Len(String(text)) = 2 + Len(text)
<1>1. Len(text) \in Nat
  OBVIOUS
<1>2. PICK w \in Seq(Nat) : w = Word(Len(text)) /\ Len(w) = 2
  BY <1>1, WordType
<1>3. w \o text \in Seq(Nat) /\ Len(w \o text) = Len(w) + Len(text)
  OBVIOUS
<1> QED BY <1>2, <1>3, Zenon DEF String

LEMMA TextCarries ==
    ASSUME NEW known, NEW id \in Strings(known), id \in Nat,
           NEW value \in Seq(Nat)
    PROVE  Carries(<<id>> \o String(value), <<Plain(id, value)>>, known)
<1>1. PICK t \in Seq(Nat) : t = String(value) /\ Len(t) = 2 + Len(value)
  BY StringType
<1>2. PICK s \in Seq(Nat) : s = <<id>> \o t /\ Len(s) = 3 + Len(value)
  <2>1. <<id>> \o t \in Seq(Nat) /\ Len(<<id>> \o t) = 3 + Len(value)
    BY <1>1
  <2> QED BY <2>1
<1>3. ASSUME NEW b \in Seq(Nat), NEW o \in Nat, At(b, o, s)
      PROVE  PropertyAt(b, o, known) = [len |-> Len(s), field |-> Plain(id, value)]
  <2>1. b[o + 1] = id /\ At(b, o + 1, t)
    BY <1>2, <1>3, HeadAt
  <2>2. PICK p \in Nat : p = o + 1
    OBVIOUS
  <2>3. SubSeq(b, p + 3, p + 2 + WordAt(b, p)) = value
    BY <1>1, <2>1, <2>2, StringRead
  <2>4. PropertyAt(b, o, known) = [len |-> 3 + Len(SubSeq(b, p + 3, p + 2 + WordAt(b, p))),
                                   field |-> Plain(id, SubSeq(b, p + 3, p + 2 + WordAt(b, p)))]
    <3>1. /\ id \in known /\ id \notin OneByte /\ id \notin TwoBytes /\ id \notin FourBytes
          /\ id # SUBSCRIBE_IDENTIFIER /\ id # USER_PROPERTY
      BY DEF Strings
    <3> QED BY <2>1, <2>2, <3>1 DEF PropertyAt, Plain
  <2> QED BY <1>2, <2>3, <2>4
<1>4. PICK f \in Field : f = Plain(id, value)
  BY PlainType
<1>5. Len(s) >= 1
  <2>1. Len(value) \in Nat
    OBVIOUS
  <2> QED BY <1>2, <2>1
<1>6. Carries(s, <<f>>, known)
  BY <1>3, <1>4, <1>5, CarriesOne
<1> QED BY <1>1, <1>2, <1>4, <1>6

LEMMA SubscribeIdCarries ==
    ASSUME NEW known, SUBSCRIBE_IDENTIFIER \in known, NEW number \in Nat
    PROVE  Carries(<<SUBSCRIBE_IDENTIFIER>> \o remaining_length[number],
                   <<Plain(SUBSCRIBE_IDENTIFIER, remaining_length[number])>>, known)
<1>1. PICK t \in Seq(Nat) : t = remaining_length[number]
  BY RemainingLengthType
<1>2. PICK id \in Nat : id = SUBSCRIBE_IDENTIFIER
  BY DEF SUBSCRIBE_IDENTIFIER
<1>3. PICK s \in Seq(Nat) : s = <<id>> \o t /\ Len(s) = 1 + Len(t)
  <2>1. <<id>> \o t \in Seq(Nat) /\ Len(<<id>> \o t) = 1 + Len(t)
    OBVIOUS
  <2> QED BY <2>1
<1>4. ASSUME NEW b \in Seq(Nat), NEW o \in Nat, At(b, o, s)
      PROVE  PropertyAt(b, o, known) = [len |-> Len(s), field |-> Plain(id, t)]
  <2>1. b[o + 1] = id /\ At(b, o + 1, t)
    BY <1>3, <1>4, HeadAt
  <2>2. PICK p \in Nat : p = o + 1
    OBVIOUS
  <2>3. SubSeq(b, p + 1, p + Len(t)) = t
    BY <2>1, <2>2, AtSub
  <2>4. p + Len(t) <= Len(b)
    BY <2>1, <2>2 DEF At
  <2>5. get_variable_len(b, p, Len(b)).bytes = Len(t)
    <3>1. PICK l \in Nat : l = Len(b)
      OBVIOUS
    <3>2. At(b, p, remaining_length[number]) /\ p + Len(remaining_length[number]) <= l
      BY <1>1, <2>1, <2>2, <2>4, <3>1
    <3>3. get_variable_len(b, p, l) = [len |-> number, bytes |-> Len(remaining_length[number])]
      BY <3>1, <3>2, VarLenRead
    <3> QED BY <1>1, <3>1, <3>3
  <2>6. PropertyAt(b, o, known) =
            [len |-> 1 + get_variable_len(b, o + 1, Len(b)).bytes,
             field |-> Plain(id, SubSeq(b, o + 2, o + 1 + get_variable_len(b, o + 1, Len(b)).bytes))]
    <3>1. id \in known /\ id \notin OneByte /\ id \notin TwoBytes /\ id \notin FourBytes
      BY <1>2, KindsApart
    <3> QED BY <1>2, <2>1, <3>1, KindsApart DEF PropertyAt, Plain
  <2>7. o + 2 = p + 1 /\ o + 1 + Len(t) = p + Len(t)
    BY <2>2
  <2> QED BY <1>3, <2>2, <2>3, <2>5, <2>6, <2>7
<1>5. PICK f \in Field : f = Plain(id, t)
  BY PlainType
<1>6. Len(s) >= 1
  BY <1>3
<1>7. Carries(s, <<f>>, known)
  BY <1>4, <1>5, <1>6, CarriesOne
<1> QED BY <1>1, <1>2, <1>3, <1>5, <1>7

\* A pair of strings, and how it is written.
Pairs == [key : Seq(Nat), value : Seq(Nat)]
PairBytes(pair) == <<USER_PROPERTY>> \o Word(Len(pair.key)) \o pair.key
                                     \o Word(Len(pair.value)) \o pair.value
PairField(pair) == [id |-> USER_PROPERTY, key |-> pair.key, value |-> pair.value]

LEMMA PairCarries ==
    ASSUME NEW known, USER_PROPERTY \in known, NEW pair \in Pairs
    PROVE  Carries(PairBytes(pair), <<PairField(pair)>>, known)
<1>1. PICK key, value \in Seq(Nat) : /\ key = pair.key 
                                      /\ value = pair.value 
  <2>1. pair.key \in Seq(Nat) /\ pair.value \in Seq(Nat)
    BY DEF Pairs
  <2> QED BY <2>1 
<1>2. PICK id \in Nat : id = USER_PROPERTY
  BY DEF USER_PROPERTY
<1>3. Len(key) \in Nat /\ Len(value) \in Nat
  OBVIOUS
<1>4. PICK w1 \in Seq(Nat) : w1 = Word(Len(key)) /\ Len(w1) = 2
  BY <1>1, WordType
<1>5. PICK w2 \in Seq(Nat) : w2 = Word(Len(value)) /\ Len(w2) = 2
  BY <1>1, WordType
<1>6. PICK h \in Seq(Nat) : h = <<id>> /\ Len(h) = 1
  <2>1. <<id>> \in Seq(Nat) /\ Len(<<id>>) = 1
    OBVIOUS
  <2> QED BY <2>1
<1>7. PICK s1 \in Seq(Nat) : s1 = h \o w1 /\ Len(s1) = 3
  <2>1. h \o w1 \in Seq(Nat) /\ Len(h \o w1) = Len(h) + Len(w1)
    OBVIOUS
  <2>2. Len(h) + Len(w1) = 3
    BY <1>4, <1>6
  <2>3. Len(h \o w1) = 3
    BY <2>1, <2>2, Zenon
  <2> QED BY <2>1, <2>3, Zenon
<1>8. PICK s2 \in Seq(Nat) : s2 = s1 \o key /\ Len(s2) = 3 + Len(key)
  <2>1. s1 \o key \in Seq(Nat) /\ Len(s1 \o key) = Len(s1) + Len(key)
    OBVIOUS
  <2>2. Len(s1 \o key) = 3 + Len(key)
    BY <1>7, <2>1
  <2> QED BY <2>1, <2>2, Zenon
<1>9. PICK s3 \in Seq(Nat) : s3 = s2 \o w2 /\ Len(s3) = 5 + Len(key)
  <2>1. s2 \o w2 \in Seq(Nat) /\ Len(s2 \o w2) = Len(s2) + Len(w2)
    OBVIOUS
  <2>2. Len(s2) + Len(w2) = 5 + Len(key)
    BY <1>3, <1>5, <1>8
  <2>3. Len(s2 \o w2) = 5 + Len(key)
    BY <2>1, <2>2, Zenon
  <2> QED BY <2>1, <2>3, Zenon
<1>10. PICK s \in Seq(Nat) : s = s3 \o value /\ Len(s) = 5 + Len(key) + Len(value)
  <2>1. s3 \o value \in Seq(Nat) /\ Len(s3 \o value) = Len(s3) + Len(value)
    OBVIOUS
  <2> QED BY <1>3, <1>9, <2>1
<1>11. s = PairBytes(pair)
  BY <1>1, <1>2, <1>4, <1>5, <1>6, <1>7, <1>8, <1>9, <1>10, Zenon DEF PairBytes
<1>12. PICK f \in Field : f = [id |-> id, key |-> key, value |-> value]
  <2>1. id \in Nat
    OBVIOUS
  <2>2. [id |-> id, key |-> key, value |-> value] \in Field
    BY <2>1 DEF Field
  <2> QED BY <2>2
<1>13. ASSUME NEW b \in Seq(Nat), NEW o \in Nat, At(b, o, s)
       PROVE  PropertyAt(b, o, known) = [len |-> Len(s), field |-> f]
  <2>1. At(b, o, s3) /\ At(b, o + Len(s3), value)
    BY <1>10, <1>13, AtConcat
  <2>2. At(b, o, s2) /\ At(b, o + Len(s2), w2)
    BY <1>9, <2>1, AtConcat
  <2>3. At(b, o, s1) /\ At(b, o + Len(s1), key)
    BY <1>8, <2>2, AtConcat
  <2>4. At(b, o, h) /\ At(b, o + Len(h), w1)
    BY <1>7, <2>3, AtConcat
  <2>5. b[o + 1] = id
    BY <1>6, <2>4 DEF At
  <2>6. PICK p \in Nat : p = o + 1
    OBVIOUS
  <2>7. PICK q \in Nat : q = o + 3 + Len(key)
    BY <1>3
  <2>8. PICK p2, q2 \in Nat : p2 = p + 2 /\ q2 = q + 2
    OBVIOUS
  <2>9. WordAt(b, p) = Len(key) /\ SubSeq(b, p + 3, p + 2 + Len(key)) = key
    <3>1. At(b, p, w1)
      BY <1>6, <2>4, <2>6
    <3>2. o + Len(s1) = p2
      BY <1>7, <2>6, <2>8
    <3>3. At(b, p2, key)
      BY <2>3, <3>2
    <3>4. SubSeq(b, p2 + 1, p2 + Len(key)) = key
      BY <3>3, AtSub
    <3>5. WordAt(b, p) = Len(key)
      BY <1>1, <1>4, <3>1, WordRead, SMTT(30)
    <3>6. p2 + 1 = p + 3
      BY <2>8
    <3> QED BY <2>8, <3>4, <3>5, <3>6
  <2>10. WordAt(b, q) = Len(value) /\ SubSeq(b, q + 3, q + 2 + Len(value)) = value
    <3>1. At(b, q, w2)
      <4>1. o + Len(s2) = q
        BY <1>3, <1>8, <2>7
      <4> QED BY <2>2, <4>1
    <3>2. o + Len(s3) = q2
      BY <1>3, <1>9, <2>7, <2>8
    <3>3. At(b, q2, value)
      BY <2>1, <3>2
    <3>4. SubSeq(b, q2 + 1, q2 + Len(value)) = value
      BY <3>3, AtSub
    <3>5. WordAt(b, q) = Len(value)
      BY <1>1, <1>5, <3>1, WordRead
    <3>6. q2 + 1 = q + 3
      BY <2>8
    <3> QED BY <2>8, <3>4, <3>5, <3>6
  <2>11. id \in known /\ id \notin OneByte /\ id \notin TwoBytes /\ id \notin FourBytes
         /\ id # SUBSCRIBE_IDENTIFIER
    BY <1>2, KindsApart
  <2> DEFINE first == SubSeq(b, o + 1 + 3, o + 1 + 2 + WordAt(b, o + 1))
             j == o + 3 + Len(first)
             second == SubSeq(b, j + 3, j + 2 + WordAt(b, j))
  <2>12. PropertyAt(b, o, known) = [len |-> 5 + Len(first) + Len(second),
                                    field |-> [id |-> id, key |-> first, value |-> second]]
    BY <1>2, <2>5, <2>11 DEF PropertyAt
  <2>13. first = key
    BY <2>6, <2>9
  <2>14. j = q
    BY <2>7, <2>13
  <2> HIDE DEF j, first
  <2>15. second = value
    BY <2>10, <2>14
  <2> HIDE DEF second
  <2> QED BY <1>10, <1>12, <2>12, <2>13, <2>15
<1>14. Len(s) >= 1
  BY <1>3, <1>10
<1>15. Carries(s, <<f>>, known)
  BY <1>13, <1>14, CarriesOne
<1>16. f = PairField(pair)
  BY <1>1, <1>2, <1>12 DEF PairField
<1> QED BY <1>11, <1>15, <1>16

----------------------------------------------------------------------------
(* Sequences of pieces *)

\* The recursive function of FlattenSeq is what its definition says.
LEMMA FlattenSteps ==
    ASSUME NEW seqs, Len(seqs) \in Nat, Len(seqs) # 0
    PROVE  \E f : /\ f[1] = seqs[1]
                  /\ \A i \in 2 .. Len(seqs) : f[i] = f[i - 1] \o seqs[i]
                  /\ FlattenSeq(seqs) = f[Len(seqs)]
<1> PICK l \in Nat : l = Len(seqs)
  OBVIOUS
<1> DEFINE Body(g, i) == IF i = 1 THEN seqs[i] ELSE g[i - 1] \o seqs[i]
           Upto(g, n) == g = [i \in 1 .. n |-> Body(g, i)]
           Chosen == CHOOSE g : Upto(g, l)
<1>1. \E g : Upto(g, l)
  <2> DEFINE S == {n \in Nat : \E g : Upto(g, n)}
  <2>1. 0 \in S
    <3> DEFINE g == [i \in 1 .. 0 |-> 0]
    <3>1. Upto(g, 0)
      OBVIOUS
    <3> QED BY <3>1
  <2>2. ASSUME NEW n \in Nat, n \in S PROVE n + 1 \in S
    <3>1. PICK g : Upto(g, n)
      BY <2>2
    <3>2. \A h : \A i \in 2 .. n + 1 : h[i - 1] = g[i - 1] => Body(h, i) = Body(g, i)
      OBVIOUS
    <3>3. \A h : Body(h, 1) = Body(g, 1)
      OBVIOUS
    <3> HIDE DEF Body
    <3> DEFINE h == [i \in 1 .. n + 1 |-> IF i <= n THEN g[i] ELSE Body(g, n + 1)]
    <3>4. \A i \in 1 .. n : h[i] = g[i]
      OBVIOUS
    <3>5. \A i \in 1 .. n : g[i] = Body(g, i)
      BY <3>1, Zenon
    <3>6. h[n + 1] = Body(g, n + 1)
      OBVIOUS
    <3> HIDE DEF h
    <3>7. \A i \in 1 .. n + 1 : h[i] = Body(h, i)
      <4> TAKE i \in 1 .. n + 1
      <4>1. Body(h, i) = Body(g, i)
        <5>1. CASE i = 1
          BY <3>3, <5>1
        <5>2. CASE i # 1
          <6>1. i \in 2 .. n + 1 /\ i - 1 \in 1 .. n
            BY <5>2
          <6>2. h[i - 1] = g[i - 1]
            BY <3>4, <6>1
          <6> QED BY <3>2, <6>1, <6>2
        <5> QED BY <5>1, <5>2
      <4>2. CASE i <= n
        BY <3>4, <3>5, <4>1, <4>2
      <4>3. CASE i = n + 1
        BY <3>6, <4>1, <4>3
      <4> QED BY <4>2, <4>3
    <3>8. Upto(h, n + 1)
      BY <3>7 DEF h
    <3> HIDE DEF Upto
    <3> QED BY <3>8
  <2>3. Nat \subseteq S
    <3> HIDE DEF S
    <3> QED BY <2>1, <2>2, NatSetInduction
  <2> QED BY <2>3
<1>2. Upto(Chosen, l)
  <2> HIDE DEF Upto
  <2> QED BY <1>1
<1>3. FlattenSeq(seqs) = Chosen[l]
  BY DEF FlattenSeq
<1> HIDE DEF Chosen
<1>4. \A i \in 1 .. l : Chosen[i] = Body(Chosen, i)
  <2> HIDE DEF Body
  <2> QED BY <1>2, Zenon
<1>5. Chosen[1] = seqs[1]
  <2>1. 1 \in 1 .. l
    OBVIOUS
  <2> QED BY <1>4, <2>1
<1>6. \A i \in 2 .. l : Chosen[i] = Chosen[i - 1] \o seqs[i]
  <2> TAKE i \in 2 .. l
  <2>1. i \in 1 .. l /\ i # 1
    OBVIOUS
  <2>2. Chosen[i] = Body(Chosen, i)
    BY <1>4, <2>1
  <2> QED BY <2>1, <2>2
<1> QED BY <1>3, <1>5, <1>6

LEMMA FlattenNone == FlattenSeq(<<>>) = <<>>
BY DEF FlattenSeq

LEMMA FlattenOne == ASSUME NEW piece PROVE FlattenSeq(<<piece>>) = piece
<1> PICK s : s = <<piece>>
  OBVIOUS
<1>1. Len(s) = 1 /\ s[1] = piece
  OBVIOUS
<1>2. PICK f : /\ f[1] = s[1]
               /\ \A i \in 2 .. Len(s) : f[i] = f[i - 1] \o s[i]
               /\ FlattenSeq(s) = f[Len(s)]
  <2>1. Len(s) \in Nat /\ Len(s) # 0
    BY <1>1
  <2> QED BY <2>1, FlattenSteps, Zenon
<1> QED BY <1>1, <1>2

LEMMA FlattenType ==
    ASSUME NEW X, NEW pieces \in Seq(Seq(X))
    PROVE  FlattenSeq(pieces) \in Seq(X)
<1>1. CASE Len(pieces) = 0
  <2>1. pieces = <<>> /\ <<>> \in Seq(X)
    BY <1>1
  <2> QED BY <2>1, FlattenNone
<1>2. CASE Len(pieces) # 0
  <2>1. PICK f : /\ f[1] = pieces[1]
                 /\ \A i \in 2 .. Len(pieces) : f[i] = f[i - 1] \o pieces[i]
                 /\ FlattenSeq(pieces) = f[Len(pieces)]
    <3>1. Len(pieces) \in Nat /\ Len(pieces) # 0
      BY <1>2
    <3> QED BY <3>1, FlattenSteps, Zenon
  <2> DEFINE S == {n \in Nat : n \in 1 .. Len(pieces) => f[n] \in Seq(X)}
  <2>2. 0 \in S
    OBVIOUS
  <2>3. ASSUME NEW n \in Nat, n \in S PROVE n + 1 \in S
    <3> SUFFICES ASSUME n + 1 \in 1 .. Len(pieces) PROVE f[n + 1] \in Seq(X)
      OBVIOUS
    <3>1. pieces[n + 1] \in Seq(X)
      OBVIOUS
    <3>2. CASE n = 0
      BY <2>1, <3>1, <3>2
    <3>3. CASE n # 0
      <4>1. n \in 1 .. Len(pieces) /\ n + 1 \in 2 .. Len(pieces) /\ (n + 1) - 1 = n
        BY <3>3
      <4>2. f[n + 1] = f[n] \o pieces[n + 1] /\ f[n] \in Seq(X)
        BY <2>1, <2>3, <4>1
      <4> QED BY <3>1, <4>2
    <3> QED BY <3>2, <3>3
  <2>4. Nat \subseteq S
    <3> HIDE DEF S
    <3> QED BY <2>2, <2>3, NatSetInduction
  <2>5. Len(pieces) \in Nat /\ Len(pieces) \in 1 .. Len(pieces)
    BY <1>2
  <2> QED BY <2>1, <2>4, <2>5
<1> QED BY <1>1, <1>2

\* Of a sequence of pieces, the first n joined.
LEMMA FlattenPrefix ==
    ASSUME NEW X, NEW seqs \in Seq(Seq(X)), NEW f, NEW n \in 1 .. Len(seqs), f[1] = seqs[1],
           \A i \in 2 .. Len(seqs) : f[i] = f[i - 1] \o seqs[i]
    PROVE  FlattenSeq(SubSeq(seqs, 1, n)) = f[n]
<1>1. PICK r \in Seq(Seq(X)) : /\ r = SubSeq(seqs, 1, n) /\ Len(r) = n
                               /\ \A i \in 1 .. n : r[i] = seqs[i]
  <2>1. /\ SubSeq(seqs, 1, n) \in Seq(Seq(X)) /\ Len(SubSeq(seqs, 1, n)) = n
        /\ \A i \in 1 .. n : SubSeq(seqs, 1, n)[i] = seqs[i]
    OBVIOUS
  <2> QED BY <2>1
<1>2. PICK g : /\ g[1] = r[1]
               /\ \A i \in 2 .. Len(r) : g[i] = g[i - 1] \o r[i]
               /\ FlattenSeq(r) = g[Len(r)]
  <2>1. Len(r) \in Nat /\ Len(r) # 0
    BY <1>1
  <2> QED BY <2>1, FlattenSteps, Zenon
<1> DEFINE S == {k \in Nat : k \in 1 .. n => g[k] = f[k]}
<1>3. 0 \in S
  OBVIOUS
<1>4. ASSUME NEW k \in Nat, k \in S PROVE k + 1 \in S
  <2> SUFFICES ASSUME k + 1 \in 1 .. n PROVE g[k + 1] = f[k + 1]
    OBVIOUS
  <2>1. CASE k = 0
    BY <1>1, <1>2, <2>1
  <2>2. CASE k # 0
    <3>1. /\ k \in 1 .. n /\ k + 1 \in 2 .. Len(r) /\ k + 1 \in 2 .. Len(seqs)
          /\ (k + 1) - 1 = k /\ k + 1 \in 1 .. n
      BY <1>1, <2>2
    <3>2. g[k + 1] = g[k] \o r[k + 1] /\ f[k + 1] = f[k] \o seqs[k + 1]
      BY <1>2, <3>1
    <3>3. g[k] = f[k] /\ r[k + 1] = seqs[k + 1]
      BY <1>1, <1>4, <3>1
    <3> QED BY <3>2, <3>3
  <2> QED BY <2>1, <2>2
<1>5. Nat \subseteq S
  <2> HIDE DEF S
  <2> QED BY <1>3, <1>4, NatSetInduction
<1>6. n \in Nat
  OBVIOUS
<1> QED BY <1>1, <1>2, <1>5, <1>6

LEMMA FlattenConcat ==
    ASSUME NEW X, NEW left \in Seq(Seq(X)), NEW right \in Seq(Seq(X))
    PROVE  FlattenSeq(left \o right) = FlattenSeq(left) \o FlattenSeq(right)
<1>1. PICK l, r \in Seq(X) : l = FlattenSeq(left) /\ r = FlattenSeq(right)
  BY FlattenType
<1>2. CASE Len(left) = 0
  <2>1. left = <<>> /\ left \o right = right
    BY <1>2
  <2>2. l = <<>>
    BY <1>1, <2>1, FlattenNone
  <2>3. l \o r = r
    BY <2>2
  <2> QED BY <1>1, <2>1, <2>3
<1>3. CASE Len(right) = 0
  <2>1. right = <<>> /\ left \o right = left
    BY <1>3
  <2>2. r = <<>>
    BY <1>1, <2>1, FlattenNone
  <2>3. l \o r = l
    BY <2>2
  <2> QED BY <1>1, <2>1, <2>3
<1>4. CASE Len(left) # 0 /\ Len(right) # 0
  <2>1. PICK w \in Seq(Seq(X)) : w = left \o right
    <3>1. left \o right \in Seq(Seq(X))
      OBVIOUS
    <3> QED BY <3>1
  <2>2. /\ Len(w) = Len(left) + Len(right) /\ Len(left) \in Nat /\ Len(right) \in Nat
        /\ \A i \in 1 .. Len(left) : w[i] = left[i]
        /\ \A i \in 1 .. Len(right) : w[Len(left) + i] = right[i]
    BY <2>1
  <2>3. PICK f : /\ f[1] = w[1]
                 /\ \A i \in 2 .. Len(w) : f[i] = f[i - 1] \o w[i]
                 /\ FlattenSeq(w) = f[Len(w)]
    <3>1. Len(w) \in Nat /\ Len(w) # 0
      BY <1>4, <2>2
    <3> QED BY <3>1, FlattenSteps, Zenon
  <2>4. PICK g : /\ g[1] = right[1]
                 /\ \A i \in 2 .. Len(right) : g[i] = g[i - 1] \o right[i]
                 /\ FlattenSeq(right) = g[Len(right)]
    <3>1. Len(right) \in Nat /\ Len(right) # 0
      BY <1>4, <2>2
    <3> QED BY <3>1, FlattenSteps, Zenon
  <2>5. PICK d \in Nat : d = Len(left)
    BY <2>2
  <2>6. f[d] = l
    <3>1. d \in 1 .. Len(w)
      BY <1>4, <2>2, <2>5
    <3>2. FlattenSeq(SubSeq(w, 1, d)) = f[d]
      BY <2>3, <3>1, FlattenPrefix
    <3>3. SubSeq(w, 1, d) = left
      <4>1. SubSeq(left \o right, 1, Len(left)) = left
        OBVIOUS
      <4> QED BY <2>1, <2>5, <4>1
    <3> QED BY <1>1, <3>2, <3>3
  <2>7. \A n \in 1 .. Len(right) : g[n] \in Seq(X)
    <3> TAKE n \in 1 .. Len(right)
    <3>1. FlattenSeq(SubSeq(right, 1, n)) = g[n]
      BY <2>4, FlattenPrefix
    <3>2. SubSeq(right, 1, n) \in Seq(Seq(X))
      OBVIOUS
    <3> QED BY <3>1, <3>2, FlattenType
  <2> DEFINE S == {n \in Nat : n \in 1 .. Len(right) => f[d + n] = l \o g[n]}
  <2>8. 0 \in S
    OBVIOUS
  <2>9. ASSUME NEW n \in Nat, n \in S PROVE n + 1 \in S
    <3> SUFFICES ASSUME n + 1 \in 1 .. Len(right) PROVE f[d + (n + 1)] = l \o g[n + 1]
      OBVIOUS
    <3>1. /\ d + (n + 1) \in 2 .. Len(w) /\ (d + (n + 1)) - 1 = d + n
      BY <1>4, <2>2, <2>5
    <3>2. w[d + (n + 1)] = right[n + 1]
      BY <2>2, <2>5
    <3>3. f[d + (n + 1)] = f[d + n] \o right[n + 1]
      BY <2>3, <3>1, <3>2
    <3>4. CASE n = 0
      <4>1. d + n = d /\ n + 1 = 1
        BY <3>4
      <4> QED BY <2>4, <2>6, <3>3, <4>1
    <3>5. CASE n # 0
      <4>1. n \in 1 .. Len(right) /\ n + 1 \in 2 .. Len(right) /\ (n + 1) - 1 = n
        BY <3>5
      <4>2. f[d + n] = l \o g[n]
        BY <2>9, <4>1
      <4>3. g[n + 1] = g[n] \o right[n + 1]
        BY <2>4, <4>1
      <4>4. g[n] \in Seq(X) /\ right[n + 1] \in Seq(X)
        BY <2>7, <4>1
      <4>5. (l \o g[n]) \o right[n + 1] = l \o (g[n] \o right[n + 1])
        <5>1. PICK p, q \in Seq(X) : p = g[n] /\ q = right[n + 1]
          BY <4>4
        <5> HIDE DEF S
        <5>2. (l \o p) \o q = l \o (p \o q)
          BY SMTT(30)
        <5> QED BY <5>1, <5>2
      <4> QED BY <3>3, <4>2, <4>3, <4>5
    <3> QED BY <3>4, <3>5
  <2>10. Nat \subseteq S
    <3> HIDE DEF S
    <3> QED BY <2>8, <2>9, NatSetInduction
  <2>11. Len(right) \in Nat /\ Len(right) \in 1 .. Len(right)
    BY <1>4, <2>2
  <2>12. f[d + Len(right)] = l \o g[Len(right)]
    BY <2>10, <2>11
  <2> QED BY <1>1, <2>1, <2>2, <2>3, <2>4, <2>5, <2>12
<1> QED BY <1>2, <1>3, <1>4

\* Pieces of one element join to the sequence of their elements.
LEMMA FlattenSingles ==
    ASSUME NEW X, NEW pieces \in Seq(Seq(X)), NEW items \in Seq(X), Len(pieces) = Len(items),
           \A i \in 1 .. Len(items) : pieces[i] = <<items[i]>>
    PROVE  FlattenSeq(pieces) = items
<1>1. CASE Len(items) = 0
  <2>1. pieces = <<>> /\ items = <<>>
    BY <1>1
  <2> QED BY <2>1, FlattenNone
<1>2. CASE Len(items) # 0
  <2>1. PICK f : /\ f[1] = pieces[1]
                 /\ \A i \in 2 .. Len(pieces) : f[i] = f[i - 1] \o pieces[i]
                 /\ FlattenSeq(pieces) = f[Len(pieces)]
    <3>1. Len(pieces) \in Nat /\ Len(pieces) # 0
      BY <1>2
    <3> QED BY <3>1, FlattenSteps, Zenon
  <2> DEFINE S == {n \in Nat : n \in 1 .. Len(items) => f[n] = SubSeq(items, 1, n)}
  <2>2. 0 \in S
    OBVIOUS
  <2>3. ASSUME NEW n \in Nat, n \in S PROVE n + 1 \in S
    <3> SUFFICES ASSUME n + 1 \in 1 .. Len(items) PROVE f[n + 1] = SubSeq(items, 1, n + 1)
      OBVIOUS
    <3>1. pieces[n + 1] = <<items[n + 1]>>
      OBVIOUS
    <3>2. CASE n = 0
      <4>1. PICK x \in X : x = items[1]
        BY <3>2
      <4>2. PICK r \in Seq(X) : r = SubSeq(items, 1, 1) /\ Len(r) = 1 /\ r[1] = x
        <5>1. /\ SubSeq(items, 1, 1) \in Seq(X) /\ Len(SubSeq(items, 1, 1)) = 1
              /\ SubSeq(items, 1, 1)[1] = items[1]
          BY <1>2
        <5> QED BY <4>1, <5>1
      <4>3. r = <<x>>
        <5> HIDE DEF S
        <5>1. Len(r) = 1 /\ r[1] = x
          BY <4>2
        <5> QED BY <5>1
      <4>4. n + 1 = 1
        BY <3>2
      <4> QED BY <2>1, <3>1, <4>1, <4>2, <4>3, <4>4
    <3>3. CASE n # 0
      <4>1. n \in 1 .. Len(items) /\ n + 1 \in 2 .. Len(pieces) /\ (n + 1) - 1 = n
        BY <3>3
      <4>2. f[n + 1] = f[n] \o pieces[n + 1]
        BY <2>1, <4>1
      <4>3. f[n] = SubSeq(items, 1, n)
        BY <2>3, <4>1
      <4>4. SubSeq(items, 1, n + 1) = SubSeq(items, 1, n) \o <<items[n + 1]>>
        BY <4>1
      <4> QED BY <3>1, <4>2, <4>3, <4>4
    <3> QED BY <3>2, <3>3
  <2>4. Nat \subseteq S
    <3> HIDE DEF S
    <3> QED BY <2>2, <2>3, NatSetInduction
  <2>5. Len(items) \in Nat /\ Len(items) \in 1 .. Len(items)
    BY <1>2
  <2>6. SubSeq(items, 1, Len(items)) = items
    OBVIOUS
  <2> QED BY <2>1, <2>4, <2>5, <2>6
<1> QED BY <1>1, <1>2

\* Pieces that each read as one property read as all of them.
LEMMA FlattenCarries ==
    ASSUME NEW known, NEW pieces \in Seq(Seq(Nat)), NEW fields \in Seq(Field),
           Len(pieces) = Len(fields),
           \A i \in 1 .. Len(fields) : Carries(pieces[i], <<fields[i]>>, known)
    PROVE  Carries(FlattenSeq(pieces), fields, known)
<1>1. CASE Len(fields) = 0
  <2>1. pieces = <<>> /\ fields = <<>>
    BY <1>1
  <2> QED BY <2>1, FlattenNone, CarriesNone
<1>2. CASE Len(fields) # 0
  <2>1. PICK f : /\ f[1] = pieces[1]
                 /\ \A i \in 2 .. Len(pieces) : f[i] = f[i - 1] \o pieces[i]
                 /\ FlattenSeq(pieces) = f[Len(pieces)]
    <3>1. Len(pieces) \in Nat /\ Len(pieces) # 0
      BY <1>2
    <3> QED BY <3>1, FlattenSteps, Zenon
  <2> DEFINE S == {n \in Nat : n \in 1 .. Len(fields) => Carries(f[n], SubSeq(fields, 1, n), known)}
  <2>2. 0 \in S
    OBVIOUS
  <2>3. ASSUME NEW n \in Nat, n \in S PROVE n + 1 \in S
    <3> SUFFICES ASSUME n + 1 \in 1 .. Len(fields)
                 PROVE  Carries(f[n + 1], SubSeq(fields, 1, n + 1), known)
      OBVIOUS
    <3>1. fields[n + 1] \in Field /\ Carries(pieces[n + 1], <<fields[n + 1]>>, known)
      OBVIOUS
    <3>2. CASE n = 0
      <4>1. PICK c \in Field : c = fields[1]
        BY <3>1, <3>2
      <4>2. PICK r \in Seq(Field) : r = SubSeq(fields, 1, 1) /\ Len(r) = 1 /\ r[1] = c
        <5>1. SubSeq(fields, 1, 1) \in Seq(Field) /\ Len(SubSeq(fields, 1, 1)) = 1
          BY <1>2
        <5>2. SubSeq(fields, 1, 1)[1] = fields[1]
          BY <1>2
        <5> QED BY <4>1, <5>1, <5>2
      <4>3. r = <<c>>
        <5>1. Len(r) = 1 /\ r[1] = c
          BY <4>2
        <5> QED BY <5>1
      <4>4. n + 1 = 1
        BY <3>2
      <4> QED BY <2>1, <3>1, <4>1, <4>2, <4>3, <4>4
    <3>3. CASE n # 0
      <4>1. n \in 1 .. Len(fields) /\ n + 1 \in 2 .. Len(pieces) /\ (n + 1) - 1 = n
        BY <3>3
      <4>2. f[n + 1] = f[n] \o pieces[n + 1]
        BY <2>1, <4>1
      <4>3. Carries(f[n], SubSeq(fields, 1, n), known)
        BY <2>3, <4>1
      <4>4. SubSeq(fields, 1, n + 1) = SubSeq(fields, 1, n) \o <<fields[n + 1]>>
        BY <4>1
      <4>5. Carries(f[n] \o pieces[n + 1], SubSeq(fields, 1, n) \o <<fields[n + 1]>>, known)
        BY <3>1, <4>3, CarriesConcat
      <4> QED BY <4>2, <4>4, <4>5, Zenon
    <3> QED BY <3>2, <3>3
  <2>4. Nat \subseteq S
    <3> HIDE DEF S
    <3> QED BY <2>2, <2>3, NatSetInduction
  <2>5. Len(fields) \in Nat /\ Len(fields) \in 1 .. Len(fields)
    BY <1>2
  <2>6. SubSeq(fields, 1, Len(fields)) = fields
    OBVIOUS
  <2> QED BY <2>1, <2>4, <2>5, <2>6
<1> QED BY <1>1, <1>2

----------------------------------------------------------------------------
(* What is looked up in a list of properties *)

LEMMA MaxExists ==
    ASSUME NEW limit \in Nat, NEW indices, indices \subseteq 1 .. limit, indices # {}
    PROVE  \E x \in indices : \A y \in indices : x >= y
<1> DEFINE S == {k \in Nat : limit - k \notin indices}
<1>1. CASE \E k \in Nat : limit - k \in indices /\ \A m \in 0 .. k - 1 : limit - m \notin indices
  <2>1. PICK k \in Nat : limit - k \in indices /\ \A m \in 0 .. k - 1 : limit - m \notin indices
    BY <1>1
  <2>2. \A y \in indices : limit - k >= y
    <3> SUFFICES ASSUME NEW y \in indices, ~ (limit - k >= y) PROVE FALSE
      OBVIOUS
    <3>1. PICK m : m = limit - y
      OBVIOUS
    <3>2. limit - k \in Int /\ y \in Nat
      BY <2>1
    <3>3. m \in 0 .. k - 1 /\ limit - m = y
      BY <3>1, <3>2
    <3> QED BY <2>1, <3>3
  <2> QED BY <2>1, <2>2
<1>2. CASE ~ \E k \in Nat : limit - k \in indices /\ \A m \in 0 .. k - 1 : limit - m \notin indices
  <2>1. ASSUME NEW k \in Nat, \A m \in 0 .. k - 1 : m \in S PROVE k \in S
    <3>1. \A m \in 0 .. k - 1 : limit - m \notin indices
      BY <2>1
    <3> QED BY <1>2, <3>1
  <2>2. Nat \subseteq S
    <3> HIDE DEF S
    <3> QED BY <2>1, NatSetStrong
  <2>3. PICK y \in indices : TRUE
    OBVIOUS
  <2>4. limit - y \in Nat /\ limit - (limit - y) = y
    OBVIOUS
  <2> QED BY <2>2, <2>3, <2>4
<1> QED BY <1>1, <1>2

\* Position of the last property with an id.
LastOf(fields, id) == SelectLastInSeq(fields, LAMBDA p : p.id = id)

LEMMA LastOfIs ==
    ASSUME NEW fields \in Seq(Field), NEW id
    PROVE  \/ /\ LastOf(fields, id) \in 1 .. Len(fields) /\ fields[LastOf(fields, id)].id = id
              /\ \A i \in LastOf(fields, id) + 1 .. Len(fields) : fields[i].id # id
           \/ LastOf(fields, id) = 0 /\ \A i \in 1 .. Len(fields) : fields[i].id # id
<1> DEFINE I == {i \in 1 .. Len(fields) : fields[i].id = id}
<1>1. LastOf(fields, id) = IF I # {} THEN Max(I) ELSE 0
  BY DEF LastOf, SelectLastInSeq
<1>2. CASE I = {}
  BY <1>1, <1>2
<1>3. CASE I # {}
  <2>1. I \subseteq 1 .. Len(fields) /\ Len(fields) \in Nat
    OBVIOUS
  <2>2. \E x \in I : \A y \in I : x >= y
    <3> HIDE DEF I
    <3> QED BY <1>3, <2>1, MaxExists
  <2>3. Max(I) \in I /\ \A y \in I : Max(I) >= y
    <3> HIDE DEF I
    <3> QED BY <2>2 DEF Max
  <2>4. PICK k : k = Max(I) /\ k = LastOf(fields, id)
    BY <1>1, <1>3
  <2>5. k \in 1 .. Len(fields) /\ fields[k].id = id
    BY <2>3, <2>4
  <2>6. \A i \in k + 1 .. Len(fields) : fields[i].id # id
    <3> SUFFICES ASSUME NEW i \in k + 1 .. Len(fields), fields[i].id = id PROVE FALSE
      OBVIOUS
    <3>1. i \in I
      BY <2>5
    <3>2. k >= i
      BY <2>3, <2>4, <3>1
    <3> QED BY <2>5, <3>2
  <2> QED BY <2>4, <2>5, <2>6
<1> QED BY <1>2, <1>3

LEMMA LastOfUnique ==
    ASSUME NEW fields \in Seq(Field), NEW id, NEW k \in 1 .. Len(fields), fields[k].id = id,
           \A i \in k + 1 .. Len(fields) : fields[i].id # id
    PROVE  LastOf(fields, id) = k
<1> PICK l : l = LastOf(fields, id)
  OBVIOUS
<1>1. \/ l \in 1 .. Len(fields) /\ fields[l].id = id /\ \A i \in l + 1 .. Len(fields) : fields[i].id # id
      \/ l = 0 /\ \A i \in 1 .. Len(fields) : fields[i].id # id
  BY LastOfIs
<1>2. l \in 1 .. Len(fields) /\ fields[l].id = id /\ \A i \in l + 1 .. Len(fields) : fields[i].id # id
  BY <1>1
<1>3. ~ (l \in k + 1 .. Len(fields)) /\ ~ (k \in l + 1 .. Len(fields))
  BY <1>2
<1>4. Len(fields) \in Nat
  OBVIOUS
<1> QED BY <1>2, <1>3, <1>4

LEMMA LastOfConcat ==
    ASSUME NEW front \in Seq(Field), NEW back \in Seq(Field), NEW id
    PROVE  LastOf(front \o back, id) =
               IF LastOf(back, id) # 0 THEN Len(front) + LastOf(back, id) ELSE LastOf(front, id)
<1>1. PICK whole \in Seq(Field) : whole = front \o back
  <2>1. front \o back \in Seq(Field)
    OBVIOUS
  <2> QED BY <2>1
<1>2. /\ Len(whole) = Len(front) + Len(back) /\ Len(front) \in Nat /\ Len(back) \in Nat
      /\ \A i \in 1 .. Len(front) : whole[i] = front[i]
      /\ \A i \in 1 .. Len(back) : whole[Len(front) + i] = back[i]
  BY <1>1
<1>3. \A i \in Len(front) + 1 .. Len(whole) :
          i - Len(front) \in 1 .. Len(back) /\ whole[i] = back[i - Len(front)]
  <2> TAKE i \in Len(front) + 1 .. Len(whole)
  <2>1. i - Len(front) \in 1 .. Len(back) /\ Len(front) + (i - Len(front)) = i
    BY <1>2
  <2> QED BY <1>2, <2>1
<1>4. CASE LastOf(back, id) # 0
  <2>1. PICK k \in 1 .. Len(back) : /\ k = LastOf(back, id) /\ back[k].id = id
                                    /\ \A i \in k + 1 .. Len(back) : back[i].id # id
    BY <1>4, LastOfIs
  <2>2. PICK m : m = Len(front) + k
    OBVIOUS
  <2>3. m \in 1 .. Len(whole) /\ whole[m].id = id
    BY <1>2, <2>1, <2>2
  <2>4. \A i \in m + 1 .. Len(whole) : whole[i].id # id
    <3> TAKE i \in m + 1 .. Len(whole)
    <3>1. i \in Len(front) + 1 .. Len(whole) /\ i - Len(front) \in k + 1 .. Len(back)
      BY <1>2, <2>1, <2>2
    <3> QED BY <1>3, <2>1, <3>1
  <2>5. LastOf(whole, id) = m
    BY <2>3, <2>4, LastOfUnique
  <2> QED BY <1>1, <1>4, <2>1, <2>2, <2>5
<1>5. CASE LastOf(back, id) = 0
  <2>1. \A i \in 1 .. Len(back) : back[i].id # id
    <3>1. 0 \notin 1 .. Len(back)
      BY <1>2
    <3> QED BY <1>5, <3>1, LastOfIs
  <2>2. \A i \in Len(front) + 1 .. Len(whole) : whole[i].id # id
    BY <1>3, <2>1
  <2>3. CASE LastOf(front, id) # 0
    <3>1. PICK k \in 1 .. Len(front) : /\ k = LastOf(front, id) /\ front[k].id = id
                                       /\ \A i \in k + 1 .. Len(front) : front[i].id # id
      BY <2>3, LastOfIs
    <3>2. k \in 1 .. Len(whole) /\ whole[k].id = id
      BY <1>2, <3>1
    <3>3. \A i \in k + 1 .. Len(whole) : whole[i].id # id
      <4> TAKE i \in k + 1 .. Len(whole)
      <4>1. CASE i <= Len(front)
        BY <1>2, <3>1, <4>1
      <4>2. CASE ~ (i <= Len(front))
        BY <1>2, <2>2, <3>1, <4>2
      <4> QED BY <4>1, <4>2
    <3>4. LastOf(whole, id) = k
      BY <3>2, <3>3, LastOfUnique
    <3> QED BY <1>1, <1>5, <3>1, <3>4
  <2>4. CASE LastOf(front, id) = 0
    <3>1. \A i \in 1 .. Len(front) : front[i].id # id
      <4>1. 0 \notin 1 .. Len(front)
        BY <1>2
      <4> QED BY <2>4, <4>1, LastOfIs
    <3>2. \A i \in 1 .. Len(whole) : whole[i].id # id
      <4> TAKE i \in 1 .. Len(whole)
      <4>1. CASE i <= Len(front)
        BY <1>2, <3>1, <4>1
      <4>2. CASE ~ (i <= Len(front))
        BY <1>2, <2>2, <4>2
      <4> QED BY <4>1, <4>2
    <3>3. LastOf(whole, id) = 0
      BY <3>2, LastOfIs
    <3> QED BY <1>1, <1>5, <2>4, <3>3
  <2> QED BY <2>3, <2>4
<1> QED BY <1>4, <1>5

----------------------------------------------------------------------------
(* What a list of properties says of each id *)

\* One that is left out has an empty value.
Maybe(id, value) == IF value = <<>> THEN <<>> ELSE <<Plain(id, value)>>
PairFields(list) == [i \in 1 .. Len(list) |-> PairField(list[i])]
Got(fields, id) == TextOf(fields, id, <<>>)
OrElse(value, default) == IF value = <<>> THEN default ELSE value

\* Properties that are all known, and none of them empty.
Given(fields) ==
    /\ fields \in Seq(Field)
    /\ \A i \in 1 .. Len(fields) :
           /\ fields[i].id # 0
           /\ fields[i].id = USER_PROPERTY \/ fields[i].value # <<>>

LEMMA GivenNone == Given(<<>>)
<1>1. PICK r : r = <<>>
  OBVIOUS
<1>2. r \in Seq(Field) /\ Len(r) = 0
  BY <1>1
<1> QED BY <1>1, <1>2 DEF Given

LEMMA GivenWellFormed ==
    ASSUME NEW fields, Given(fields)
    PROVE  WellFormed(fields)
<1>1. \A i \in 1 .. Len(fields) : fields[i].id # Malformed.id
  BY DEF Given, Malformed
<1>2. DOMAIN fields = 1 .. Len(fields)
  BY DEF Given
<1> QED BY <1>1, <1>2 DEF WellFormed

LEMMA TextOfAt ==
    ASSUME NEW fields, NEW id, NEW default
    PROVE  /\ TextOf(fields, id, default)
                  = IF LastOf(fields, id) = 0 THEN default ELSE fields[LastOf(fields, id)].value
           /\ NumberOf(fields, id, default)
                  = IF LastOf(fields, id) = 0 THEN default ELSE Value(fields[LastOf(fields, id)].value)
BY DEF TextOf, NumberOf, LastOf

\* The number of an id, which is 0 if the id is not there.
LEMMA NumberGot ==
    ASSUME NEW fields, Given(fields), NEW id, id # USER_PROPERTY
    PROVE  NumberOf(fields, id, 0) = IF Got(fields, id) = <<>> THEN 0 ELSE Value(Got(fields, id))
<1>1. PICK k : k = LastOf(fields, id)
  OBVIOUS
<1>2. fields \in Seq(Field)
  BY DEF Given
<1>3. CASE k = 0
  BY <1>1, <1>3, TextOfAt DEF Got
<1>4. CASE k # 0
  <2>1. k \in 1 .. Len(fields) /\ fields[k].id = id
    BY <1>1, <1>2, <1>4, LastOfIs
  <2>2. fields[k].value # <<>>
    BY <2>1 DEF Given
  <2> QED BY <1>1, <1>4, <2>2, TextOfAt DEF Got
<1> QED BY <1>3, <1>4

LEMMA GotConcat ==
    ASSUME NEW front, Given(front), NEW back, Given(back)
    PROVE  /\ Given(front \o back)
           /\ \A id : id # USER_PROPERTY =>
                  Got(front \o back, id) = OrElse(Got(back, id), Got(front, id))
<1>1. front \in Seq(Field) /\ back \in Seq(Field)
  BY DEF Given
<1>2. PICK w \in Seq(Field) : w = front \o back
  <2>1. front \o back \in Seq(Field)
    BY <1>1
  <2> QED BY <2>1
<1>3. /\ Len(w) = Len(front) + Len(back) /\ Len(front) \in Nat /\ Len(back) \in Nat
      /\ \A i \in 1 .. Len(front) : w[i] = front[i]
      /\ \A i \in 1 .. Len(back) : w[Len(front) + i] = back[i]
  BY <1>1, <1>2
<1>4. Given(w)
  <2>1. ASSUME NEW i \in 1 .. Len(w)
        PROVE  w[i].id # 0 /\ (w[i].id = USER_PROPERTY \/ w[i].value # <<>>)
    <3>1. CASE i <= Len(front)
      <4>1. i \in 1 .. Len(front)
        BY <1>3, <3>1
      <4> QED BY <1>3, <4>1 DEF Given
    <3>2. CASE ~ (i <= Len(front))
      <4>1. PICK k \in 1 .. Len(back) : Len(front) + k = i
        <5>1. i - Len(front) \in 1 .. Len(back) /\ Len(front) + (i - Len(front)) = i
          BY <1>3, <3>2
        <5> QED BY <5>1
      <4> QED BY <1>3, <4>1 DEF Given
    <3> QED BY <3>1, <3>2
  <2> QED BY <2>1 DEF Given
<1>5. ASSUME NEW id, id # USER_PROPERTY PROVE Got(w, id) = OrElse(Got(back, id), Got(front, id))
  <2>1. PICK k : k = LastOf(back, id)
    OBVIOUS
  <2>2. PICK m : m = LastOf(front, id)
    OBVIOUS
  <2>3. LastOf(w, id) = IF k # 0 THEN Len(front) + k ELSE m
    BY <1>1, <1>2, <2>1, <2>2, LastOfConcat
  <2>4. CASE k # 0
    <3>1. k \in 1 .. Len(back) /\ back[k].id = id
      BY <1>1, <2>1, <2>4, LastOfIs
    <3>2. back[k].value # <<>>
      BY <1>5, <3>1 DEF Given
    <3>3. Got(back, id) = back[k].value
      BY <2>1, <2>4, TextOfAt DEF Got
    <3>4. Len(front) + k # 0 /\ w[Len(front) + k] = back[k]
      BY <1>3, <3>1
    <3>5. Got(w, id) = back[k].value
      BY <2>3, <2>4, <3>4, TextOfAt DEF Got
    <3> QED BY <3>2, <3>3, <3>5 DEF OrElse
  <2>5. CASE k = 0
    <3>1. Got(back, id) = <<>>
      BY <2>1, <2>5, TextOfAt DEF Got
    <3>2. CASE m = 0
      BY <2>2, <2>3, <2>5, <3>1, <3>2, TextOfAt DEF Got, OrElse
    <3>3. CASE m # 0
      <4>1. m \in 1 .. Len(front)
        BY <1>1, <2>2, <3>3, LastOfIs
      <4>2. w[m] = front[m]
        BY <1>3, <4>1
      <4>3. Got(w, id) = front[m].value
        BY <2>3, <2>5, <3>3, <4>2, TextOfAt DEF Got
      <4>4. Got(front, id) = front[m].value
        BY <2>2, <3>3, TextOfAt DEF Got
      <4> QED BY <3>1, <4>3, <4>4 DEF OrElse
    <3> QED BY <3>2, <3>3
  <2> QED BY <2>4, <2>5
<1> QED BY <1>2, <1>4, <1>5

LEMMA GotMaybe ==
    ASSUME NEW named \in Nat, named # 0, NEW value \in Seq(Nat)
    PROVE  /\ Given(Maybe(named, value))
           /\ \A id : Got(Maybe(named, value), id) = IF id = named THEN value ELSE <<>>
<1>1. CASE value = <<>>
  <2>1. PICK r \in Seq(Field) : r = Maybe(named, value) /\ r = <<>> /\ Len(r) = 0
    <3>1. PICK r : r = <<>>
      OBVIOUS
    <3>2. r \in Seq(Field) /\ Len(r) = 0
      BY <3>1
    <3>3. r = Maybe(named, value)
      BY <1>1, <3>1 DEF Maybe
    <3> QED BY <3>1, <3>2, <3>3
  <2>2. \A id : LastOf(r, id) = 0
    <3> TAKE id
    <3>1. 1 .. Len(r) = {}
      BY <2>1
    <3> QED BY <2>1, <3>1, LastOfIs
  <2> QED BY <1>1, <2>1, <2>2, TextOfAt, GivenNone DEF Got
<1>2. CASE value # <<>>
  <2>1. PICK f \in Field : f = Plain(named, value)
    BY PlainType
  <2>2. PICK r \in Seq(Field) : r = <<f>> /\ Len(r) = 1 /\ r[1] = f
    <3>1. <<f>> \in Seq(Field) /\ Len(<<f>>) = 1 /\ <<f>>[1] = f
      OBVIOUS
    <3> QED BY <3>1
  <2>3. r = Maybe(named, value) /\ f.id = named /\ f.value = value
    BY <1>2, <2>1, <2>2 DEF Maybe, Plain
  <2>4. Given(r)
    <3>1. \A i \in 1 .. Len(r) : i = 1
      BY <2>2
    <3> QED BY <1>2, <2>2, <2>3, <3>1 DEF Given
  <2>5. LastOf(r, named) = 1
    <3>1. 1 \in 1 .. Len(r) /\ \A i \in 1 + 1 .. Len(r) : FALSE
      BY <2>2
    <3>2. r[1].id = named
      BY <2>2, <2>3
    <3> QED BY <3>1, <3>2, LastOfUnique
  <2>6. \A id : id # named => LastOf(r, id) = 0
    <3> TAKE id
    <3>1. \A i \in 1 .. Len(r) : r[i].id = named
      BY <2>2, <2>3
    <3> QED BY <3>1, LastOfIs
  <2> QED BY <2>2, <2>3, <2>4, <2>5, <2>6, TextOfAt DEF Got
<1> QED BY <1>1, <1>2

LEMMA GotPairs ==
    ASSUME NEW list \in Seq(Pairs)
    PROVE  /\ Given(PairFields(list))
           /\ \A id : id # USER_PROPERTY => Got(PairFields(list), id) = <<>>
<1>1. \A i \in 1 .. Len(list) : PairField(list[i]) \in Field /\ PairField(list[i]).id = USER_PROPERTY
  <2> TAKE i \in 1 .. Len(list)
  <2>1. list[i] \in Pairs
    OBVIOUS
  <2>2. USER_PROPERTY \in Nat
    BY DEF USER_PROPERTY
  <2> QED BY <2>1, <2>2 DEF Pairs, PairField, Field
<1>2. PICK r : r = PairFields(list)
  OBVIOUS
<1>3. Len(list) \in Nat
  OBVIOUS
<1>4. /\ r \in Seq(Field) /\ Len(r) = Len(list)
      /\ \A i \in 1 .. Len(r) : r[i].id = USER_PROPERTY
  BY <1>1, <1>2, <1>3 DEF PairFields
<1>5. Given(r)
  BY <1>4 DEF Given, USER_PROPERTY
<1>6. \A id : id # USER_PROPERTY => LastOf(r, id) = 0
  BY <1>4, LastOfIs
<1> QED BY <1>2, <1>5, <1>6, TextOfAt DEF Got

\* What one property adds to the list of user properties.
UserPiece(field) ==
    IF field.id # USER_PROPERTY THEN <<>> ELSE <<[key |-> field.key, value |-> field.value]>>

LEMMA UserPieceType ==
    ASSUME NEW field \in Field
    PROVE  UserPiece(field) \in Seq(Pairs)
<1>1. CASE field.id # USER_PROPERTY
  <2>1. PICK r : r = <<>>
    OBVIOUS
  <2>2. r \in Seq(Pairs)
    BY <2>1
  <2> QED BY <1>1, <2>1, <2>2 DEF UserPiece
<1>2. CASE field.id = USER_PROPERTY
  <2>1. PICK p \in Pairs : p = [key |-> field.key, value |-> field.value]
    <3>1. field.key \in Seq(Nat) /\ field.value \in Seq(Nat)
      BY DEF Field
    <3> QED BY <3>1 DEF Pairs
  <2>2. <<p>> \in Seq(Pairs)
    OBVIOUS
  <2> QED BY <1>2, <2>1, <2>2 DEF UserPiece
<1> QED BY <1>1, <1>2

UserPieces(fields) == [i \in 1 .. Len(fields) |-> UserPiece(fields[i])]

LEMMA UserPiecesOf ==
    ASSUME NEW fields \in Seq(Field)
    PROVE  /\ UserPieces(fields) \in Seq(Seq(Pairs)) /\ Len(UserPieces(fields)) = Len(fields)
           /\ \A i \in 1 .. Len(fields) : UserPieces(fields)[i] = UserPiece(fields[i])
           /\ UserPropertiesOf(fields) = FlattenSeq(UserPieces(fields))
<1>1. Len(fields) \in Nat /\ DOMAIN fields = 1 .. Len(fields)
  OBVIOUS
<1>2. \A i \in 1 .. Len(fields) : UserPiece(fields[i]) \in Seq(Pairs)
  BY UserPieceType
<1>3. UserPieces(fields) \in Seq(Seq(Pairs)) /\ Len(UserPieces(fields)) = Len(fields)
  BY <1>1, <1>2 DEF UserPieces
<1>4. \A i \in 1 .. Len(fields) : UserPieces(fields)[i] = UserPiece(fields[i])
  BY DEF UserPieces
<1>5. UserPropertiesOf(fields) = FlattenSeq(UserPieces(fields))
  BY <1>1, Zenon DEF UserPropertiesOf, UserPieces, UserPiece
<1> QED BY <1>3, <1>4, <1>5

LEMMA UsersType ==
    ASSUME NEW fields \in Seq(Field)
    PROVE  UserPropertiesOf(fields) \in Seq(Pairs)
BY UserPiecesOf, FlattenType

LEMMA UsersConcat ==
    ASSUME NEW front \in Seq(Field), NEW back \in Seq(Field)
    PROVE  UserPropertiesOf(front \o back) = UserPropertiesOf(front) \o UserPropertiesOf(back)
<1>1. PICK w \in Seq(Field) : w = front \o back
  <2>1. front \o back \in Seq(Field)
    OBVIOUS
  <2> QED BY <2>1
<1>2. /\ Len(w) = Len(front) + Len(back) /\ Len(front) \in Nat /\ Len(back) \in Nat
      /\ \A i \in 1 .. Len(front) : w[i] = front[i]
      /\ \A i \in 1 .. Len(back) : w[Len(front) + i] = back[i]
  BY <1>1
<1>3. PICK f \in Seq(Seq(Pairs)) : /\ f = UserPieces(front) /\ Len(f) = Len(front)
                                   /\ \A i \in 1 .. Len(front) : f[i] = UserPiece(front[i])
                                   /\ UserPropertiesOf(front) = FlattenSeq(f)
  BY UserPiecesOf
<1>4. PICK g \in Seq(Seq(Pairs)) : /\ g = UserPieces(back) /\ Len(g) = Len(back)
                                   /\ \A i \in 1 .. Len(back) : g[i] = UserPiece(back[i])
                                   /\ UserPropertiesOf(back) = FlattenSeq(g)
  BY UserPiecesOf
<1>5. PICK h \in Seq(Seq(Pairs)) : /\ h = UserPieces(w) /\ Len(h) = Len(w)
                                   /\ \A i \in 1 .. Len(w) : h[i] = UserPiece(w[i])
                                   /\ UserPropertiesOf(w) = FlattenSeq(h)
  BY UserPiecesOf
<1>6. h = f \o g
  <2>1. PICK j \in Seq(Seq(Pairs)) : j = f \o g /\ Len(j) = Len(h)
    <3>1. f \o g \in Seq(Seq(Pairs)) /\ Len(f \o g) = Len(f) + Len(g)
      OBVIOUS
    <3>2. Len(f \o g) = Len(h)
      BY <1>2, <1>3, <1>4, <1>5, <3>1
    <3> QED BY <3>1, <3>2, Zenon
  <2>2. ASSUME NEW i \in 1 .. Len(h) PROVE h[i] = j[i]
    <3>1. CASE i <= Len(front)
      <4>1. i \in 1 .. Len(front)
        BY <1>2, <1>5, <3>1
      <4>2. j[i] = f[i]
        BY <1>3, <2>1, <4>1
      <4> QED BY <1>2, <1>3, <1>5, <4>1, <4>2
    <3>2. CASE ~ (i <= Len(front))
      <4>1. PICK k \in 1 .. Len(back) : Len(front) + k = i
        <5>1. i - Len(front) \in 1 .. Len(back) /\ Len(front) + (i - Len(front)) = i
          BY <1>2, <1>5, <3>2
        <5> QED BY <5>1
      <4>2. k \in 1 .. Len(g) /\ Len(f) + k = i
        BY <1>3, <1>4, <4>1
      <4>3. j[i] = g[k]
        <5>1. \A m \in 1 .. Len(g) : (f \o g)[Len(f) + m] = g[m]
          BY SMTT(30)
        <5>2. (f \o g)[Len(f) + k] = g[k]
          BY <4>2, <5>1, Zenon
        <5> QED BY <2>1, <4>2, <5>2, Zenon
      <4> QED BY <1>2, <1>4, <1>5, <4>1, <4>3
    <3> QED BY <3>1, <3>2
  <2> QED BY <2>1, <2>2, SeqEqual
<1>7. FlattenSeq(f \o g) = FlattenSeq(f) \o FlattenSeq(g)
  BY FlattenConcat
<1> QED BY <1>1, <1>3, <1>4, <1>5, <1>6, <1>7

LEMMA UsersNone == UserPropertiesOf(<<>>) = <<>>
<1>1. PICK r : r = <<>>
  OBVIOUS
<1>2. r \in Seq(Field) /\ Len(r) = 0
  BY <1>1
<1>3. UserPieces(r) \in Seq(Seq(Pairs)) /\ Len(UserPieces(r)) = 0
  BY <1>2, UserPiecesOf
<1>4. UserPieces(r) = <<>>
  BY <1>3
<1>5. UserPropertiesOf(r) = FlattenSeq(UserPieces(r))
  BY <1>2, UserPiecesOf
<1> QED BY <1>1, <1>4, <1>5, FlattenNone

LEMMA UsersMaybe ==
    ASSUME NEW named \in Nat, named # USER_PROPERTY, NEW value \in Seq(Nat)
    PROVE  UserPropertiesOf(Maybe(named, value)) = <<>>
<1>1. CASE value = <<>>
  BY <1>1, UsersNone DEF Maybe
<1>2. CASE value # <<>>
  <2>1. PICK f \in Field : f = Plain(named, value)
    BY PlainType
  <2>2. PICK r \in Seq(Field) : r = <<f>> /\ Len(r) = 1 /\ r[1] = f
    <3>1. <<f>> \in Seq(Field) /\ Len(<<f>>) = 1 /\ <<f>>[1] = f
      OBVIOUS
    <3> QED BY <3>1
  <2>3. r = Maybe(named, value) /\ f.id # USER_PROPERTY
    BY <1>2, <2>1, <2>2 DEF Maybe, Plain
  <2>4. PICK g \in Seq(Seq(Pairs)) : g = UserPieces(r) /\ Len(g) = 1 /\ g[1] = UserPiece(r[1])
    <3>1. 1 \in 1 .. Len(r)
      BY <2>2
    <3> QED BY <2>2, <3>1, UserPiecesOf
  <2>5. PICK e : e = <<>>
    OBVIOUS
  <2>6. g[1] = e
    BY <2>2, <2>3, <2>4, <2>5 DEF UserPiece
  <2>7. g = <<e>>
    BY <2>4, <2>6
  <2>8. FlattenSeq(g) = e
    BY <2>7, FlattenOne
  <2> QED BY <2>3, <2>4, <2>5, <2>8, UserPiecesOf
<1> QED BY <1>1, <1>2

LEMMA UsersPairs ==
    ASSUME NEW list \in Seq(Pairs)
    PROVE  UserPropertiesOf(PairFields(list)) = list
<1>1. PICK r \in Seq(Field) : r = PairFields(list)
  BY GotPairs DEF Given
<1>2. Len(list) \in Nat
  OBVIOUS
<1>3. Len(r) = Len(list) /\ \A i \in 1 .. Len(list) : r[i] = PairField(list[i])
  <2>1. DOMAIN r = 1 .. Len(list)
    BY <1>1 DEF PairFields
  <2>2. Len(r) = Len(list)
    BY <1>2, <2>1
  <2> QED BY <1>1, <2>2 DEF PairFields
<1>4. PICK g \in Seq(Seq(Pairs)) : /\ g = UserPieces(r) /\ Len(g) = Len(list)
                                   /\ \A i \in 1 .. Len(list) : g[i] = UserPiece(r[i])
                                   /\ UserPropertiesOf(r) = FlattenSeq(g)
  BY <1>3, UserPiecesOf
<1>5. ASSUME NEW i \in 1 .. Len(list) PROVE g[i] = <<list[i]>>
  <2>1. list[i] \in Pairs
    OBVIOUS
  <2>2. PICK p : p = list[i] /\ p = [key |-> p.key, value |-> p.value]
    BY <2>1 DEF Pairs
  <2>3. g[i] = <<[key |-> p.key, value |-> p.value]>>
    <3>1. g[i] = UserPiece(PairField(p))
      BY <1>3, <1>4, <2>2
    <3>2. PICK f : f = PairField(p)
      OBVIOUS
    <3>3. f.id = USER_PROPERTY /\ f.key = p.key /\ f.value = p.value
      BY <3>2 DEF PairField
    <3>4. UserPiece(f) = <<[key |-> f.key, value |-> f.value]>>
      BY <3>3 DEF UserPiece
    <3> QED BY <3>1, <3>2, <3>3, <3>4
  <2> QED BY <2>2, <2>3
<1>6. FlattenSeq(g) = list
  BY <1>4, <1>5, FlattenSingles
<1> QED BY <1>1, <1>4, <1>6

----------------------------------------------------------------------------
(* The properties that mqtt5_msg.c writes *)

\* The bytes of a list that say what the list reads as.
Piece(bytes, fields, known) == Carries(bytes, fields, known) /\ Given(fields)

LEMMA PieceType ==
    ASSUME NEW bytes, NEW fields, NEW known, Piece(bytes, fields, known)
    PROVE  bytes \in Seq(Nat) /\ fields \in Seq(Field)
BY DEF Piece, Carries

\* What two lists say together.
Joined(fields, others) ==
    /\ \A id : id # USER_PROPERTY =>
           Got(fields \o others, id) = OrElse(Got(others, id), Got(fields, id))
    /\ UserPropertiesOf(fields \o others) = UserPropertiesOf(fields) \o UserPropertiesOf(others)

LEMMA PieceConcat ==
    ASSUME NEW ids, NEW front, NEW back, NEW fields, NEW others,
           Piece(front, fields, ids), Piece(back, others, ids)
    PROVE  Piece(front \o back, fields \o others, ids) /\ Joined(fields, others)
<1>1. Carries(front \o back, fields \o others, ids)
  BY CarriesConcat DEF Piece
<1>2. Given(fields \o others) /\ \A id : id # USER_PROPERTY =>
                  Got(fields \o others, id) = OrElse(Got(others, id), Got(fields, id))
  BY GotConcat DEF Piece
<1>3. fields \in Seq(Field) /\ others \in Seq(Field)
  BY DEF Piece, Given
<1> QED BY <1>1, <1>2, <1>3, UsersConcat DEF Piece, Joined

\* What one optional property is: its bytes, and what it reads as.
Option(bytes, named, value, known) ==
    /\ Piece(bytes, Maybe(named, value), known)
    /\ \A id : Got(Maybe(named, value), id) = IF id = named THEN value ELSE <<>>
    /\ UserPropertiesOf(Maybe(named, value)) = <<>>

LEMMA OptionFrom ==
    ASSUME NEW known, NEW named \in Nat, named # 0, named # USER_PROPERTY, NEW value \in Seq(Nat),
           NEW bytes, value = <<>> => bytes = <<>>,
           value # <<>> => Carries(bytes, <<Plain(named, value)>>, known)
    PROVE  Option(bytes, named, value, known)
<1>1. Carries(bytes, Maybe(named, value), known)
  BY CarriesNone DEF Maybe
<1> QED BY <1>1, GotMaybe, UsersMaybe DEF Option, Piece

\* Ids are numbers other than 0 and USER_PROPERTY.
Id(id) == id \in Nat /\ id # 0 /\ id # USER_PROPERTY

BigEndianOf(n, width) == IF n = 0 THEN <<>> ELSE BigEndian(n, width)

LEMMA DivMod ==
    ASSUME NEW number \in Nat
    PROVE  /\ number \div 65536 \in Nat /\ number % 65536 \in Nat
           /\ (number \div 65536) * 65536 + (number % 65536) = number
<1>1. number \div 65536 \in Nat /\ number % 65536 \in Nat
  OBVIOUS
<1>2. (number \div 65536) * 65536 + (number % 65536) = number
  BY SMT
<1> QED BY <1>1, <1>2

LEMMA BigEndianRead ==
    ASSUME NEW number \in Nat, NEW width \in {2, 4}
    PROVE  /\ BigEndian(number, width) \in Seq(Nat) /\ Len(BigEndian(number, width)) = width
           /\ Value(BigEndian(number, width)) = number
<1>1. ASSUME NEW n \in Nat, NEW w \in Seq(Nat), w = Word(n), Len(w) = 2
      PROVE  WordAt(w, 0) = n
  <2>1. At(w, 0, w)
    BY AtWhole
  <2> QED BY <1>1, <2>1, WordRead
<1>2. CASE width = 2
  <2>1. PICK w \in Seq(Nat) : w = Word(number) /\ Len(w) = 2
    BY WordType
  <2>2. BigEndian(number, width) = w
    BY <1>2, <2>1 DEF BigEndian
  <2>3. WordAt(w, 0) = number
    BY <1>1, <2>1
  <2> QED BY <1>2, <2>1, <2>2, <2>3 DEF Value
<1>3. CASE width = 4
  <2>2. PICK h, l \in Nat : /\ h = number \div 65536 /\ l = number % 65536
                            /\ h * 65536 + l = number
    BY DivMod
  <2>3. PICK a, b \in Seq(Nat) : a = Word(h) /\ b = Word(l) /\ Len(a) = 2 /\ Len(b) = 2
    BY WordType
  <2>4. PICK w \in Seq(Nat) : w = a \o b /\ Len(w) = 4
    <3>1. a \o b \in Seq(Nat) /\ Len(a \o b) = Len(a) + Len(b)
      OBVIOUS
    <3>2. Len(a \o b) = 4
      BY <2>3, <3>1
    <3> QED BY <3>1, <3>2, Zenon
  <2>5. BigEndian(number, width) = w
    <3>1. BigEndian(number, 4) = Word(number \div 65536) \o Word(number % 65536)
      BY SMT DEF BigEndian
    <3> QED BY <1>3, <2>2, <2>3, <2>4, <3>1
  <2>6. At(w, 0, a) /\ At(w, 2, b)
    <3>1. At(w, 0, a \o b)
      BY <2>4, AtWhole
    <3>2. At(w, 0, a) /\ At(w, 0 + Len(a), b)
      BY <3>1, AtConcat, 0 \in Nat
    <3>3. 0 + Len(a) = 2
      BY <2>3
    <3> QED BY <3>2, <3>3
  <2>7. WordAt(w, 0) = h /\ WordAt(w, 2) = l
    BY <2>3, <2>6, WordRead
  <2>8. Value(w) = h * 65536 + l
    <3>1. Value(w) = WordAt(w, 0) * 65536 + WordAt(w, 2)
      BY <2>4, SMT DEF Value
    <3> QED BY <2>7, <3>1
  <2>9. Value(w) = number
    BY <2>2, <2>8
  <2> QED BY <1>3, <2>4, <2>5, <2>9
<1> QED BY <1>2, <1>3

LEMMA NumberOption ==
    ASSUME NEW known, NEW named \in known, Id(named), NEW number \in Nat, NEW width \in {2, 4},
           width = 2 => named \in TwoBytes, width = 4 => named \in FourBytes
    PROVE  Option(Number(named, number, width), named, BigEndianOf(number, width), known)
<1>1. PICK v \in Seq(Nat) : v = BigEndian(number, width) /\ Len(v) = width
  BY BigEndianRead
<1>2. v # <<>>
  BY <1>1
<1>3. Carries(<<named>> \o v, <<Plain(named, v)>>, known)
  <2>1. Sizes(named, v)
    BY <1>1 DEF Sizes
  <2> QED BY <2>1, SizedCarries DEF Id
<1>4. CASE number = 0
  <2>1. PICK r \in Seq(Nat) : r = <<>>
    BY EmptySeq
  <2>2. Number(named, number, width) = r /\ BigEndianOf(number, width) = r
    BY <1>4, <2>1 DEF Number, BigEndianOf
  <2> QED BY <2>1, <2>2, OptionFrom DEF Id
<1>5. CASE number # 0
  <2>1. Number(named, number, width) = <<named>> \o v /\ BigEndianOf(number, width) = v
    BY <1>1, <1>5 DEF Number, BigEndianOf
  <2> QED BY <1>2, <1>3, <2>1, OptionFrom DEF Id
<1> QED BY <1>4, <1>5

LEMMA NumberOptionRead ==
    ASSUME NEW fields, Given(fields), NEW id, id # USER_PROPERTY, NEW number \in Nat,
           NEW width \in {2, 4}, Got(fields, id) = BigEndianOf(number, width)
    PROVE  NumberOf(fields, id, 0) = number
<1>1. CASE number = 0
  BY <1>1, NumberGot DEF BigEndianOf
<1>2. CASE number # 0
  <2>1. PICK v \in Seq(Nat) : v = BigEndian(number, width) /\ Len(v) = width /\ Value(v) = number
    BY BigEndianRead
  <2>2. v # <<>>
    BY <2>1
  <2> QED BY <1>2, <2>1, <2>2, NumberGot DEF BigEndianOf
<1> QED BY <1>1, <1>2

FlagOf(given) == IF given THEN <<1>> ELSE <<>>

LEMMA FlagOption ==
    ASSUME NEW known, NEW named \in known, Id(named), named \in OneByte, NEW given
    PROVE  Option(Flag(named, given), named, FlagOf(given), known)
<1>1. PICK v \in Seq(Nat) : v = <<1>> /\ Len(v) = 1
  <2>1. <<1>> \in Seq(Nat) /\ Len(<<1>>) = 1
    OBVIOUS
  <2> QED BY <2>1
<1>2. CASE ~ given
  <2>1. PICK r \in Seq(Nat) : r = <<>>
    BY EmptySeq
  <2>2. Flag(named, given) = r /\ FlagOf(given) = r
    BY <1>2, <2>1 DEF Flag, FlagOf
  <2> QED BY <2>1, <2>2, OptionFrom DEF Id
<1>3. CASE given
  <2>1. Flag(named, given) = <<named>> \o v /\ FlagOf(given) = v
    BY <1>1, <1>3 DEF Flag, FlagOf, Id
  <2>2. Carries(<<named>> \o v, <<Plain(named, v)>>, known)
    <3>1. Sizes(named, v)
      BY <1>1 DEF Sizes
    <3> QED BY <3>1, SizedCarries DEF Id
  <2>3. v # <<>>
    BY <1>1
  <2> QED BY <2>1, <2>2, <2>3, OptionFrom DEF Id
<1> QED BY <1>2, <1>3

LEMMA FlagOptionRead ==
    ASSUME NEW fields, Given(fields), NEW id, id # USER_PROPERTY, NEW given \in BOOLEAN,
           Got(fields, id) = FlagOf(given)
    PROVE  (NumberOf(fields, id, 0) = 1) = given
<1>1. CASE ~ given
  <2>1. NumberOf(fields, id, 0) = 0
    BY <1>1, NumberGot DEF FlagOf
  <2> QED BY <1>1, <2>1
<1>2. CASE given
  <2>1. PICK v \in Seq(Nat) : v = <<1>> /\ Len(v) = 1 /\ v[1] = 1
    <3>1. <<1>> \in Seq(Nat) /\ Len(<<1>>) = 1 /\ <<1>>[1] = 1
      OBVIOUS
    <3> QED BY <3>1
  <2>2. v # <<>> /\ Value(v) = 1
    BY <2>1 DEF Value
  <2>3. NumberOf(fields, id, 0) = 1
    BY <1>2, <2>1, <2>2, NumberGot DEF FlagOf
  <2> QED BY <1>2, <2>3
<1> QED BY <1>1, <1>2

LEMMA TextOption ==
    ASSUME NEW known, NEW named \in Strings(known), Id(named), NEW string \in Seq(Nat)
    PROVE  Option(Text(named, string), named, string, known)
<1>1. string # <<>> => Text(named, string) = <<named>> \o String(string)
  <2>1. PICK w \in Seq(Nat) : w = Word(Len(string))
    <3>1. Len(string) \in Nat
      OBVIOUS
    <3> QED BY <3>1, WordType
  <2>2. <<named>> \in Seq(Nat)
    BY DEF Id
  <2>3. (<<named>> \o w) \o string = <<named>> \o (w \o string)
    BY <2>2, ConcatAssociative
  <2> QED BY <2>1, <2>3 DEF Text, String
<1>2. string = <<>> => Text(named, string) = <<>>
  BY DEF Text
<1>3. Carries(<<named>> \o String(string), <<Plain(named, string)>>, known)
  BY TextCarries DEF Id
<1> QED BY <1>1, <1>2, <1>3, OptionFrom DEF Id

LEMMA VariableOption ==
    ASSUME NEW known, SUBSCRIBE_IDENTIFIER \in known, NEW number \in Nat
    PROVE  Option(Variable(SUBSCRIBE_IDENTIFIER, number), SUBSCRIBE_IDENTIFIER,
                  IF number = 0 THEN <<>> ELSE remaining_length[number], known)
<1>1. PICK v \in Seq(Nat) : v = remaining_length[number] /\ Len(v) >= 1
  BY RemainingLengthType
<1>2. v # <<>>
  BY <1>1
<1>3. PICK id : id = SUBSCRIBE_IDENTIFIER /\ Id(id)
  BY DEF Id, SUBSCRIBE_IDENTIFIER, USER_PROPERTY
<1>4. CASE number = 0
  <2>1. PICK r \in Seq(Nat) : r = <<>>
    BY EmptySeq
  <2>2. Variable(id, number) = r
    BY <1>4, <2>1 DEF Variable
  <2>3. Option(r, id, r, known)
    BY <1>3, <2>1, OptionFrom DEF Id
  <2> QED BY <1>3, <1>4, <2>1, <2>2, <2>3
<1>5. CASE number # 0
  <2>1. Variable(id, number) = <<id>> \o v
    BY <1>1, <1>5 DEF Variable
  <2>2. Carries(<<id>> \o v, <<Plain(id, v)>>, known)
    BY <1>1, <1>3, SubscribeIdCarries
  <2>3. Option(<<id>> \o v, id, v, known)
    BY <1>2, <1>3, <2>2, OptionFrom DEF Id
  <2> QED BY <1>1, <1>3, <1>5, <2>1, <2>3
<1> QED BY <1>4, <1>5

\* The list of user properties.
LEMMA PairsPiece ==
    ASSUME NEW known, USER_PROPERTY \in known, NEW list \in Seq(Pairs)
    PROVE  /\ Piece(UserProperties(list), PairFields(list), known)
           /\ \A id : id # USER_PROPERTY => Got(PairFields(list), id) = <<>>
           /\ UserPropertiesOf(PairFields(list)) = list
<1>1. PICK fs \in Seq(Field) : fs = PairFields(list)
  BY GotPairs DEF Given
<1>2. Len(list) \in Nat
  OBVIOUS
<1>3. Len(fs) = Len(list) /\ \A i \in 1 .. Len(list) : fs[i] = PairField(list[i])
  <2>1. DOMAIN fs = 1 .. Len(list)
    BY <1>1 DEF PairFields
  <2>2. Len(fs) = Len(list)
    BY <1>2, <2>1
  <2> QED BY <1>1, <2>2 DEF PairFields
<1>4. \A i \in 1 .. Len(list) : Carries(PairBytes(list[i]), <<PairField(list[i])>>, known)
  <2> TAKE i \in 1 .. Len(list)
  <2>1. list[i] \in Pairs
    OBVIOUS
  <2> QED BY <2>1, PairCarries
<1>5. PICK ps : ps = [i \in 1 .. Len(list) |-> PairBytes(list[i])]
  OBVIOUS
<1>6. \A i \in 1 .. Len(list) : PairBytes(list[i]) \in Seq(Nat)
  BY <1>4 DEF Carries
<1>7. ps \in Seq(Seq(Nat)) /\ Len(ps) = Len(fs) /\ \A i \in 1 .. Len(fs) : ps[i] = PairBytes(list[i])
  BY <1>2, <1>3, <1>5, <1>6
<1>8. \A i \in 1 .. Len(fs) : Carries(ps[i], <<fs[i]>>, known)
  BY <1>3, <1>4, <1>7
<1>9. Carries(FlattenSeq(ps), fs, known)
  BY <1>7, <1>8, FlattenCarries
<1>10. UserProperties(list) = FlattenSeq(ps)
  <2>1. DOMAIN list = 1 .. Len(list)
    OBVIOUS
  <2> QED BY <1>5, <2>1, Zenon DEF UserProperties, PairBytes
<1> QED BY <1>1, <1>9, <1>10, GotPairs, UsersPairs DEF Piece

----------------------------------------------------------------------------
(* Messages as they are built *)

Msgs == [ok : BOOLEAN, bytes : Seq(Nat)]

\* A message that did not fail has these bytes so far.
Built(msg, bytes) ==
    /\ msg \in Msgs /\ bytes \in Seq(Nat)
    /\ msg.ok => msg.bytes = bytes

LEMMA BuiltFailed == ASSUME NEW bytes \in Seq(Nat) PROVE Built(Failed, bytes)
<1>1. PICK r \in Seq(Nat) : r = <<>>
  BY EmptySeq
<1>2. Failed \in Msgs /\ ~ Failed.ok
  BY <1>1 DEF Failed, Msgs
<1> QED BY <1>2 DEF Built

LEMMA BuiltStarted == Built(Started, <<>>)
<1>1. PICK r \in Seq(Nat) : r = <<>>
  BY EmptySeq
<1>2. Started \in Msgs /\ Started.bytes = r
  BY <1>1 DEF Started, Msgs
<1> QED BY <1>1, <1>2 DEF Built

LEMMA BuiltAppend ==
    ASSUME NEW msg, NEW bytes, Built(msg, bytes), NEW more \in Seq(Nat)
    PROVE  /\ Built(append(msg, more), bytes \o more)
           /\ append(msg, more).ok =>
                  msg.ok /\ HEADER_SIZE + Len(append(msg, more).bytes) <= OUT_BUFFER
<1>1. msg \in Msgs /\ bytes \in Seq(Nat) /\ msg.bytes \in Seq(Nat) /\ msg.ok \in BOOLEAN
  BY DEF Built, Msgs
<1>2. bytes \o more \in Seq(Nat) /\ msg.bytes \o more \in Seq(Nat)
  BY <1>1
<1>3. CASE msg.ok /\ HEADER_SIZE + Len(msg.bytes) + Len(more) <= OUT_BUFFER
  <2>1. PICK w \in Seq(Nat) : w = msg.bytes \o more
    BY <1>2
  <2>2. PICK m \in Msgs : m = append(msg, more) /\ m.ok /\ m.bytes = w /\ w = bytes \o more
    <3>1. append(msg, more) = [msg EXCEPT !.bytes = w]
      BY <1>3, <2>1, Zenon DEF append
    <3>2. [msg EXCEPT !.bytes = w] \in Msgs
      BY <1>1 DEF Msgs
    <3>3. [msg EXCEPT !.bytes = w].ok = msg.ok /\ [msg EXCEPT !.bytes = w].bytes = w
      BY <1>1 DEF Msgs
    <3>4. msg.bytes = bytes
      BY <1>3 DEF Built
    <3> QED BY <1>3, <2>1, <3>1, <3>2, <3>3, <3>4
  <2>3. HEADER_SIZE + Len(m.bytes) <= OUT_BUFFER
    <3>1. Len(w) = Len(msg.bytes) + Len(more) /\ Len(msg.bytes) \in Nat /\ Len(more) \in Nat
      BY <1>1, <2>1
    <3>2. OUT_BUFFER \in Nat
      BY MqttMsgAssumption
    <3> QED BY <1>3, <2>2, <3>1, <3>2 DEF HEADER_SIZE
  <2> QED BY <1>2, <1>3, <2>2, <2>3 DEF Built
<1>4. CASE ~ (msg.ok /\ HEADER_SIZE + Len(msg.bytes) + Len(more) <= OUT_BUFFER)
  <2>1. append(msg, more) = Failed
    BY <1>4 DEF append
  <2>2. ~ Failed.ok
    BY DEF Failed
  <2> QED BY <1>2, <2>1, <2>2, BuiltFailed
<1> QED BY <1>3, <1>4

LEMMA BuiltString ==
    ASSUME NEW msg, NEW bytes, Built(msg, bytes), NEW text \in Seq(Nat)
    PROVE  /\ Built(append_string(msg, text), bytes \o String(text))
           /\ append_string(msg, text).ok => msg.ok
BY StringType, BuiltAppend DEF append_string, String

LEMMA BuiltId ==
    ASSUME NEW msg, NEW bytes, Built(msg, bytes), NEW number \in Nat
    PROVE  /\ Built(append_message_id(msg, number), bytes \o Word(number))
           /\ append_message_id(msg, number).ok => msg.ok
BY WordType, BuiltAppend DEF append_message_id

\* Properties after their length.
Prefixed(bytes) == remaining_length[Len(bytes)] \o bytes

LEMMA PrefixedType ==
    ASSUME NEW bytes \in Seq(Nat)
    PROVE  /\ Prefixed(bytes) \in Seq(Nat)
           /\ Len(Prefixed(bytes)) = Len(remaining_length[Len(bytes)]) + Len(bytes)
           /\ Len(remaining_length[Len(bytes)]) >= 1
<1>1. Len(bytes) \in Nat
  OBVIOUS
<1>2. PICK r \in Seq(Nat) : r = remaining_length[Len(bytes)] /\ Len(r) >= 1
  BY <1>1, RemainingLengthType
<1>3. r \o bytes \in Seq(Nat) /\ Len(r \o bytes) = Len(r) + Len(bytes)
  OBVIOUS
<1> QED BY <1>2, <1>3 DEF Prefixed

LEMMA BuiltProperties ==
    ASSUME NEW msg, NEW bytes, Built(msg, bytes), NEW properties \in Seq(Nat)
    PROVE  /\ Built(append_properties(msg, properties), bytes \o Prefixed(properties))
           /\ append_properties(msg, properties).ok =>
                  /\ msg.ok
                  /\ HEADER_SIZE + Len(append_properties(msg, properties).bytes) <= OUT_BUFFER
BY PrefixedType, BuiltAppend DEF append_properties, Prefixed

\* A packet: the first byte, the length of the rest, and the rest.
Frame(first, rest) == (<<first>> \o remaining_length[Len(rest)]) \o rest

LEMMA FrameType ==
    ASSUME NEW first \in Nat, NEW rest \in Seq(Nat)
    PROVE  /\ Frame(first, rest) \in Seq(Nat)
           /\ Len(Frame(first, rest)) = 1 + Len(remaining_length[Len(rest)]) + Len(rest)
           /\ Frame(first, rest)[1] = first
           /\ At(Frame(first, rest), 1, remaining_length[Len(rest)])
           /\ At(Frame(first, rest), 1 + Len(remaining_length[Len(rest)]), rest)
<1>1. Len(rest) \in Nat
  OBVIOUS
<1>2. PICK r \in Seq(Nat) : r = remaining_length[Len(rest)]
  BY <1>1, RemainingLengthType
<1>3. PICK h \in Seq(Nat) : h = <<first>> \o r /\ Len(h) = 1 + Len(r)
  <2>1. <<first>> \o r \in Seq(Nat) /\ Len(<<first>> \o r) = 1 + Len(r)
    OBVIOUS
  <2> QED BY <2>1
<1>4. PICK w \in Seq(Nat) : w = h \o rest /\ Len(w) = 1 + Len(r) + Len(rest)
  <2>1. h \o rest \in Seq(Nat) /\ Len(h \o rest) = Len(h) + Len(rest)
    OBVIOUS
  <2>2. Len(h \o rest) = 1 + Len(r) + Len(rest)
    BY <1>3, <2>1
  <2> QED BY <2>1, <2>2, Zenon
<1>5. w = Frame(first, rest)
  BY <1>2, <1>3, <1>4 DEF Frame
<1>6. At(w, 0, h \o rest) /\ 0 \in Nat
  BY <1>4, AtWhole
<1>7. At(w, 0, h) /\ At(w, 0 + Len(h), rest)
  BY <1>6, AtConcat
<1>8. At(w, 0, <<first>> \o r)
  BY <1>3, <1>7
<1>9. w[0 + 1] = first /\ At(w, 0 + 1, r)
  BY <1>6, <1>8, HeadAt
<1>10. 0 + 1 = 1 /\ 0 + Len(h) = 1 + Len(r)
  BY <1>3
<1> QED BY <1>2, <1>4, <1>5, <1>7, <1>9, <1>10

LEMMA FrameRead ==
    ASSUME NEW first \in Nat, NEW rest \in Seq(Nat), NEW bytes \in Seq(Nat), bytes = Frame(first, rest)
    PROVE  /\ bytes[1] = first
           /\ Start5(bytes, Len(bytes))
                  = [offset |-> 1 + Len(remaining_length[Len(rest)]), total |-> Len(bytes)]
           /\ 1 + Len(remaining_length[Len(rest)]) \in Nat
           /\ 1 + Len(remaining_length[Len(rest)]) + Len(rest) = Len(bytes)
           /\ At(bytes, 1 + Len(remaining_length[Len(rest)]), rest)
           /\ get_variable_len(bytes, 1, Len(bytes))
                  = [len |-> Len(rest), bytes |-> Len(remaining_length[Len(rest)])]
<1>1. PICK n \in Nat : n = Len(rest)
  OBVIOUS
<1>2. PICK k \in Nat : k = Len(remaining_length[n]) /\ k >= 1
  <2>1. PICK r \in Seq(Nat) : r = remaining_length[n] /\ Len(r) >= 1
    BY RemainingLengthType
  <2> QED BY <2>1
<1>3. Len(bytes) = 1 + k + n /\ bytes[1] = first /\ At(bytes, 1, remaining_length[n]) /\ At(bytes, 1 + k, rest)
  BY <1>1, <1>2, FrameType
<1>4. PICK l \in Nat : l = Len(bytes)
  OBVIOUS
<1>5. 1 + Len(remaining_length[n]) <= l /\ l <= Len(bytes) /\ 1 \in Nat
  BY <1>2, <1>3, <1>4
<1>6. get_variable_len(bytes, 1, l) = [len |-> n, bytes |-> k]
  BY <1>2, <1>3, <1>5, VarLenRead, ZenonT(60)
<1>7. Start5(bytes, l) = [offset |-> 1 + k, total |-> 1 + k + n]
  BY <1>6 DEF Start5
<1> QED BY <1>1, <1>2, <1>3, <1>4, <1>6, <1>7

\* The first byte of a packet.
FirstByte(type, qos, retain) == type * 16 + 0 * 8 + qos * 2 + retain

\* A message with its fixed header; `more` bytes come later.
Finished(packet, msg, bytes, first, more) ==
    /\ packet \in Msgs
    /\ packet.ok => /\ msg.ok
                    /\ packet.bytes = (<<first>> \o remaining_length[Len(bytes) + more]) \o bytes
                    /\ Len(remaining_length[Len(bytes) + more]) + 1 <= HEADER_SIZE

LEMMA BuiltFini ==
    ASSUME NEW msg, NEW bytes, Built(msg, bytes), NEW type, NEW qos, NEW retain,
           FirstByte(type, qos, retain) \in Nat, NEW more \in Nat
    PROVE  Finished(fini_message5(msg, type, qos, retain, more), msg, bytes,
                    FirstByte(type, qos, retain), more)
<1>1. msg \in Msgs /\ bytes \in Seq(Nat) /\ msg.bytes \in Seq(Nat) /\ Len(msg.bytes) + more \in Nat
  BY DEF Built, Msgs
<1>2. PICK r \in Seq(Nat) : r = remaining_length[Len(msg.bytes) + more]
  BY <1>1, RemainingLengthType
<1>3. PICK s \in Seq(Nat) : s = (<<FirstByte(type, qos, retain)>> \o r) \o msg.bytes
  <2>1. (<<FirstByte(type, qos, retain)>> \o r) \o msg.bytes \in Seq(Nat)
    BY <1>1
  <2> QED BY <2>1
<1>4. CASE msg.ok /\ Len(r) + 1 <= HEADER_SIZE
  <2>1. fini_message5(msg, type, qos, retain, more) = [ok |-> TRUE, bytes |-> s]
    BY <1>2, <1>3, <1>4 DEF FirstByte, fini_message5, fini_message
  <2>2. msg.bytes = bytes
    BY <1>4 DEF Built
  <2>3. [ok |-> TRUE, bytes |-> s] \in Msgs
    BY <1>3 DEF Msgs
  <2>4. s = (<<FirstByte(type, qos, retain)>> \o remaining_length[Len(bytes) + more]) \o bytes
    BY <1>2, <1>3, <2>2
  <2>5. PICK m : m = fini_message5(msg, type, qos, retain, more)
    OBVIOUS
  <2>6. m \in Msgs /\ m.bytes = s
    BY <2>1, <2>3, <2>5
  <2>7. Len(remaining_length[Len(bytes) + more]) + 1 <= HEADER_SIZE
    BY <1>2, <1>4, <2>2
  <2> QED BY <1>4, <2>4, <2>5, <2>6, <2>7 DEF Finished
<1>5. CASE ~ (msg.ok /\ Len(r) + 1 <= HEADER_SIZE)
  <2>1. fini_message5(msg, type, qos, retain, more) = Failed
    BY <1>2, <1>5 DEF FirstByte, fini_message5, fini_message
  <2>2. ~ Failed.ok /\ Failed \in Msgs
    BY <1>1, BuiltFailed DEF Failed, Built
  <2> QED BY <2>1, <2>2 DEF Finished
<1> QED BY <1>4, <1>5

LEMMA BuiltFrame ==
    ASSUME NEW m, NEW s, Built(m, s), NEW t, NEW q, NEW r, FirstByte(t, q, r) \in Nat
    PROVE  /\ fini_message5(m, t, q, r, 0) \in Msgs
           /\ fini_message5(m, t, q, r, 0).ok =>
                  /\ m.ok
                  /\ fini_message5(m, t, q, r, 0).bytes = Frame(FirstByte(t, q, r), s)
<1>1. s \in Seq(Nat) /\ Len(s) \in Nat
  BY DEF Built
<1>2. PICK n \in Nat : n = 0 /\ Len(s) + n = Len(s)
  BY <1>1
<1>3. Finished(fini_message5(m, t, q, r, n), m, s, FirstByte(t, q, r), n)
  BY BuiltFini
<1> QED BY <1>2, <1>3 DEF Frame, Finished

----------------------------------------------------------------------------
(* What the properties of a packet say *)

Nowhere == [id \in Nat |-> <<>>]

\* The bytes read as properties that give each id a value, and a list of user properties.
Says(bytes, got, users, known) ==
    \E fields : /\ Piece(bytes, fields, known)
                /\ \A id \in Nat : id # USER_PROPERTY => Got(fields, id) = got[id]
                /\ UserPropertiesOf(fields) = users

LEMMA SaysType ==
    ASSUME NEW bytes, NEW got, NEW users, NEW known, Says(bytes, got, users, known)
    PROVE  bytes \in Seq(Nat) /\ Len(bytes) \in Nat
BY PieceType DEF Says

LEMMA SaysNone ==
    ASSUME NEW known
    PROVE  Says(<<>>, Nowhere, <<>>, known)
<1>1. PICK e : e = <<>>
  OBVIOUS
<1>2. Piece(e, e, known)
  BY <1>1, CarriesNone, GivenNone DEF Piece
<1>3. \A id \in Nat : Got(e, id) = Nowhere[id]
  <2> TAKE id \in Nat
  <2>1. e \in Seq(Field) /\ 1 .. Len(e) = {}
    BY <1>1
  <2>2. LastOf(e, id) = 0
    BY <2>1, LastOfIs
  <2> QED BY <2>2, TextOfAt DEF Got, Nowhere
<1>4. UserPropertiesOf(e) = e
  BY <1>1, UsersNone
<1> QED BY <1>1, <1>2, <1>3, <1>4 DEF Says

LEMMA SaysOption ==
    ASSUME NEW bytes, NEW got \in [Nat -> Seq(Nat)], NEW users \in Seq(Pairs), NEW known,
           Says(bytes, got, users, known),
           NEW more, NEW named, Id(named), NEW value \in Seq(Nat), got[named] = <<>>,
           Option(more, named, value, known)
    PROVE  Says(bytes \o more, [got EXCEPT ![named] = value], users, known)
<1>1. PICK fs : /\ Piece(bytes, fs, known)
                    /\ \A id \in Nat : id # USER_PROPERTY => Got(fs, id) = got[id]
                    /\ UserPropertiesOf(fs) = users
  BY DEF Says
<1>2. PICK gs : gs = Maybe(named, value)
  OBVIOUS
<1>3. /\ Piece(more, gs, known)
      /\ \A id : Got(gs, id) = IF id = named THEN value ELSE <<>>
      /\ UserPropertiesOf(gs) = <<>>
  BY <1>2 DEF Option
<1>4. PICK whole : whole = fs \o gs
  OBVIOUS
<1>5. /\ Piece(bytes \o more, whole, known)
      /\ \A id : id # USER_PROPERTY => Got(whole, id) = OrElse(Got(gs, id), Got(fs, id))
      /\ UserPropertiesOf(whole) = UserPropertiesOf(fs) \o UserPropertiesOf(gs)
  <2>1. /\ Piece(bytes \o more, fs \o gs, known)
        /\ \A id : id # USER_PROPERTY => Got(fs \o gs, id) = OrElse(Got(gs, id), Got(fs, id))
        /\ UserPropertiesOf(fs \o gs) = UserPropertiesOf(fs) \o UserPropertiesOf(gs)
    <3>1. Piece(bytes, fs, known) /\ Piece(more, gs, known)
      BY <1>1, <1>3
    <3>2. Piece(bytes \o more, fs \o gs, known) /\ Joined(fs, gs)
      BY <3>1, PieceConcat, Zenon
    <3> QED BY <3>2 DEF Joined
  <2> QED BY <1>4, <2>1, Zenon
<1>6. UserPropertiesOf(whole) = users
  <2>1. users \o <<>> = users
    OBVIOUS
  <2> QED BY <1>1, <1>3, <1>5, <2>1
<1>7. PICK new : new = [got EXCEPT ![named] = value]
  OBVIOUS
<1>8. \A id \in Nat : new[id] = IF id = named THEN value ELSE got[id]
  BY <1>7 DEF Id
<1>9. ASSUME NEW id \in Nat, id # USER_PROPERTY PROVE Got(whole, id) = new[id]
  <2>1. Got(whole, id) = OrElse(Got(gs, id), Got(fs, id))
    BY <1>5, <1>9
  <2>2. Got(fs, id) = got[id]
    BY <1>1, <1>9
  <2>3. CASE id = named
    BY <1>3, <1>8, <2>1, <2>2, <2>3 DEF OrElse
  <2>4. CASE id # named
    BY <1>3, <1>8, <2>1, <2>2, <2>4 DEF OrElse
  <2> QED BY <2>3, <2>4
<1> QED BY <1>5, <1>6, <1>7, <1>9 DEF Says

LEMMA SaysPairs ==
    ASSUME NEW bytes, NEW got, NEW known, USER_PROPERTY \in known, NEW users \in Seq(Pairs),
           Says(bytes, got, <<>>, known)
    PROVE  Says(bytes \o UserProperties(users), got, users, known)
<1>1. PICK fs : /\ Piece(bytes, fs, known)
                    /\ \A id \in Nat : id # USER_PROPERTY => Got(fs, id) = got[id]
                    /\ UserPropertiesOf(fs) = <<>>
  BY DEF Says
<1>2. PICK gs : gs = PairFields(users)
  OBVIOUS
<1>3. /\ Piece(UserProperties(users), gs, known)
      /\ \A id : id # USER_PROPERTY => Got(gs, id) = <<>>
      /\ UserPropertiesOf(gs) = users
  BY <1>2, PairsPiece
<1>4. PICK more : more = UserProperties(users)
  OBVIOUS
<1>5. PICK whole : whole = fs \o gs
  OBVIOUS
<1>6. /\ Piece(bytes \o more, whole, known)
      /\ \A id : id # USER_PROPERTY => Got(whole, id) = OrElse(Got(gs, id), Got(fs, id))
      /\ UserPropertiesOf(whole) = UserPropertiesOf(fs) \o UserPropertiesOf(gs)
  <2>1. /\ Piece(bytes \o more, fs \o gs, known)
        /\ \A id : id # USER_PROPERTY => Got(fs \o gs, id) = OrElse(Got(gs, id), Got(fs, id))
        /\ UserPropertiesOf(fs \o gs) = UserPropertiesOf(fs) \o UserPropertiesOf(gs)
    <3>1. Piece(bytes, fs, known) /\ Piece(more, gs, known)
      BY <1>1, <1>3, <1>4, <1>5
    <3>2. Piece(bytes \o more, fs \o gs, known) /\ Joined(fs, gs)
      BY <3>1, PieceConcat, Zenon
    <3> QED BY <3>2 DEF Joined
  <2> QED BY <1>5, <2>1, Zenon
<1>7. UserPropertiesOf(whole) = users
  <2>1. <<>> \o users = users
    OBVIOUS
  <2> QED BY <1>1, <1>3, <1>6, <2>1
<1>8. ASSUME NEW id \in Nat, id # USER_PROPERTY PROVE Got(whole, id) = got[id]
  BY <1>1, <1>3, <1>6, <1>8 DEF OrElse
<1> QED BY <1>4, <1>6, <1>7, <1>8 DEF Says

\* What is said is read.
Reads(list, got, users) ==
    /\ Given(list) /\ WellFormed(list)
    /\ \A id \in Nat : id # USER_PROPERTY => Got(list, id) = got[id]
    /\ UserPropertiesOf(list) = users

LEMMA SaysRead ==
    ASSUME NEW bytes, NEW got, NEW users, NEW known, Says(bytes, got, users, known),
           NEW buffer \in Seq(Nat), NEW offset \in Nat, At(buffer, offset, bytes)
    PROVE  Reads(Properties(buffer, offset, Len(bytes), known), got, users)
<1>1. PICK fields : /\ Piece(bytes, fields, known)
                    /\ \A id \in Nat : id # USER_PROPERTY => Got(fields, id) = got[id]
                    /\ UserPropertiesOf(fields) = users
  BY DEF Says
<1>2. Properties(buffer, offset, Len(bytes), known) = fields
  BY <1>1, CarriesAll DEF Piece
<1>3. Given(fields) /\ WellFormed(fields)
  BY <1>1, GivenWellFormed DEF Piece
<1> QED BY <1>1, <1>2, <1>3 DEF Reads

LEMMA PrefixedRead ==
    ASSUME NEW bytes \in Seq(Nat), NEW buffer \in Seq(Nat), NEW offset \in Nat,
           At(buffer, offset, Prefixed(bytes)), NEW limit \in Nat,
           offset + Len(Prefixed(bytes)) <= limit, limit <= Len(buffer)
    PROVE  \E k \in Nat :
               /\ k >= 1 /\ k + Len(bytes) = Len(Prefixed(bytes))
               /\ get_variable_len(buffer, offset, limit) = [len |-> Len(bytes), bytes |-> k]
               /\ At(buffer, offset + k, bytes)
<1>1. PICK n \in Nat : n = Len(bytes)
  OBVIOUS
<1>2. PICK r \in Seq(Nat) : r = remaining_length[n] /\ Len(r) >= 1
  BY RemainingLengthType
<1>3. At(buffer, offset, r \o bytes)
  BY <1>1, <1>2 DEF Prefixed
<1>4. At(buffer, offset, r) /\ At(buffer, offset + Len(r), bytes)
  BY <1>3, AtConcat
<1>5. Len(Prefixed(bytes)) = Len(r) + n
  BY <1>1, <1>2, PrefixedType
<1>6. PICK k \in Nat : k = Len(r)
  OBVIOUS
<1>7. At(buffer, offset, remaining_length[n]) /\ offset + Len(remaining_length[n]) <= limit
  BY <1>2, <1>4, <1>5, <1>6
<1>8. get_variable_len(buffer, offset, limit) = [len |-> n, bytes |-> k]
  BY <1>2, <1>6, <1>7, VarLenRead
<1> QED BY <1>1, <1>2, <1>4, <1>5, <1>6, <1>8

----------------------------------------------------------------------------
(* What the application sets, over all numbers *)

PublishSet ==
    [payload_format_indicator : BOOLEAN, message_expiry_interval : Nat, topic_alias : Nat,
     response_topic : Seq(Nat), correlation_data : Seq(Nat), user_property : Seq(Pairs),
     content_type : Seq(Nat), n : Nat]

LEMMA IdsAre ==
    /\ \A id \in PublishProperties \cup ConnackProperties \cup {WILL_DELAY_INTERVAL,
                     REQUEST_PROBLEM_INFO, REQUEST_RESP_INFO} : id # USER_PROPERTY => Id(id)
    /\ PAYLOAD_FORMAT_INDICATOR \in OneByte /\ MESSAGE_EXPIRY_INTERVAL \in FourBytes
    /\ TOPIC_ALIAS \in TwoBytes
    /\ {RESPONSE_TOPIC, CORRELATION_DATA, CONTENT_TYPE} \subseteq Strings(PublishProperties)
    /\ {PAYLOAD_FORMAT_INDICATOR, MESSAGE_EXPIRY_INTERVAL, TOPIC_ALIAS, RESPONSE_TOPIC,
        CORRELATION_DATA, CONTENT_TYPE, SUBSCRIBE_IDENTIFIER, USER_PROPERTY} \subseteq PublishProperties
    /\ USER_PROPERTY \notin {PAYLOAD_FORMAT_INDICATOR, MESSAGE_EXPIRY_INTERVAL, TOPIC_ALIAS,
                             RESPONSE_TOPIC, CORRELATION_DATA, CONTENT_TYPE, SUBSCRIBE_IDENTIFIER}
BY DEF Id, Strings, PublishProperties, ConnackProperties, OneByte, TwoBytes, FourBytes,
   PAYLOAD_FORMAT_INDICATOR, MESSAGE_EXPIRY_INTERVAL, CONTENT_TYPE, RESPONSE_TOPIC,
   CORRELATION_DATA, SUBSCRIBE_IDENTIFIER, SESSION_EXPIRY_INTERVAL, ASSIGNED_CLIENT_IDENTIFIER,
   SERVER_KEEP_ALIVE, REQUEST_PROBLEM_INFO, WILL_DELAY_INTERVAL, REQUEST_RESP_INFO, RESP_INFO,
   REASON_STRING, RECEIVE_MAXIMUM, TOPIC_ALIAS_MAXIMUM, TOPIC_ALIAS, MAXIMUM_QOS,
   RETAIN_AVAILABLE, USER_PROPERTY, MAXIMUM_PACKET_SIZE

LEMMA ResponseTopicType ==
    ASSUME NEW property, property.response_topic \in Seq(Nat), NEW resp_info \in Seq(Nat)
    PROVE  /\ ResponseTopic(property, resp_info) \in Seq(Nat)
           /\ resp_info = <<>> => ResponseTopic(property, resp_info) = property.response_topic
<1>1. PICK w \in Seq(Nat) : w = property.response_topic \o <<47>> \o resp_info
  <2>1. <<47>> \in Seq(Nat)
    OBVIOUS
  <2>2. property.response_topic \o <<47>> \o resp_info \in Seq(Nat)
    BY <2>1
  <2> QED BY <2>2
<1>2. Len(w) \in 1 .. Len(w)
  <2>1. PICK a, b \in Seq(Nat) : a = property.response_topic \o <<47>> /\ b = resp_info /\ Len(a) >= 1
    <3>1. <<47>> \in Seq(Nat) /\ Len(<<47>>) = 1
      OBVIOUS
    <3>2. PICK m \in Seq(Nat) : m = <<47>> /\ Len(m) = 1
      BY <3>1
    <3>3. /\ property.response_topic \o m \in Seq(Nat)
          /\ Len(property.response_topic \o m) = Len(property.response_topic) + Len(m)
      OBVIOUS
    <3>4. Len(property.response_topic \o m) >= 1
      BY <3>2, <3>3
    <3> QED BY <3>2, <3>3, <3>4
  <2>2. w = a \o b /\ Len(a \o b) = Len(a) + Len(b) /\ Len(b) \in Nat
    BY <1>1, <2>1
  <2>3. Len(w) >= 1
    BY <2>1, <2>2
  <2> QED BY <2>3
<1>3. [w EXCEPT ![Len(w)] = 0] \in Seq(Nat)
  BY <1>2, ExceptSeq
<1> QED BY <1>1, <1>3 DEF ResponseTopic

\* The properties of a PUBLISH, and what they say.
PublishBytes(property, resp_info) ==
    Flag(PAYLOAD_FORMAT_INDICATOR, property.payload_format_indicator)
    \o Number(MESSAGE_EXPIRY_INTERVAL, property.message_expiry_interval, 4)
    \o Number(TOPIC_ALIAS, property.topic_alias, 2)
    \o Text(RESPONSE_TOPIC, ResponseTopic(property, resp_info))
    \o Text(CORRELATION_DATA, property.correlation_data)
    \o UserProperties(property.user_property)
    \o Text(CONTENT_TYPE, property.content_type)

LEMMA BigEndianOfType ==
    ASSUME NEW number \in Nat, NEW width \in {2, 4}
    PROVE  BigEndianOf(number, width) \in Seq(Nat)
<1>1. PICK r \in Seq(Nat) : r = <<>>
  BY EmptySeq
<1> QED BY <1>1, BigEndianRead DEF BigEndianOf

LEMMA FlagOfType ==
    ASSUME NEW given
    PROVE  FlagOf(given) \in Seq(Nat)
<1>1. PICK r \in Seq(Nat) : r = <<>>
  BY EmptySeq
<1>2. <<1>> \in Seq(Nat)
  OBVIOUS
<1> QED BY <1>1, <1>2 DEF FlagOf

LEMMA NowhereType == Nowhere \in [Nat -> Seq(Nat)] /\ \A id \in Nat : Nowhere[id] = <<>>
<1>1. PICK r \in Seq(Nat) : r = <<>>
  BY EmptySeq
<1> QED BY <1>1 DEF Nowhere

\* An option after what is said already, in the form that the chains of options use.
SaysNext(bytes, got, named, value, users, known) ==
    \E new \in [Nat -> Seq(Nat)] :
        /\ Says(bytes, new, users, known)
        /\ \A id \in Nat : new[id] = IF id = named THEN value ELSE got[id]

LEMMA SaysThen ==
    ASSUME NEW bytes, NEW got \in [Nat -> Seq(Nat)], NEW users \in Seq(Pairs), NEW known,
           Says(bytes, got, users, known),
           NEW more, NEW named, Id(named), NEW value \in Seq(Nat), got[named] = <<>>,
           Option(more, named, value, known)
    PROVE  SaysNext(bytes \o more, got, named, value, users, known)
<1>1. PICK new : new = [got EXCEPT ![named] = value]
  OBVIOUS
<1>2. named \in Nat
  BY DEF Id
<1>3. new \in [Nat -> Seq(Nat)] /\ \A id \in Nat : new[id] = IF id = named THEN value ELSE got[id]
  BY <1>1, <1>2
<1>4. Says(bytes \o more, new, users, known)
  BY <1>1, SaysOption
<1> QED BY <1>3, <1>4 DEF SaysNext

LEMMA PublishSays ==
    ASSUME NEW property \in PublishSet, NEW resp_info \in Seq(Nat)
    PROVE  \E got \in [Nat -> Seq(Nat)] :
               /\ Says(PublishBytes(property, resp_info), got, property.user_property, PublishProperties)
               /\ got[TOPIC_ALIAS] = BigEndianOf(property.topic_alias, 2)
               /\ got[MESSAGE_EXPIRY_INTERVAL] = BigEndianOf(property.message_expiry_interval, 4)
               /\ got[CONTENT_TYPE] = property.content_type
               /\ got[RESPONSE_TOPIC] = ResponseTopic(property, resp_info)
<1>0. /\ property.payload_format_indicator \in BOOLEAN /\ property.message_expiry_interval \in Nat
      /\ property.topic_alias \in Nat /\ property.response_topic \in Seq(Nat)
      /\ property.correlation_data \in Seq(Nat) /\ property.user_property \in Seq(Pairs)
      /\ property.content_type \in Seq(Nat)
  BY DEF PublishSet
<1> PICK ids : ids = PublishProperties
  OBVIOUS
<1>1. PICK i1, i2, i3, i4, i5, i7 \in Nat :
          /\ i1 = PAYLOAD_FORMAT_INDICATOR /\ i2 = MESSAGE_EXPIRY_INTERVAL /\ i3 = TOPIC_ALIAS
          /\ i4 = RESPONSE_TOPIC /\ i5 = CORRELATION_DATA /\ i7 = CONTENT_TYPE
  BY DEF PAYLOAD_FORMAT_INDICATOR, MESSAGE_EXPIRY_INTERVAL, TOPIC_ALIAS, RESPONSE_TOPIC,
         CORRELATION_DATA, CONTENT_TYPE
<1>2. /\ i1 # i2 /\ i1 # i3 /\ i1 # i4 /\ i1 # i5 /\ i1 # i7 /\ i2 # i3 /\ i2 # i4 /\ i2 # i5
      /\ i2 # i7 /\ i3 # i4 /\ i3 # i5 /\ i3 # i7 /\ i4 # i5 /\ i4 # i7 /\ i5 # i7
  BY <1>1 DEF PAYLOAD_FORMAT_INDICATOR, MESSAGE_EXPIRY_INTERVAL, TOPIC_ALIAS, RESPONSE_TOPIC,
         CORRELATION_DATA, CONTENT_TYPE
<1>3. /\ Id(i1) /\ Id(i2) /\ Id(i3) /\ Id(i4) /\ Id(i5) /\ Id(i7) /\ USER_PROPERTY \in ids
      /\ i1 \in ids /\ i2 \in ids /\ i3 \in ids
      /\ i1 \in OneByte /\ i2 \in FourBytes /\ i3 \in TwoBytes
      /\ i4 \in Strings(ids) /\ i5 \in Strings(ids) /\ i7 \in Strings(ids)
  BY <1>1, IdsAre
<1>4. PICK v1, v2, v3, v4, v5, v7 \in Seq(Nat) :
          /\ v1 = FlagOf(property.payload_format_indicator)
          /\ v2 = BigEndianOf(property.message_expiry_interval, 4)
          /\ v3 = BigEndianOf(property.topic_alias, 2)
          /\ v4 = ResponseTopic(property, resp_info) /\ v5 = property.correlation_data
          /\ v7 = property.content_type
  BY <1>0, FlagOfType, BigEndianOfType, ResponseTopicType
<1>5. PICK b1, b2, b3, b4, b5, b6, b7 :
          /\ b1 = Flag(PAYLOAD_FORMAT_INDICATOR, property.payload_format_indicator)
          /\ b2 = Number(MESSAGE_EXPIRY_INTERVAL, property.message_expiry_interval, 4)
          /\ b3 = Number(TOPIC_ALIAS, property.topic_alias, 2)
          /\ b4 = Text(RESPONSE_TOPIC, ResponseTopic(property, resp_info))
          /\ b5 = Text(CORRELATION_DATA, property.correlation_data)
          /\ b6 = UserProperties(property.user_property)
          /\ b7 = Text(CONTENT_TYPE, property.content_type)
  OBVIOUS
<1>6. Option(b1, i1, v1, ids)
  BY <1>1, <1>3, <1>4, <1>5, FlagOption
<1>7. Option(b2, i2, v2, ids)
  <2>1. /\ 4 \in {2, 4} /\ (4 = 2 => i2 \in TwoBytes) /\ (4 = 4 => i2 \in FourBytes)
    BY <1>3
  <2> QED BY <1>0, <1>1, <1>3, <1>4, <1>5, <2>1, NumberOption
<1>8. Option(b3, i3, v3, ids)
  <2>1. /\ 2 \in {2, 4} /\ (2 = 2 => i3 \in TwoBytes) /\ (2 = 4 => i3 \in FourBytes)
    BY <1>3
  <2> QED BY <1>0, <1>1, <1>3, <1>4, <1>5, <2>1, NumberOption
<1>9. Option(b4, i4, v4, ids)
  BY <1>1, <1>3, <1>4, <1>5, TextOption
<1>10. Option(b5, i5, v5, ids)
  BY <1>1, <1>3, <1>4, <1>5, TextOption
<1>11. Option(b7, i7, v7, ids)
  BY <1>1, <1>3, <1>4, <1>5, TextOption
<1>12. PICK e \in Seq(Pairs) : e = <<>>
  BY EmptySeq
<1>13. PICK g0 \in [Nat -> Seq(Nat)] : Says(<<>>, g0, e, ids) /\ \A id \in Nat : g0[id] = <<>>
  BY <1>12, NowhereType, SaysNone
<1>14. PICK g1 \in [Nat -> Seq(Nat)] : /\ Says(b1, g1, e, ids)
                                        /\ \A id \in Nat : g1[id] = IF id = i1 THEN v1 ELSE g0[id]
  <2>1. SaysNext(<<>> \o b1, g0, i1, v1, e, ids)
    <3>1. g0[i1] = <<>>
      BY <1>13
    <3> QED BY <1>3, <1>6, <1>13, <3>1, SaysThen
  <2>2. b1 \in Seq(Nat)
    BY <1>6, PieceType DEF Option
  <2>3. <<>> \o b1 = b1
    BY <2>2
  <2> QED BY <2>1, <2>3 DEF SaysNext
<1>15. PICK g2 \in [Nat -> Seq(Nat)] : /\ Says(b1 \o b2, g2, e, ids)
                                        /\ \A id \in Nat : g2[id] = IF id = i2 THEN v2 ELSE g1[id]
  <2>1. g1[i2] = <<>>
    BY <1>2, <1>13, <1>14
  <2>2. SaysNext(b1 \o b2, g1, i2, v2, e, ids)
    BY <1>3, <1>7, <1>14, <2>1, SaysThen
  <2> QED BY <2>2 DEF SaysNext
<1>16. PICK g3 \in [Nat -> Seq(Nat)] : /\ Says(b1 \o b2 \o b3, g3, e, ids)
                                        /\ \A id \in Nat : g3[id] = IF id = i3 THEN v3 ELSE g2[id]
  <2>1. g2[i3] = <<>>
    BY <1>2, <1>13, <1>14, <1>15
  <2>2. SaysNext(b1 \o b2 \o b3, g2, i3, v3, e, ids)
    BY <1>3, <1>8, <1>15, <2>1, SaysThen
  <2> QED BY <2>2 DEF SaysNext
<1>17. PICK g4 \in [Nat -> Seq(Nat)] : /\ Says(b1 \o b2 \o b3 \o b4, g4, e, ids)
                                        /\ \A id \in Nat : g4[id] = IF id = i4 THEN v4 ELSE g3[id]
  <2>1. g3[i4] = <<>>
    BY <1>2, <1>13, <1>14, <1>15, <1>16
  <2>2. SaysNext(b1 \o b2 \o b3 \o b4, g3, i4, v4, e, ids)
    BY <1>3, <1>9, <1>16, <2>1, SaysThen
  <2> QED BY <2>2 DEF SaysNext
<1>18. PICK g5 \in [Nat -> Seq(Nat)] : /\ Says(b1 \o b2 \o b3 \o b4 \o b5, g5, e, ids)
                                        /\ \A id \in Nat : g5[id] = IF id = i5 THEN v5 ELSE g4[id]
  <2>1. g4[i5] = <<>>
    BY <1>2, <1>13, <1>14, <1>15, <1>16, <1>17
  <2>2. SaysNext(b1 \o b2 \o b3 \o b4 \o b5, g4, i5, v5, e, ids)
    BY <1>3, <1>10, <1>17, <2>1, SaysThen
  <2> QED BY <2>2 DEF SaysNext
<1>19. PICK u \in Seq(Pairs) : u = property.user_property
  BY <1>0
<1>20. Says(b1 \o b2 \o b3 \o b4 \o b5 \o b6, g5, u, ids)
  BY <1>3, <1>5, <1>12, <1>18, <1>19, SaysPairs
<1>21. PICK g7 \in [Nat -> Seq(Nat)] : /\ Says(b1 \o b2 \o b3 \o b4 \o b5 \o b6 \o b7, g7, u, ids)
                                        /\ \A id \in Nat : g7[id] = IF id = i7 THEN v7 ELSE g5[id]
  <2>1. g5[i7] = <<>>
    BY <1>2, <1>13, <1>14, <1>15, <1>16, <1>17, <1>18
  <2>2. SaysNext(b1 \o b2 \o b3 \o b4 \o b5 \o b6 \o b7, g5, i7, v7, u, ids)
    BY <1>3, <1>11, <1>20, <2>1, SaysThen
  <2> QED BY <2>2 DEF SaysNext
<1>22. PublishBytes(property, resp_info) = b1 \o b2 \o b3 \o b4 \o b5 \o b6 \o b7
  BY <1>5, Zenon DEF PublishBytes
<1>23. g7[i3] = v3 /\ g7[i2] = v2 /\ g7[i7] = v7 /\ g7[i4] = v4
  <2>1. g7[i2] = v2 /\ g7[i3] = v3 /\ g7[i4] = v4
    <3>1. g7[i2] = g5[i2] /\ g7[i3] = g5[i3] /\ g7[i4] = g5[i4]
      BY <1>2, <1>21
    <3>2. g5[i2] = g4[i2] /\ g5[i3] = g4[i3] /\ g5[i4] = g4[i4]
      BY <1>2, <1>18
    <3>3. g4[i2] = g3[i2] /\ g4[i3] = g3[i3] /\ g4[i4] = v4
      BY <1>2, <1>17
    <3>4. g3[i2] = g2[i2] /\ g3[i3] = v3 /\ g2[i2] = v2
      BY <1>2, <1>15, <1>16
    <3> QED BY <3>1, <3>2, <3>3, <3>4
  <2>2. g7[i7] = v7
    BY <1>21
  <2> QED BY <2>1, <2>2
<1> QED BY <1>1, <1>4, <1>19, <1>21, <1>22, <1>23

----------------------------------------------------------------------------
(* PUBLISH *)

PublishHead(topic, qos, number) == String(topic) \o (IF qos > 0 THEN Word(number) ELSE <<>>)
PublishRest(topic, qos, number, properties, data) ==
    (PublishHead(topic, qos, number) \o Prefixed(properties)) \o data

LEMMA PublishHeadType ==
    ASSUME NEW topic \in Seq(Nat), NEW qos \in Nat, NEW number \in Nat
    PROVE  /\ PublishHead(topic, qos, number) \in Seq(Nat)
           /\ Len(PublishHead(topic, qos, number)) = 2 + Len(topic) + (IF qos > 0 THEN 2 ELSE 0)
<1>1. PICK t \in Seq(Nat) : t = String(topic) /\ Len(t) = 2 + Len(topic)
  BY StringType
<1>2. PICK w \in Seq(Nat) : w = (IF qos > 0 THEN Word(number) ELSE <<>>)
                             /\ Len(w) = (IF qos > 0 THEN 2 ELSE 0)
  <2>1. CASE qos > 0
    BY <2>1, WordType
  <2>2. CASE ~ (qos > 0)
    <3>1. PICK r : r = <<>>
      OBVIOUS
    <3>2. r \in Seq(Nat) /\ Len(r) = 0
      BY <3>1
    <3>3. r = IF qos > 0 THEN Word(number) ELSE <<>>
      BY <2>2, <3>1
    <3>4. Len(r) = IF qos > 0 THEN 2 ELSE 0
      BY <2>2, <3>2
    <3> QED BY <3>2, <3>3, <3>4, Zenon
  <2> QED BY <2>1, <2>2
<1>3. t \o w \in Seq(Nat) /\ Len(t \o w) = Len(t) + Len(w)
  OBVIOUS
<1>4. PICK h \in Seq(Nat) : h = t \o w /\ Len(h) = Len(t) + Len(w)
  BY <1>3
<1>5. h = PublishHead(topic, qos, number)
  BY <1>1, <1>2, <1>4 DEF PublishHead
<1> QED BY <1>1, <1>2, <1>4, <1>5

\* The PUBLISH that mqtt5_msg_publish makes, in the buffer and after it.
PublishMade(made, first, rest) ==
    made.message.ok =>
        /\ made.message.bytes \in Seq(Nat) /\ Len(made.message.bytes) >= 1
        /\ made.remaining \in Seq(Nat)
        /\ made.message.bytes \o made.remaining = Frame(first, rest)
        /\ OUT_BUFFER >= HEADER_SIZE

Regrouped(front, centre, back) == (front \o centre) \o back = front \o (centre \o back)

LEMMA ThreeParts ==
    ASSUME NEW front \in Seq(Nat), NEW centre \in Seq(Nat), NEW back \in Seq(Nat)
    PROVE  Regrouped(front, centre, back)
BY ConcatAssociative, SMTT(30) DEF Regrouped

\* A message with its fixed header, the last bytes of which are left for later writes.
Fragmented(packet, remaining, first, rest) ==
    /\ packet.bytes \in Seq(Nat) /\ Len(packet.bytes) >= 1 /\ remaining \in Seq(Nat)
    /\ packet.bytes \o remaining = Frame(first, rest)
    /\ Len(remaining_length[Len(rest)]) + 1 <= HEADER_SIZE

LEMMA SplitAt ==
    ASSUME NEW data \in Seq(Nat), NEW k \in 0 .. Len(data)
    PROVE  /\ SubSeq(data, 1, k) \in Seq(Nat) /\ SubSeq(data, k + 1, Len(data)) \in Seq(Nat)
           /\ Len(SubSeq(data, 1, k)) = k
           /\ SubSeq(data, 1, k) \o SubSeq(data, k + 1, Len(data)) = data
<1>1. PICK d1, d2 \in Seq(Nat) : d1 = SubSeq(data, 1, k) /\ d2 = SubSeq(data, k + 1, Len(data))
  <2>1. SubSeq(data, 1, k) \in Seq(Nat) /\ SubSeq(data, k + 1, Len(data)) \in Seq(Nat)
    OBVIOUS
  <2> QED BY <2>1
<1>2. Len(d1) = k /\ \A i \in 1 .. k : d1[i] = data[i]
  BY <1>1
<1>3. Len(d2) = Len(data) - k /\ \A i \in 1 .. Len(d2) : d2[i] = data[k + i]
  BY <1>1
<1>4. PICK d \in Seq(Nat) : d = d1 \o d2
  <2>1. d1 \o d2 \in Seq(Nat)
    OBVIOUS
  <2> QED BY <2>1
<1>5. /\ Len(d) = Len(d1) + Len(d2) /\ \A i \in 1 .. Len(d1) : d[i] = d1[i]
      /\ \A i \in 1 .. Len(d2) : d[Len(d1) + i] = d2[i]
  BY <1>4
<1>6. Len(d) = Len(data) /\ Len(data) \in Nat /\ k \in Nat
  BY <1>2, <1>3, <1>5
<1>7. ASSUME NEW i \in 1 .. Len(d) PROVE d[i] = data[i]
  <2>1. CASE i <= k
    BY <1>2, <1>5, <2>1
  <2>2. CASE ~ (i <= k)
    <3>1. PICK j \in 1 .. Len(d2) : j = i - k /\ k + j = i
      <4>1. i - k \in 1 .. Len(d2) /\ k + (i - k) = i
        BY <1>3, <1>6, <2>2
      <4> QED BY <4>1
    <3>2. d[Len(d1) + j] = d2[j]
      BY <1>5, <3>1
    <3>3. d2[j] = data[k + j]
      BY <1>3, <3>1
    <3> QED BY <1>2, <3>1, <3>2, <3>3
  <2> QED BY <2>1, <2>2
<1>8. d = data
  BY <1>6, <1>7, SeqEqual
<1> QED BY <1>1, <1>2, <1>4, <1>8

LEMMA FragmentFrame ==
    ASSUME NEW header, NEW head, Built(header, head), header.ok,
           NEW data \in Seq(Nat), NEW k \in 0 .. Len(data), NEW m, m = Len(data) - k,
           NEW type, NEW qos, NEW retain, NEW first \in Nat, first = FirstByte(type, qos, retain),
           NEW packet, packet = fini_message5(append(header, SubSeq(data, 1, k)), type, qos, retain, m),
           packet.ok
    PROVE  Fragmented(packet, SubSeq(data, k + 1, Len(data)), first, head \o data)
<1>1. PICK d1, d2 \in Seq(Nat) : /\ d1 = SubSeq(data, 1, k) /\ d2 = SubSeq(data, k + 1, Len(data))
                                 /\ Len(d1) = k /\ d1 \o d2 = data
  BY SplitAt, ZenonT(60)
<1>2. m \in Nat /\ Len(data) \in Nat /\ k \in Nat /\ m + k = Len(data)
  OBVIOUS
<1>3. head \in Seq(Nat)
  BY DEF Built
<1>4. PICK msg : msg = append(header, d1)
  OBVIOUS
<1>5. Built(msg, head \o d1)
  BY <1>1, <1>4, BuiltAppend
<1>6. Finished(fini_message5(msg, type, qos, retain, m), msg, head \o d1,
               FirstByte(type, qos, retain), m)
  BY <1>2, <1>5, BuiltFini
<1>7. PICK qd \in Seq(Nat) : qd = head \o d1 /\ Len(qd) = Len(head) + Len(d1)
  <2>1. head \o d1 \in Seq(Nat) /\ Len(head \o d1) = Len(head) + Len(d1)
    BY <1>3
  <2> QED BY <2>1
<1>8. PICK n \in Nat : n = Len(qd) + m
  <2>1. PICK size \in Nat : size = Len(qd)
    OBVIOUS
  <2>2. PICK more \in Nat : more = m
    BY <1>2, Zenon
  <2>3. size + more \in Nat
    OBVIOUS
  <2> QED BY <2>1, <2>2, <2>3, Zenon
<1>9. PICK l \in Seq(Nat) : l = remaining_length[n]
  BY RemainingLengthType
<1>10. PICK b : b = packet.bytes
  OBVIOUS
<1>11. b = (<<first>> \o l) \o qd /\ Len(l) + 1 <= HEADER_SIZE
  BY <1>1, <1>4, <1>6, <1>7, <1>8, <1>9, <1>10 DEF Finished
<1>12. PICK r \in Seq(Nat) : r = <<first>> \o l /\ Len(r) >= 1
  <2>1. <<first>> \o l \in Seq(Nat) /\ Len(<<first>> \o l) >= 1
    OBVIOUS
  <2> QED BY <2>1
<1>13. b = r \o qd /\ b \in Seq(Nat) /\ Len(b) >= 1
  <2>1. b = r \o qd
    BY <1>11, <1>12
  <2>2. r \o qd \in Seq(Nat) /\ Len(r \o qd) = Len(r) + Len(qd)
    OBVIOUS
  <2> QED BY <1>12, <2>1, <2>2
<1>14. b \o d2 = r \o (qd \o d2)
  <2>1. Regrouped(r, qd, d2)
    BY ThreeParts
  <2> QED BY <1>13, <2>1 DEF Regrouped
<1>15. PICK whole \in Seq(Nat) : whole = head \o data /\ Len(whole) = Len(head) + Len(data)
  <2>1. head \o data \in Seq(Nat) /\ Len(head \o data) = Len(head) + Len(data)
    BY <1>3
  <2> QED BY <2>1
<1>16. qd \o d2 = whole
  <2>1. Regrouped(head, d1, d2)
    BY <1>3, ThreeParts
  <2> QED BY <1>1, <1>7, <1>15, <2>1 DEF Regrouped
<1>17. n = Len(whole)
  <2>1. Len(head) \in Nat
    BY <1>3
  <2> QED BY <1>1, <1>2, <1>7, <1>8, <1>15, <2>1
<1>18. b \o d2 = Frame(first, whole)
  BY <1>9, <1>12, <1>14, <1>16, <1>17, Zenon DEF Frame
<1> QED BY <1>1, <1>9, <1>10, <1>11, <1>13, <1>15, <1>17, <1>18 DEF Fragmented

LEMMA PublishFrame ==
    ASSUME NEW topic \in Seq(Nat), NEW data \in Seq(Nat), NEW qos \in Nat, NEW retain \in Nat,
           NEW number \in Nat, NEW property \in PublishSet, NEW resp_info \in Seq(Nat)
    PROVE  PublishMade(mqtt5_msg_publish(topic, data, qos, retain, number, property, resp_info),
                       FirstByte(PUBLISH, qos, retain),
                       PublishRest(topic, qos, number, PublishBytes(property, resp_info), data))
<1>1. PICK p \in Seq(Nat) : p = PublishBytes(property, resp_info)
  BY PublishSays, SaysType
<1>2. PICK start : start = IF topic = <<>> /\ property.topic_alias = 0 THEN Failed
                           ELSE append_string(Started, topic)
  OBVIOUS
<1>3. PICK middle : middle = IF qos > 0 THEN append_message_id(start, number) ELSE start
  OBVIOUS
<1>4. PICK header : header = append_properties(middle, p)
  OBVIOUS
<1>5. PICK space : space = OUT_BUFFER - HEADER_SIZE - Len(header.bytes)
  OBVIOUS
<1>6. PICK k : k = IF Len(data) > space THEN space ELSE Len(data)
  OBVIOUS
<1>7. PICK msg : msg = IF header.ok THEN append(header, SubSeq(data, 1, k)) ELSE header
  OBVIOUS
<1>8. PICK made : made = mqtt5_msg_publish(topic, data, qos, retain, number, property, resp_info)
  OBVIOUS
<1>9. made = [message |-> fini_message5(msg, PUBLISH, qos, retain, Len(data) - k),
              remaining |-> SubSeq(data, k + 1, Len(data))]
  BY <1>1, <1>2, <1>3, <1>4, <1>5, <1>6, <1>7, <1>8, ZenonT(60) DEF mqtt5_msg_publish, PublishBytes, When
<1>10. PICK t \in Seq(Nat) : t = String(topic)
  BY StringType
<1>11. Built(start, t)
  <2>1. <<>> \o t = t
    OBVIOUS
  <2>2. Built(append_string(Started, topic), <<>> \o String(topic))
    BY BuiltStarted, BuiltString
  <2>3. Built(append_string(Started, topic), t)
    BY <1>10, <2>1, <2>2
  <2> QED BY <1>2, <2>3, BuiltFailed
<1>12. PICK h \in Seq(Nat) : h = PublishHead(topic, qos, number)
  BY PublishHeadType
<1>13. Built(middle, h)
  <2>1. CASE qos > 0
    <3>1. Built(append_message_id(start, number), t \o Word(number))
      BY <1>11, BuiltId
    <3> QED BY <1>3, <1>10, <1>12, <2>1, <3>1 DEF PublishHead
  <2>2. CASE ~ (qos > 0)
    <3>1. t \o <<>> = t
      OBVIOUS
    <3>2. h = t
      BY <1>10, <1>12, <2>2, <3>1 DEF PublishHead
    <3> QED BY <1>3, <1>11, <2>2, <3>2
  <2> QED BY <2>1, <2>2
<1>14. PICK q \in Seq(Nat) : q = h \o Prefixed(p)
  <2>1. h \o Prefixed(p) \in Seq(Nat)
    BY PrefixedType
  <2> QED BY <2>1
<1>15. Built(header, q) /\ (header.ok => HEADER_SIZE + Len(header.bytes) <= OUT_BUFFER)
  BY <1>4, <1>13, <1>14, BuiltProperties
<1>16. CASE ~ header.ok
  <2>1. msg = header /\ ~ msg.ok
    BY <1>7, <1>16
  <2>2. ~ fini_message5(msg, PUBLISH, qos, retain, Len(data) - k).ok
    <3>1. fini_message5(msg, PUBLISH, qos, retain, Len(data) - k) = Failed
      BY <2>1, Zenon DEF fini_message5, fini_message
    <3>2. ~ Failed.ok
      BY DEF Failed
    <3> QED BY <3>1, <3>2
  <2> QED BY <1>8, <1>9, <2>2 DEF PublishMade
<1>17. CASE header.ok
  <2>1. header.bytes = q /\ Len(q) \in Nat /\ Len(data) \in Nat /\ OUT_BUFFER \in Nat
    BY <1>15, <1>17, MqttMsgAssumption DEF Built
  <2>2. space \in Nat
    BY <1>5, <1>15, <1>17, <2>1 DEF HEADER_SIZE
  <2>3. k \in 0 .. Len(data)
    BY <1>6, <2>1, <2>2
  <2>4. PICK m : m = Len(data) - k
    OBVIOUS
  <2>5. PICK f : f = FirstByte(PUBLISH, qos, retain) /\ f \in Nat
    BY DEF FirstByte, PUBLISH
  <2>6. PICK packet : packet = fini_message5(append(header, SubSeq(data, 1, k)), PUBLISH, qos, retain, m)
    OBVIOUS
  <2>7. made.message = packet /\ made.remaining = SubSeq(data, k + 1, Len(data))
    BY <1>7, <1>9, <1>17, <2>4, <2>6
  <2>8. packet.ok => Fragmented(packet, SubSeq(data, k + 1, Len(data)), f, q \o data)
    BY <1>15, <1>17, <2>3, <2>4, <2>5, <2>6, FragmentFrame
  <2>9. OUT_BUFFER >= HEADER_SIZE
    BY <1>15, <1>17, <2>1 DEF HEADER_SIZE
  <2>10. q \o data = PublishRest(topic, qos, number, p, data)
    BY <1>12, <1>14 DEF PublishRest
  <2> QED BY <1>1, <1>8, <2>5, <2>7, <2>8, <2>9, <2>10 DEF PublishMade, Fragmented
<1> QED BY <1>16, <1>17


\* What the first byte of a PUBLISH says.
LEMMA FirstByteRead ==
    ASSUME NEW qos \in 0 .. 2, NEW retain \in 0 .. 1
    PROVE  /\ FirstByte(PUBLISH, qos, retain) \in Nat
           /\ (FirstByte(PUBLISH, qos, retain) \div 2) % 4 = qos
           /\ (FirstByte(PUBLISH, qos, retain) \div 8) % 2 = 0
           /\ FirstByte(PUBLISH, qos, retain) \div 16 = PUBLISH
<1>1. PICK b \in Nat : b = 48 + qos * 2 + retain
  OBVIOUS
<1>2. b = FirstByte(PUBLISH, qos, retain)
  BY <1>1 DEF FirstByte, PUBLISH
<1>3. b \in {48, 49, 50, 51, 52, 53}
  BY <1>1
<1>4. (b \div 2) % 4 = qos
  BY <1>1, <1>3
<1>5. (b \div 8) % 2 = 0
  BY <1>3
<1>6. b \div 16 = PUBLISH
  BY <1>3 DEF PUBLISH
<1> QED BY <1>2, <1>4, <1>5, <1>6

\* The properties that begin at an offset are read, up to `after`.
Section(buffer, offset, limit, known, after, got, users) ==
    /\ get_variable_len(buffer, offset, limit).len \in Nat
    /\ get_variable_len(buffer, offset, limit).bytes \in Nat
    /\ get_variable_len(buffer, offset, limit).bytes >= 1
    /\ offset + get_variable_len(buffer, offset, limit).bytes
              + get_variable_len(buffer, offset, limit).len = after
    /\ Reads(Properties(buffer, offset + get_variable_len(buffer, offset, limit).bytes,
                        get_variable_len(buffer, offset, limit).len, known), got, users)

LEMMA SectionRead ==
    ASSUME NEW bytes, NEW got, NEW users, NEW known, Says(bytes, got, users, known),
           NEW buffer \in Seq(Nat), NEW offset \in Nat, At(buffer, offset, Prefixed(bytes)),
           NEW limit \in Nat, offset + Len(Prefixed(bytes)) <= limit, limit <= Len(buffer)
    PROVE  Section(buffer, offset, limit, known, offset + Len(Prefixed(bytes)), got, users)
<1>1. bytes \in Seq(Nat)
  BY SaysType
<1>2. PICK k \in Nat : /\ k >= 1 /\ k + Len(bytes) = Len(Prefixed(bytes))
                       /\ get_variable_len(buffer, offset, limit) = [len |-> Len(bytes), bytes |-> k]
                       /\ At(buffer, offset + k, bytes)
  BY <1>1, PrefixedRead
<1>3. Len(bytes) \in Nat /\ offset + k \in Nat
  BY <1>1
<1>4. Reads(Properties(buffer, offset + k, Len(bytes), known), got, users)
  BY <1>2, <1>3, SaysRead
<1>5. PICK v : v = get_variable_len(buffer, offset, limit)
  OBVIOUS
<1>6. v.len = Len(bytes) /\ v.bytes = k
  BY <1>2, <1>5
<1>7. offset + k + Len(bytes) = offset + Len(Prefixed(bytes))
  <2>1. k + Len(bytes) = Len(Prefixed(bytes))
    BY <1>2, Zenon
  <2> QED BY <1>3, <2>1
<1> QED BY <1>2, <1>3, <1>4, <1>5, <1>6, <1>7 DEF Section

\* What a PUBLISH that was made says, when it is read.
PublishReadAs(read, topic, data, got, users) ==
    /\ read.ok /\ read.topic = topic /\ read.payload = data
    /\ Reads(read.properties, got, users)

\* mqtt5_get_publish_property_payload, a name for each part.
PublishSteps(read, buffer, length) ==
    \E start, afterTopic, afterId, size, list :
        /\ start = Start5(buffer, length)
        /\ afterTopic = start.offset + 2 + WordAt(buffer, start.offset)
        /\ afterId = afterTopic + (IF mqtt_get_qos(buffer) > 0 THEN 2 ELSE 0)
        /\ size = get_variable_len(buffer, afterId, length)
        /\ list = Properties(buffer, afterId + size.bytes, size.len, PublishProperties)
        /\ read = IF afterTopic >= length \/ afterId >= length \/ ~ WellFormed(list)
                  THEN [ok |-> FALSE]
                  ELSE [ok |-> TRUE, topic |-> SubSeq(buffer, start.offset + 3, afterTopic),
                        properties |-> list,
                        payload |-> SubSeq(buffer, afterId + size.bytes + size.len + 1,
                                           IF start.total <= length THEN start.total ELSE length)]

LEMMA PublishStepsOf ==
    ASSUME NEW buffer, NEW length
    PROVE  PublishSteps(mqtt5_get_publish_property_payload(buffer, length), buffer, length)
BY ZenonT(60) DEF mqtt5_get_publish_property_payload, PublishSteps

LEMMA PublishRead ==
    ASSUME NEW topic \in Seq(Nat), NEW data \in Seq(Nat), NEW qos \in 0 .. 2, NEW retain \in 0 .. 1,
           NEW number \in Nat, NEW properties, NEW got, NEW users,
           Says(properties, got, users, PublishProperties), NEW bytes \in Seq(Nat),
           bytes = Frame(FirstByte(PUBLISH, qos, retain),
                         PublishRest(topic, qos, number, properties, data))
    PROVE  PublishReadAs(mqtt5_get_publish_property_payload(bytes, Len(bytes)),
                         topic, data, got, users)
<1>1. properties \in Seq(Nat)
  BY SaysType
<1>2. PICK head \in Seq(Nat) : head = PublishHead(topic, qos, number)
                               /\ Len(head) = 2 + Len(topic) + (IF qos > 0 THEN 2 ELSE 0)
  <2>1. qos \in Nat
    OBVIOUS
  <2> QED BY <2>1, PublishHeadType
<1>3. PICK section \in Seq(Nat) : section = Prefixed(properties) /\ Len(section) >= 1
  <2>1. PICK digits \in Seq(Nat) : digits = remaining_length[Len(properties)] /\ Len(digits) >= 1
    <3>1. Len(properties) \in Nat
      BY <1>1
    <3> QED BY <3>1, RemainingLengthType
  <2>2. /\ Prefixed(properties) \in Seq(Nat)
        /\ Len(Prefixed(properties)) = Len(digits) + Len(properties)
    BY <1>1, <2>1, PrefixedType
  <2>3. Len(properties) \in Nat /\ Len(digits) \in Nat
    BY <1>1
  <2>4. Len(Prefixed(properties)) >= 1
    BY <2>1, <2>2, <2>3
  <2> QED BY <2>2, <2>4
<1>4. PICK rest \in Seq(Nat) : rest = (head \o section) \o data
  <2>1. (head \o section) \o data \in Seq(Nat)
    OBVIOUS
  <2> QED BY <2>1
<1>5. bytes = Frame(FirstByte(PUBLISH, qos, retain), rest)
  BY <1>2, <1>3, <1>4 DEF PublishRest
<1>6. PICK o \in Nat : o = 1 + Len(remaining_length[Len(rest)])
  BY <1>5, FirstByteRead, FrameRead
<1>7. /\ bytes[1] = FirstByte(PUBLISH, qos, retain)
      /\ Start5(bytes, Len(bytes)) = [offset |-> o, total |-> Len(bytes)]
      /\ o + Len(rest) = Len(bytes) /\ At(bytes, o, rest)
  <2>1. PICK b \in Nat : b = FirstByte(PUBLISH, qos, retain) /\ bytes = Frame(b, rest)
    BY <1>5, FirstByteRead
  <2> QED BY <1>6, <2>1, FrameRead
<1>8. mqtt_get_qos(bytes) = qos
  BY <1>7, FirstByteRead DEF mqtt_get_qos
<1>9. PICK front \in Seq(Nat) : front = head \o section /\ Len(front) = Len(head) + Len(section)
  <2>1. head \o section \in Seq(Nat) /\ Len(head \o section) = Len(head) + Len(section)
    OBVIOUS
  <2> QED BY <2>1
<1>10. At(bytes, o, front) /\ At(bytes, o + Len(front), data)
  BY <1>4, <1>7, <1>9, AtConcat
<1>11. At(bytes, o, head) /\ At(bytes, o + Len(head), section)
  BY <1>9, <1>10, AtConcat
<1>12. PICK s \in Seq(Nat) : s = String(topic) /\ Len(s) = 2 + Len(topic)
  BY StringType
<1>13. At(bytes, o, s)
  <2>1. CASE qos > 0
    <3>1. head = s \o Word(number) /\ Word(number) \in Seq(Nat)
      BY <1>2, <1>12, <2>1, WordType DEF PublishHead
    <3> QED BY <1>11, <3>1, AtConcat
  <2>2. CASE ~ (qos > 0)
    <3>1. s \o <<>> = s
      OBVIOUS
    <3>2. head = s
      BY <1>2, <1>12, <2>2, <3>1 DEF PublishHead
    <3> QED BY <1>11, <3>2
  <2> QED BY <2>1, <2>2
<1>14. WordAt(bytes, o) = Len(topic) /\ At(bytes, o + 2, topic)
  BY <1>12, <1>13, StringRead
<1>15. PICK l, h, t, d, c \in Nat : l = Len(bytes) /\ h = Len(head) /\ t = Len(topic) /\ d = Len(data)
                                    /\ c = Len(section)
  OBVIOUS
<1>16. /\ o + h + c + d = l /\ c >= 1 /\ h = 2 + t + (IF qos > 0 THEN 2 ELSE 0)
       /\ o + Len(front) = o + h + c
  <2>1. Len(rest) = Len(front) + Len(data)
    BY <1>4, <1>9
  <2> QED BY <1>2, <1>3, <1>7, <1>9, <1>15, <2>1
<1>17. PICK a \in Nat : a = o + h /\ a = o + 2 + t + (IF qos > 0 THEN 2 ELSE 0) /\ a < l
                        /\ a + c <= l /\ o + 2 + t < l
  <2>1. o + h \in Nat
    OBVIOUS
  <2> QED BY <1>16, <2>1
<1>18. Section(bytes, a, l, PublishProperties, a + c, got, users)
  <2>1. At(bytes, a, Prefixed(properties)) /\ a + Len(Prefixed(properties)) <= l /\ l <= Len(bytes)
    BY <1>3, <1>11, <1>15, <1>17
  <2>2. Section(bytes, a, l, PublishProperties, a + Len(Prefixed(properties)), got, users)
    BY <2>1, SectionRead
  <2> QED BY <1>3, <1>15, <2>2
<1>19. PICK read : read = mqtt5_get_publish_property_payload(bytes, l) /\ PublishSteps(read, bytes, l)
  BY PublishStepsOf
<1>20. PICK start, afterTopic, afterId, size, list :
           /\ start = Start5(bytes, l)
           /\ afterTopic = start.offset + 2 + WordAt(bytes, start.offset)
           /\ afterId = afterTopic + (IF mqtt_get_qos(bytes) > 0 THEN 2 ELSE 0)
           /\ size = get_variable_len(bytes, afterId, l)
           /\ list = Properties(bytes, afterId + size.bytes, size.len, PublishProperties)
           /\ read = IF afterTopic >= l \/ afterId >= l \/ ~ WellFormed(list) THEN [ok |-> FALSE]
                     ELSE [ok |-> TRUE, topic |-> SubSeq(bytes, start.offset + 3, afterTopic),
                           properties |-> list,
                           payload |-> SubSeq(bytes, afterId + size.bytes + size.len + 1,
                                              IF start.total <= l THEN start.total ELSE l)]
  BY <1>19, Zenon DEF PublishSteps
<1>21. start.offset = o /\ start.total = l
  BY <1>7, <1>15, <1>20
<1>22. afterTopic = o + 2 + t
  BY <1>14, <1>15, <1>20, <1>21
<1>23. afterId = a
  BY <1>8, <1>17, <1>20, <1>22
<1>24. Reads(list, got, users) /\ a + size.bytes + size.len = a + c /\ WellFormed(list)
  BY <1>18, <1>20, <1>23 DEF Section, Reads
<1>25. read = [ok |-> TRUE, topic |-> SubSeq(bytes, o + 3, afterTopic), properties |-> list,
               payload |-> SubSeq(bytes, a + size.bytes + size.len + 1, l)]
  <2>1. (afterTopic >= l \/ afterId >= l \/ ~ WellFormed(list)) <=> FALSE
    BY <1>17, <1>22, <1>23, <1>24
  <2>2. (IF start.total <= l THEN start.total ELSE l) = l
    BY <1>21
  <2> QED BY <1>20, <1>21, <1>23, <2>1, <2>2, Zenon
<1>26. SubSeq(bytes, o + 3, afterTopic) = topic
  <2>1. SubSeq(bytes, (o + 2) + 1, (o + 2) + Len(topic)) = topic
    <3>1. o + 2 \in Nat
      OBVIOUS
    <3> QED BY <1>14, <3>1, AtSub
  <2>2. (o + 2) + 1 = o + 3 /\ (o + 2) + Len(topic) = afterTopic
    BY <1>15, <1>22
  <2> QED BY <2>1, <2>2
<1>27. SubSeq(bytes, a + size.bytes + size.len + 1, l) = data
  <2>1. PICK e \in Nat : e = o + Len(front) /\ e = a + c
    BY <1>16, <1>17
  <2>2. SubSeq(bytes, e + 1, e + Len(data)) = data
    BY <1>10, <2>1, AtSub, ZenonT(60)
  <2>3. e + Len(data) = l /\ a + size.bytes + size.len + 1 = e + 1
    BY <1>15, <1>16, <1>17, <1>24, <2>1
  <2> QED BY <2>2, <2>3
<1>28. read.ok /\ read.topic = topic /\ read.payload = data /\ read.properties = list
  BY <1>25, <1>26, <1>27
<1> QED BY <1>15, <1>19, <1>24, <1>28 DEF PublishReadAs


----------------------------------------------------------------------------
(* Several properties, one after the other *)

\* The bytes say the first n values, and nothing of other ids.
Chain(bytes, n, ids, values, known) ==
    \E got \in [Nat -> Seq(Nat)] :
        /\ Says(bytes, got, <<>>, known)
        /\ \A k \in 1 .. n : got[ids[k]] = values[k]
        /\ \A id \in Nat : (\A k \in 1 .. n : ids[k] # id) => got[id] = <<>>

LEMMA ChainFirst ==
    ASSUME NEW ids, NEW values, NEW known
    PROVE  Chain(<<>>, 0, ids, values, known)
<1>1. Nowhere \in [Nat -> Seq(Nat)] /\ \A id \in Nat : Nowhere[id] = <<>>
  BY NowhereType
<1>2. Says(<<>>, Nowhere, <<>>, known)
  BY SaysNone
<1>3. \A k \in 1 .. 0 : Nowhere[ids[k]] = values[k]
  OBVIOUS
<1> QED BY <1>1, <1>2, <1>3 DEF Chain

\* ids are told apart, and each of the bytes is an option.
Options(bytes, number, ids, values, known) ==
    /\ \A k \in 1 .. number : /\ Id(ids[k]) /\ values[k] \in Seq(Nat)
                              /\ Option(bytes[k], ids[k], values[k], known)
    /\ \A j, k \in 1 .. number : j # k => ids[j] # ids[k]

LEMMA ChainNext ==
    ASSUME NEW options, NEW number \in Nat, NEW ids, NEW values, NEW known,
           Options(options, number, ids, values, known),
           NEW bytes, NEW n \in 0 .. number - 1, Chain(bytes, n, ids, values, known)
    PROVE  Chain(bytes \o options[n + 1], n + 1, ids, values, known)
<1>1. PICK got \in [Nat -> Seq(Nat)] :
          /\ Says(bytes, got, <<>>, known)
          /\ \A k \in 1 .. n : got[ids[k]] = values[k]
          /\ \A id \in Nat : (\A k \in 1 .. n : ids[k] # id) => got[id] = <<>>
  BY DEF Chain
<1>2. PICK m \in 1 .. number : m = n + 1
  OBVIOUS
<1>3. PICK named, value, more : named = ids[m] /\ value = values[m] /\ more = options[m]
  OBVIOUS
<1>4. Id(named) /\ value \in Seq(Nat) /\ Option(more, named, value, known)
  BY <1>2, <1>3 DEF Options
<1>5. \A k \in 1 .. n : ids[k] # named
  <2> TAKE k \in 1 .. n
  <2>1. k \in 1 .. number /\ k # m
    BY <1>2
  <2> QED BY <1>2, <1>3, <2>1 DEF Options
<1>6. named \in Nat
  BY <1>4 DEF Id
<1>7. got[named] = <<>>
  BY <1>1, <1>5, <1>6
<1>8. PICK e \in Seq(Pairs) : e = <<>>
  BY EmptySeq
<1>9. SaysNext(bytes \o more, got, named, value, e, known)
  BY <1>1, <1>4, <1>7, <1>8, SaysThen
<1>10. PICK new \in [Nat -> Seq(Nat)] :
           /\ Says(bytes \o more, new, e, known)
           /\ \A id \in Nat : new[id] = IF id = named THEN value ELSE got[id]
  BY <1>9 DEF SaysNext
<1>11. ASSUME NEW k \in 1 .. m PROVE new[ids[k]] = values[k]
  <2>1. CASE k = m
    BY <1>3, <1>6, <1>10, <2>1
  <2>2. CASE k # m
    <3>1. k \in 1 .. n /\ k \in 1 .. number
      BY <1>2, <2>2
    <3>2. ids[k] \in Nat /\ ids[k] # named
      BY <1>5, <3>1 DEF Options, Id
    <3>3. new[ids[k]] = got[ids[k]]
      BY <1>10, <3>2
    <3> QED BY <1>1, <3>1, <3>3
  <2> QED BY <2>1, <2>2
<1>12. ASSUME NEW id \in Nat, \A k \in 1 .. m : ids[k] # id PROVE new[id] = <<>>
  <2>1. \A k \in 1 .. n : ids[k] # id
    BY <1>2, <1>12
  <2>2. id # named
    <3>1. m \in 1 .. m
      OBVIOUS
    <3> QED BY <1>3, <1>12, <3>1
  <2> QED BY <1>1, <1>10, <2>1, <2>2
<1> QED BY <1>2, <1>3, <1>8, <1>10, <1>11, <1>12 DEF Chain

\* The values that the bytes say, and the user properties after them.
Said(bytes, number, ids, values, users, known) ==
    \E got : /\ Says(bytes, got, users, known)
             /\ \A k \in 1 .. number : got[ids[k]] = values[k]

LEMMA ChainUsers ==
    ASSUME NEW bytes, NEW number, NEW ids, NEW values, NEW known,
           Chain(bytes, number, ids, values, known),
           USER_PROPERTY \in known, NEW users \in Seq(Pairs)
    PROVE  Said(bytes \o UserProperties(users), number, ids, values, users, known)
<1>1. PICK got \in [Nat -> Seq(Nat)] : /\ Says(bytes, got, <<>>, known)
                                        /\ \A k \in 1 .. number : got[ids[k]] = values[k]
  BY DEF Chain
<1>2. Says(bytes \o UserProperties(users), got, users, known)
  BY <1>1, SaysPairs
<1> QED BY <1>1, <1>2 DEF Said

LEMMA SixSaid ==
    ASSUME NEW options, NEW ids, NEW values, NEW known, Options(options, 6, ids, values, known),
           USER_PROPERTY \in known, NEW users \in Seq(Pairs)
    PROVE  Said(options[1] \o options[2] \o options[3] \o options[4] \o options[5] \o options[6]
                    \o UserProperties(users), 6, ids, values, users, known)
<1>1. PICK s \in Nat : s = 6
  OBVIOUS
<1>2. Options(options, s, ids, values, known)
  BY <1>1
<1>3. PICK b1, b2, b3, b4, b5, b6 : /\ b1 = options[1] /\ b2 = options[2] /\ b3 = options[3]
                                    /\ b4 = options[4] /\ b5 = options[5] /\ b6 = options[6]
  OBVIOUS
<1>4. Chain(b1, 1, ids, values, known)
  <2>1. 0 \in 0 .. s - 1 /\ 0 + 1 = 1
    BY <1>1
  <2>2. Chain(<<>> \o options[0 + 1], 0 + 1, ids, values, known)
    BY <1>2, <2>1, ChainFirst, ChainNext
  <2>3. Option(b1, ids[1], values[1], known)
    BY <1>3 DEF Options
  <2>4. b1 \in Seq(Nat)
    BY <2>3, PieceType DEF Option
  <2>5. <<>> \o b1 = b1
    BY <2>4
  <2> QED BY <1>3, <2>1, <2>2, <2>5
<1>5. Chain(b1 \o b2, 2, ids, values, known)
  <2>1. 1 \in 0 .. s - 1 /\ 1 + 1 = 2
    BY <1>1
  <2>2. Chain(b1 \o options[1 + 1], 1 + 1, ids, values, known)
    BY <1>2, <1>4, <2>1, ChainNext
  <2> QED BY <1>3, <2>1, <2>2
<1>6. Chain(b1 \o b2 \o b3, 3, ids, values, known)
  <2>1. 2 \in 0 .. s - 1 /\ 2 + 1 = 3
    BY <1>1
  <2>2. Chain(b1 \o b2 \o options[2 + 1], 2 + 1, ids, values, known)
    BY <1>2, <1>5, <2>1, ChainNext
  <2> QED BY <1>3, <2>1, <2>2
<1>7. Chain(b1 \o b2 \o b3 \o b4, 4, ids, values, known)
  <2>1. 3 \in 0 .. s - 1 /\ 3 + 1 = 4
    BY <1>1
  <2>2. Chain(b1 \o b2 \o b3 \o options[3 + 1], 3 + 1, ids, values, known)
    BY <1>2, <1>6, <2>1, ChainNext
  <2> QED BY <1>3, <2>1, <2>2
<1>8. Chain(b1 \o b2 \o b3 \o b4 \o b5, 5, ids, values, known)
  <2>1. 4 \in 0 .. s - 1 /\ 4 + 1 = 5
    BY <1>1
  <2>2. Chain(b1 \o b2 \o b3 \o b4 \o options[4 + 1], 4 + 1, ids, values, known)
    BY <1>2, <1>7, <2>1, ChainNext
  <2> QED BY <1>3, <2>1, <2>2
<1>9. Chain(b1 \o b2 \o b3 \o b4 \o b5 \o b6, 6, ids, values, known)
  <2>1. 5 \in 0 .. s - 1 /\ 5 + 1 = 6
    BY <1>1
  <2>2. Chain(b1 \o b2 \o b3 \o b4 \o b5 \o options[5 + 1], 5 + 1, ids, values, known)
    BY <1>2, <1>8, <2>1, ChainNext
  <2> QED BY <1>3, <2>1, <2>2
<1>10. Said(b1 \o b2 \o b3 \o b4 \o b5 \o b6 \o UserProperties(users), 6, ids, values, users, known)
  BY <1>9, ChainUsers
<1> QED BY <1>3, <1>10


----------------------------------------------------------------------------
(* The properties of CONNECT and of its will *)

ConnectSet ==
    [session_expiry_interval : Nat, maximum_packet_size : Nat, receive_maximum : Nat,
     topic_alias_maximum : Nat, request_resp_info : BOOLEAN, request_problem_info : BOOLEAN,
     user_property : Seq(Pairs)]
WillSet ==
    [will_delay_interval : Nat, message_expiry_interval : Nat, payload_format_indicator : BOOLEAN,
     content_type : Seq(Nat), response_topic : Seq(Nat), correlation_data : Seq(Nat),
     user_property : Seq(Pairs)]

\* What a reader of the packet knows.
ConnectKnown == ConnackProperties \cup {REQUEST_PROBLEM_INFO, REQUEST_RESP_INFO}
WillKnown == PublishProperties \cup {WILL_DELAY_INTERVAL}

\* Numbers for the ids, to tell them apart and find their kinds.
LEMMA ConnectIds ==
    /\ SESSION_EXPIRY_INTERVAL = 17 /\ MAXIMUM_PACKET_SIZE = 39 /\ RECEIVE_MAXIMUM = 33
    /\ TOPIC_ALIAS_MAXIMUM = 34 /\ REQUEST_RESP_INFO = 25 /\ REQUEST_PROBLEM_INFO = 23
    /\ {SESSION_EXPIRY_INTERVAL, MAXIMUM_PACKET_SIZE} \subseteq FourBytes
    /\ {RECEIVE_MAXIMUM, TOPIC_ALIAS_MAXIMUM} \subseteq TwoBytes
    /\ {REQUEST_RESP_INFO, REQUEST_PROBLEM_INFO} \subseteq OneByte
    /\ {SESSION_EXPIRY_INTERVAL, MAXIMUM_PACKET_SIZE, RECEIVE_MAXIMUM, TOPIC_ALIAS_MAXIMUM,
        REQUEST_RESP_INFO, REQUEST_PROBLEM_INFO, USER_PROPERTY} \subseteq ConnectKnown
    /\ {SESSION_EXPIRY_INTERVAL, USER_PROPERTY} \subseteq ConnackProperties
    /\ \A id \in {17, 39, 33, 34, 25, 23} : Id(id)
BY DEF SESSION_EXPIRY_INTERVAL, MAXIMUM_PACKET_SIZE, RECEIVE_MAXIMUM, TOPIC_ALIAS_MAXIMUM,
       REQUEST_RESP_INFO, REQUEST_PROBLEM_INFO, USER_PROPERTY, FourBytes, TwoBytes, OneByte,
       ConnectKnown, ConnackProperties, Id

LEMMA WillIds ==
    /\ WILL_DELAY_INTERVAL = 24 /\ PAYLOAD_FORMAT_INDICATOR = 1 /\ MESSAGE_EXPIRY_INTERVAL = 2
    /\ CONTENT_TYPE = 3 /\ RESPONSE_TOPIC = 8 /\ CORRELATION_DATA = 9
    /\ {WILL_DELAY_INTERVAL, MESSAGE_EXPIRY_INTERVAL} \subseteq FourBytes
    /\ PAYLOAD_FORMAT_INDICATOR \in OneByte
    /\ {CONTENT_TYPE, RESPONSE_TOPIC, CORRELATION_DATA} \subseteq Strings(WillKnown)
    /\ {WILL_DELAY_INTERVAL, PAYLOAD_FORMAT_INDICATOR, MESSAGE_EXPIRY_INTERVAL, USER_PROPERTY}
           \subseteq WillKnown
    /\ \A id \in {24, 1, 2, 3, 8, 9} : Id(id)
BY DEF WILL_DELAY_INTERVAL, PAYLOAD_FORMAT_INDICATOR, MESSAGE_EXPIRY_INTERVAL, CONTENT_TYPE,
       RESPONSE_TOPIC, CORRELATION_DATA, USER_PROPERTY, SUBSCRIBE_IDENTIFIER, FourBytes, TwoBytes,
       OneByte, Strings, WillKnown, PublishProperties, Id, MAXIMUM_QOS, RETAIN_AVAILABLE,
       REQUEST_PROBLEM_INFO, REQUEST_RESP_INFO, SERVER_KEEP_ALIVE, RECEIVE_MAXIMUM,
       TOPIC_ALIAS_MAXIMUM, TOPIC_ALIAS, SESSION_EXPIRY_INTERVAL, MAXIMUM_PACKET_SIZE

ConnectSaid(bytes, connection) ==
    \E got : /\ Says(bytes, got, connection.user_property, ConnectKnown)
             /\ got[SESSION_EXPIRY_INTERVAL] = BigEndianOf(connection.session_expiry_interval, 4)
             /\ got[MAXIMUM_PACKET_SIZE] = BigEndianOf(connection.maximum_packet_size, 4)
             /\ got[RECEIVE_MAXIMUM] = BigEndianOf(connection.receive_maximum, 2)
             /\ got[TOPIC_ALIAS_MAXIMUM] = BigEndianOf(connection.topic_alias_maximum, 2)
             /\ got[REQUEST_RESP_INFO] = FlagOf(connection.request_resp_info)

LEMMA ConnectSays ==
    ASSUME NEW connection \in ConnectSet
    PROVE  ConnectSaid(ConnectProperties(connection), connection)
<1>1. PICK ids : ids = <<17, 39, 33, 34, 25, 23>>
  OBVIOUS
<1>2. PICK values : values = <<BigEndianOf(connection.session_expiry_interval, 4),
                               BigEndianOf(connection.maximum_packet_size, 4),
                               BigEndianOf(connection.receive_maximum, 2),
                               BigEndianOf(connection.topic_alias_maximum, 2),
                               FlagOf(connection.request_resp_info),
                               FlagOf(connection.request_problem_info)>>
  OBVIOUS
<1>3. PICK options :
          options = <<Number(SESSION_EXPIRY_INTERVAL, connection.session_expiry_interval, 4),
                      Number(MAXIMUM_PACKET_SIZE, connection.maximum_packet_size, 4),
                      Number(RECEIVE_MAXIMUM, connection.receive_maximum, 2),
                      Number(TOPIC_ALIAS_MAXIMUM, connection.topic_alias_maximum, 2),
                      Flag(REQUEST_RESP_INFO, connection.request_resp_info),
                      Flag(REQUEST_PROBLEM_INFO, connection.request_problem_info)>>
  OBVIOUS
<1>4. /\ connection.session_expiry_interval \in Nat /\ connection.maximum_packet_size \in Nat
      /\ connection.receive_maximum \in Nat /\ connection.topic_alias_maximum \in Nat
      /\ connection.user_property \in Seq(Pairs)
  BY DEF ConnectSet
<1>5. 2 \in {2, 4} /\ 4 \in {2, 4} /\ (2 = 4 <=> FALSE) /\ (4 = 2 <=> FALSE)
  OBVIOUS
<1>6. /\ Option(options[1], ids[1], values[1], ConnectKnown) /\ values[1] \in Seq(Nat)
      /\ Option(options[2], ids[2], values[2], ConnectKnown) /\ values[2] \in Seq(Nat)
  <2>1. /\ Option(Number(17, connection.session_expiry_interval, 4), 17,
                  BigEndianOf(connection.session_expiry_interval, 4), ConnectKnown)
        /\ Option(Number(39, connection.maximum_packet_size, 4), 39,
                  BigEndianOf(connection.maximum_packet_size, 4), ConnectKnown)
    <3>1. 17 \in FourBytes /\ 39 \in FourBytes /\ Id(17) /\ Id(39) /\ 17 \in ConnectKnown
          /\ 39 \in ConnectKnown
      BY ConnectIds
    <3> QED BY <1>4, <1>5, <3>1, NumberOption
  <2>2. /\ BigEndianOf(connection.session_expiry_interval, 4) \in Seq(Nat)
        /\ BigEndianOf(connection.maximum_packet_size, 4) \in Seq(Nat)
    BY <1>4, <1>5, BigEndianOfType
  <2>3. /\ options[1] = Number(17, connection.session_expiry_interval, 4) /\ ids[1] = 17
        /\ options[2] = Number(39, connection.maximum_packet_size, 4) /\ ids[2] = 39
        /\ values[1] = BigEndianOf(connection.session_expiry_interval, 4)
        /\ values[2] = BigEndianOf(connection.maximum_packet_size, 4)
    BY <1>1, <1>2, <1>3, ConnectIds
  <2> QED BY <2>1, <2>2, <2>3
<1>7. /\ Option(options[3], ids[3], values[3], ConnectKnown) /\ values[3] \in Seq(Nat)
      /\ Option(options[4], ids[4], values[4], ConnectKnown) /\ values[4] \in Seq(Nat)
  <2>1. /\ Option(Number(33, connection.receive_maximum, 2), 33,
                  BigEndianOf(connection.receive_maximum, 2), ConnectKnown)
        /\ Option(Number(34, connection.topic_alias_maximum, 2), 34,
                  BigEndianOf(connection.topic_alias_maximum, 2), ConnectKnown)
    <3>1. 33 \in TwoBytes /\ 34 \in TwoBytes /\ Id(33) /\ Id(34) /\ 33 \in ConnectKnown
          /\ 34 \in ConnectKnown
      BY ConnectIds
    <3> QED BY <1>4, <1>5, <3>1, NumberOption
  <2>2. /\ BigEndianOf(connection.receive_maximum, 2) \in Seq(Nat)
        /\ BigEndianOf(connection.topic_alias_maximum, 2) \in Seq(Nat)
    BY <1>4, <1>5, BigEndianOfType
  <2>3. /\ options[3] = Number(33, connection.receive_maximum, 2) /\ ids[3] = 33
        /\ options[4] = Number(34, connection.topic_alias_maximum, 2) /\ ids[4] = 34
        /\ values[3] = BigEndianOf(connection.receive_maximum, 2)
        /\ values[4] = BigEndianOf(connection.topic_alias_maximum, 2)
    BY <1>1, <1>2, <1>3, ConnectIds
  <2> QED BY <2>1, <2>2, <2>3
<1>8. /\ Option(options[5], ids[5], values[5], ConnectKnown) /\ values[5] \in Seq(Nat)
      /\ Option(options[6], ids[6], values[6], ConnectKnown) /\ values[6] \in Seq(Nat)
  <2>1. /\ Option(Flag(25, connection.request_resp_info), 25,
                  FlagOf(connection.request_resp_info), ConnectKnown)
        /\ Option(Flag(23, connection.request_problem_info), 23,
                  FlagOf(connection.request_problem_info), ConnectKnown)
    <3>1. 25 \in OneByte /\ 23 \in OneByte /\ Id(25) /\ Id(23) /\ 25 \in ConnectKnown
          /\ 23 \in ConnectKnown
      BY ConnectIds
    <3> QED BY <3>1, FlagOption
  <2>2. /\ FlagOf(connection.request_resp_info) \in Seq(Nat)
        /\ FlagOf(connection.request_problem_info) \in Seq(Nat)
    BY FlagOfType
  <2>3. /\ options[5] = Flag(25, connection.request_resp_info) /\ ids[5] = 25
        /\ options[6] = Flag(23, connection.request_problem_info) /\ ids[6] = 23
        /\ values[5] = FlagOf(connection.request_resp_info)
        /\ values[6] = FlagOf(connection.request_problem_info)
    BY <1>1, <1>2, <1>3, ConnectIds
  <2> QED BY <2>1, <2>2, <2>3
<1>9. Options(options, 6, ids, values, ConnectKnown)
  <2>1. ASSUME NEW k \in 1 .. 6 PROVE /\ Id(ids[k]) /\ values[k] \in Seq(Nat)
                                      /\ Option(options[k], ids[k], values[k], ConnectKnown)
    <3>1. Id(ids[k])
      BY <1>1, ConnectIds
    <3>2. k = 1 \/ k = 2 \/ k = 3 \/ k = 4 \/ k = 5 \/ k = 6
      OBVIOUS
    <3> QED BY <1>6, <1>7, <1>8, <3>1, <3>2, Zenon
  <2>2. \A j, k \in 1 .. 6 : j # k => ids[j] # ids[k]
    BY <1>1
  <2> QED BY <2>1, <2>2 DEF Options
<1>10. USER_PROPERTY \in ConnectKnown
  BY ConnectIds
<1>11. Said(options[1] \o options[2] \o options[3] \o options[4] \o options[5] \o options[6]
                \o UserProperties(connection.user_property), 6, ids, values,
            connection.user_property, ConnectKnown)
  BY <1>4, <1>9, <1>10, SixSaid
<1>12. ConnectProperties(connection)
           = options[1] \o options[2] \o options[3] \o options[4] \o options[5] \o options[6]
                \o UserProperties(connection.user_property)
  <2>1. /\ options[1] = Number(SESSION_EXPIRY_INTERVAL, connection.session_expiry_interval, 4)
        /\ options[2] = Number(MAXIMUM_PACKET_SIZE, connection.maximum_packet_size, 4)
        /\ options[3] = Number(RECEIVE_MAXIMUM, connection.receive_maximum, 2)
        /\ options[4] = Number(TOPIC_ALIAS_MAXIMUM, connection.topic_alias_maximum, 2)
        /\ options[5] = Flag(REQUEST_RESP_INFO, connection.request_resp_info)
        /\ options[6] = Flag(REQUEST_PROBLEM_INFO, connection.request_problem_info)
    BY <1>3
  <2> QED BY <2>1, Zenon DEF ConnectProperties
<1>13. PICK got : /\ Says(ConnectProperties(connection), got, connection.user_property, ConnectKnown)
                  /\ \A k \in 1 .. 6 : got[ids[k]] = values[k]
  BY <1>11, <1>12 DEF Said
<1>14. /\ got[17] = values[1] /\ got[39] = values[2] /\ got[33] = values[3] /\ got[34] = values[4]
       /\ got[25] = values[5]
  BY <1>1, <1>13
<1> QED BY <1>2, <1>13, <1>14, ConnectIds DEF ConnectSaid


WillSaid(bytes, testament) ==
    \E got : /\ Says(bytes, got, testament.user_property, WillKnown)
             /\ got[WILL_DELAY_INTERVAL] = BigEndianOf(testament.will_delay_interval, 4)
             /\ got[RESPONSE_TOPIC] = testament.response_topic

LEMMA WillSays ==
    ASSUME NEW testament \in WillSet
    PROVE  WillSaid(WillProperties(testament), testament)
<1>1. PICK ids : ids = <<24, 1, 2, 3, 8, 9>>
  OBVIOUS
<1>2. PICK values : values = <<BigEndianOf(testament.will_delay_interval, 4),
                               FlagOf(testament.payload_format_indicator),
                               BigEndianOf(testament.message_expiry_interval, 4),
                               testament.content_type, testament.response_topic,
                               testament.correlation_data>>
  OBVIOUS
<1>3. PICK options :
          options = <<Number(WILL_DELAY_INTERVAL, testament.will_delay_interval, 4),
                      Flag(PAYLOAD_FORMAT_INDICATOR, testament.payload_format_indicator),
                      Number(MESSAGE_EXPIRY_INTERVAL, testament.message_expiry_interval, 4),
                      Text(CONTENT_TYPE, testament.content_type),
                      Text(RESPONSE_TOPIC, testament.response_topic),
                      Text(CORRELATION_DATA, testament.correlation_data)>>
  OBVIOUS
<1>4. /\ testament.will_delay_interval \in Nat /\ testament.message_expiry_interval \in Nat
      /\ testament.content_type \in Seq(Nat) /\ testament.response_topic \in Seq(Nat)
      /\ testament.correlation_data \in Seq(Nat) /\ testament.user_property \in Seq(Pairs)
  BY DEF WillSet
<1>5. 4 \in {2, 4} /\ (4 = 2 <=> FALSE)
  OBVIOUS
<1>6. /\ Option(options[1], ids[1], values[1], WillKnown) /\ values[1] \in Seq(Nat)
      /\ Option(options[3], ids[3], values[3], WillKnown) /\ values[3] \in Seq(Nat)
  <2>1. /\ Option(Number(24, testament.will_delay_interval, 4), 24,
                  BigEndianOf(testament.will_delay_interval, 4), WillKnown)
        /\ Option(Number(2, testament.message_expiry_interval, 4), 2,
                  BigEndianOf(testament.message_expiry_interval, 4), WillKnown)
    <3>1. 24 \in FourBytes /\ 2 \in FourBytes /\ Id(24) /\ Id(2) /\ 24 \in WillKnown
          /\ 2 \in WillKnown
      BY WillIds
    <3> QED BY <1>4, <1>5, <3>1, NumberOption
  <2>2. /\ BigEndianOf(testament.will_delay_interval, 4) \in Seq(Nat)
        /\ BigEndianOf(testament.message_expiry_interval, 4) \in Seq(Nat)
    BY <1>4, <1>5, BigEndianOfType
  <2>3. /\ options[1] = Number(24, testament.will_delay_interval, 4) /\ ids[1] = 24
        /\ options[3] = Number(2, testament.message_expiry_interval, 4) /\ ids[3] = 2
        /\ values[1] = BigEndianOf(testament.will_delay_interval, 4)
        /\ values[3] = BigEndianOf(testament.message_expiry_interval, 4)
    BY <1>1, <1>2, <1>3, WillIds
  <2> QED BY <2>1, <2>2, <2>3
<1>7. Option(options[2], ids[2], values[2], WillKnown) /\ values[2] \in Seq(Nat)
  <2>1. Option(Flag(1, testament.payload_format_indicator), 1,
               FlagOf(testament.payload_format_indicator), WillKnown)
    <3>1. 1 \in OneByte /\ Id(1) /\ 1 \in WillKnown
      BY WillIds
    <3> QED BY <3>1, FlagOption
  <2>2. FlagOf(testament.payload_format_indicator) \in Seq(Nat)
    BY FlagOfType
  <2>3. /\ options[2] = Flag(1, testament.payload_format_indicator) /\ ids[2] = 1
        /\ values[2] = FlagOf(testament.payload_format_indicator)
    BY <1>1, <1>2, <1>3, WillIds
  <2> QED BY <2>1, <2>2, <2>3
<1>8. /\ Option(options[4], ids[4], values[4], WillKnown) /\ values[4] \in Seq(Nat)
      /\ Option(options[5], ids[5], values[5], WillKnown) /\ values[5] \in Seq(Nat)
      /\ Option(options[6], ids[6], values[6], WillKnown) /\ values[6] \in Seq(Nat)
  <2>1. /\ Option(Text(3, testament.content_type), 3, testament.content_type, WillKnown)
        /\ Option(Text(8, testament.response_topic), 8, testament.response_topic, WillKnown)
        /\ Option(Text(9, testament.correlation_data), 9, testament.correlation_data, WillKnown)
    <3>1. /\ 3 \in Strings(WillKnown) /\ 8 \in Strings(WillKnown) /\ 9 \in Strings(WillKnown)
          /\ Id(3) /\ Id(8) /\ Id(9)
      BY WillIds
    <3> QED BY <1>4, <3>1, TextOption
  <2>2. /\ options[4] = Text(3, testament.content_type) /\ ids[4] = 3
        /\ options[5] = Text(8, testament.response_topic) /\ ids[5] = 8
        /\ options[6] = Text(9, testament.correlation_data) /\ ids[6] = 9
        /\ values[4] = testament.content_type /\ values[5] = testament.response_topic
        /\ values[6] = testament.correlation_data
    BY <1>1, <1>2, <1>3, WillIds
  <2> QED BY <1>4, <2>1, <2>2
<1>9. Options(options, 6, ids, values, WillKnown)
  <2>1. ASSUME NEW k \in 1 .. 6 PROVE /\ Id(ids[k]) /\ values[k] \in Seq(Nat)
                                      /\ Option(options[k], ids[k], values[k], WillKnown)
    <3>1. Id(ids[k])
      BY <1>1, WillIds
    <3>2. k = 1 \/ k = 2 \/ k = 3 \/ k = 4 \/ k = 5 \/ k = 6
      OBVIOUS
    <3> QED BY <1>6, <1>7, <1>8, <3>1, <3>2, Zenon
  <2>2. \A j, k \in 1 .. 6 : j # k => ids[j] # ids[k]
    BY <1>1
  <2> QED BY <2>1, <2>2 DEF Options
<1>10. USER_PROPERTY \in WillKnown
  BY WillIds
<1>11. Said(options[1] \o options[2] \o options[3] \o options[4] \o options[5] \o options[6]
                \o UserProperties(testament.user_property), 6, ids, values,
            testament.user_property, WillKnown)
  BY <1>4, <1>9, <1>10, SixSaid
<1>12. WillProperties(testament)
           = options[1] \o options[2] \o options[3] \o options[4] \o options[5] \o options[6]
                \o UserProperties(testament.user_property)
  <2>1. /\ options[1] = Number(WILL_DELAY_INTERVAL, testament.will_delay_interval, 4)
        /\ options[2] = Flag(PAYLOAD_FORMAT_INDICATOR, testament.payload_format_indicator)
        /\ options[3] = Number(MESSAGE_EXPIRY_INTERVAL, testament.message_expiry_interval, 4)
        /\ options[4] = Text(CONTENT_TYPE, testament.content_type)
        /\ options[5] = Text(RESPONSE_TOPIC, testament.response_topic)
        /\ options[6] = Text(CORRELATION_DATA, testament.correlation_data)
    BY <1>3
  <2> QED BY <2>1, Zenon DEF WillProperties
<1>13. PICK got : /\ Says(WillProperties(testament), got, testament.user_property, WillKnown)
                  /\ \A k \in 1 .. 6 : got[ids[k]] = values[k]
  BY <1>11, <1>12 DEF Said
<1>14. got[24] = values[1] /\ got[8] = values[5]
  BY <1>1, <1>13
<1> QED BY <1>2, <1>13, <1>14, WillIds DEF WillSaid

----------------------------------------------------------------------------
(* The properties of SUBSCRIBE, UNSUBSCRIBE and DISCONNECT *)

SubscribeSet ==
    [subscribe_id : Nat, no_local_flag : BOOLEAN, retain_as_published_flag : BOOLEAN,
     retain_handle : Nat, is_share_subscribe : BOOLEAN, share_name : Seq(Nat),
     user_property : Seq(Pairs)]
UnsubscribeSet ==
    [is_share_subscribe : BOOLEAN, share_name : Seq(Nat), user_property : Seq(Pairs)]
DisconnectSet ==
    [session_expiry_interval : Nat, disconnect_reason : Nat, user_property : Seq(Pairs)]

LEMMA UsersSaid ==
    ASSUME NEW known, USER_PROPERTY \in known, NEW users \in Seq(Pairs)
    PROVE  \E got : Says(UserProperties(users), got, users, known)
<1>1. PICK e, b : e = <<>> /\ b = UserProperties(users)
  OBVIOUS
<1>2. Chain(e, 0, e, e, known)
  BY <1>1, ChainFirst
<1>3. Said(e \o b, 0, e, e, users, known)
  BY <1>1, <1>2, ChainUsers
<1>4. b \in Seq(Nat)
  BY <1>1, PairsPiece, PieceType
<1>5. e \o b = b
  BY <1>1, <1>4
<1> QED BY <1>1, <1>3, <1>5 DEF Said

SaysOne(bytes, named, value, users, known) ==
    \E got : Says(bytes, got, users, known) /\ got[named] = value

LEMMA OneSaid ==
    ASSUME NEW option, NEW named, Id(named), NEW value \in Seq(Nat), NEW known,
           Option(option, named, value, known),
           USER_PROPERTY \in known, NEW users \in Seq(Pairs)
    PROVE  SaysOne(option \o UserProperties(users), named, value, users, known)
<1>1. PICK one \in Nat : one = 1
  OBVIOUS
<1>2. PICK ids, values, options : ids = <<named>> /\ values = <<value>> /\ options = <<option>>
  OBVIOUS
<1>3. Options(options, one, ids, values, known)
  <2>1. ids[1] = named /\ values[1] = value /\ options[1] = option
    BY <1>2
  <2>2. \A k \in 1 .. one : k = 1
    BY <1>1
  <2> QED BY <2>1, <2>2 DEF Options
<1>4. Chain(<<>> \o options[0 + 1], 0 + 1, ids, values, known)
  <2>1. 0 \in 0 .. one - 1
    BY <1>1
  <2> QED BY <1>3, <2>1, ChainFirst, ChainNext
<1>5. <<>> \o options[0 + 1] = option /\ 0 + 1 = one
  <2>1. option \in Seq(Nat)
    BY PieceType DEF Option
  <2>2. <<>> \o option = option
    BY <2>1
  <2> QED BY <1>1, <1>2, <2>2
<1>6. Said(option \o UserProperties(users), one, ids, values, users, known)
  BY <1>4, <1>5, ChainUsers
<1>7. PICK got : /\ Says(option \o UserProperties(users), got, users, known)
                 /\ \A k \in 1 .. one : got[ids[k]] = values[k]
  BY <1>6 DEF Said
<1>8. got[named] = value
  BY <1>1, <1>2, <1>7
<1> QED BY <1>7, <1>8 DEF SaysOne


----------------------------------------------------------------------------
(* Packets as they are made and opened *)

PacketMade(made, first, rest) ==
    /\ made \in Msgs /\ first \in Nat /\ rest \in Seq(Nat)
    /\ made.ok => made.bytes = Frame(first, rest)

LEMMA BuiltPacket ==
    ASSUME NEW msg, NEW bytes, Built(msg, bytes), NEW type, NEW qos, NEW retain,
           FirstByte(type, qos, retain) \in Nat
    PROVE  PacketMade(fini_message5(msg, type, qos, retain, 0), FirstByte(type, qos, retain), bytes)
<1>1. /\ fini_message5(msg, type, qos, retain, 0) \in Msgs
      /\ fini_message5(msg, type, qos, retain, 0).ok =>
             /\ msg.ok
             /\ fini_message5(msg, type, qos, retain, 0).bytes
                    = Frame(FirstByte(type, qos, retain), bytes)
  BY BuiltFrame
<1>2. bytes \in Seq(Nat)
  BY DEF Built
<1> QED BY <1>1, <1>2 DEF PacketMade

LEMMA FailedPacket ==
    ASSUME NEW first \in Nat, NEW rest \in Seq(Nat)
    PROVE  PacketMade(Failed, first, rest)
<1>1. Failed \in Msgs
  BY BuiltFailed DEF Built
<1>2. ~ Failed.ok
  BY DEF Failed
<1> QED BY <1>1, <1>2 DEF PacketMade

\* A packet whose variable header and payload begin at o.
Opens(bytes, first, rest, o) ==
    /\ bytes \in Seq(Nat) /\ Len(bytes) \in Nat /\ o \in Nat /\ rest \in Seq(Nat)
    /\ bytes[1] = first
    /\ Start5(bytes, Len(bytes)).offset = o /\ Start5(bytes, Len(bytes)).total = Len(bytes)
    /\ At(bytes, o, rest) /\ o + Len(rest) = Len(bytes)
    /\ 1 + get_variable_len(bytes, 1, Len(bytes)).bytes = o

LEMMA PacketOpens ==
    ASSUME NEW made, NEW first, NEW rest, PacketMade(made, first, rest), made.ok
    PROVE  \E o \in Nat : Opens(made.bytes, first, rest, o)
<1>1. PICK bytes : bytes = made.bytes
  OBVIOUS
<1>2. first \in Nat /\ rest \in Seq(Nat) /\ bytes = Frame(first, rest) /\ bytes \in Seq(Nat)
  BY <1>1 DEF PacketMade, Msgs
<1>3. PICK o \in Nat : o = 1 + Len(remaining_length[Len(rest)])
  BY <1>2, FrameRead
<1>4. /\ bytes[1] = first /\ At(bytes, o, rest) /\ o + Len(rest) = Len(bytes)
      /\ Start5(bytes, Len(bytes)) = [offset |-> o, total |-> Len(bytes)]
      /\ get_variable_len(bytes, 1, Len(bytes))
             = [len |-> Len(rest), bytes |-> Len(remaining_length[Len(rest)])]
  BY <1>2, <1>3, FrameRead
<1>5. /\ Start5(bytes, Len(bytes)).offset = o /\ Start5(bytes, Len(bytes)).total = Len(bytes)
  BY <1>4
<1>6. 1 + get_variable_len(bytes, 1, Len(bytes)).bytes = o
  BY <1>3, <1>4
<1>7. Len(bytes) \in Nat
  BY <1>2
<1> QED BY <1>1, <1>2, <1>4, <1>5, <1>6, <1>7 DEF Opens

\* The properties that begin at an offset of a packet, as ReadBack finds them.
PropertiesIn(bytes, offset, known) ==
    LET size == get_variable_len(bytes, offset, Len(bytes))
    IN  [list |-> Properties(bytes, offset + size.bytes, size.len, known),
         after |-> offset + size.bytes + size.len]

FoundIn(bytes, offset, known, after, got, users) ==
    /\ Reads(PropertiesIn(bytes, offset, known).list, got, users)
    /\ PropertiesIn(bytes, offset, known).after = after

LEMMA SectionFound ==
    ASSUME NEW bytes, NEW got, NEW users, NEW known, Says(bytes, got, users, known),
           NEW buffer \in Seq(Nat), NEW offset \in Nat, At(buffer, offset, Prefixed(bytes))
    PROVE  FoundIn(buffer, offset, known, offset + Len(Prefixed(bytes)), got, users)
<1>1. PICK l \in Nat : l = Len(buffer)
  OBVIOUS
<1>2. offset + Len(Prefixed(bytes)) <= l /\ l <= Len(buffer)
  BY <1>1 DEF At
<1>3. Section(buffer, offset, l, known, offset + Len(Prefixed(bytes)), got, users)
  BY <1>2, SectionRead
<1>4. PICK size : size = get_variable_len(buffer, offset, l)
  OBVIOUS
<1>5. PICK read : read = PropertiesIn(buffer, offset, known)
  OBVIOUS
<1>6. read = [list |-> Properties(buffer, offset + size.bytes, size.len, known),
              after |-> offset + size.bytes + size.len]
  BY <1>1, <1>4, <1>5 DEF PropertiesIn
<1>7. read.list = Properties(buffer, offset + size.bytes, size.len, known)
  BY <1>6
<1>8. read.after = offset + size.bytes + size.len
  BY <1>6
<1> QED BY <1>3, <1>4, <1>5, <1>7, <1>8 DEF Section, FoundIn

LEMMA DigitOnly ==
    ASSUME NEW n \in Nat, n < 128
    PROVE  remaining_length[n] = <<n>>
BY RemainingLengthSteps

\* A packet of the broker whose length is one byte is framed as those of the client.
LEMMA SmallFrame ==
    ASSUME NEW first \in Nat, NEW rest \in Seq(Nat), Len(rest) < 128
    PROVE  <<first, Len(rest)>> \o rest = Frame(first, rest)
<1>1. PICK n \in Nat : n = Len(rest)
  OBVIOUS
<1>2. remaining_length[n] = <<n>>
  BY <1>1, DigitOnly
<1>3. <<first>> \o <<n>> = <<first, n>>
  <2>1. PICK a, b, c \in Seq(Nat) : a = <<first>> /\ b = <<n>> /\ c = <<first, n>>
    <3>1. <<first>> \in Seq(Nat) /\ <<n>> \in Seq(Nat) /\ <<first, n>> \in Seq(Nat)
      OBVIOUS
    <3> QED BY <3>1, Zenon
  <2>2. Len(a) = 1 /\ a[1] = first /\ Len(b) = 1 /\ b[1] = n /\ Len(c) = 2 /\ c[1] = first /\ c[2] = n
    BY <2>1
  <2>3. PICK d \in Seq(Nat) : d = a \o b /\ Len(d) = 2
    <3>1. a \o b \in Seq(Nat)
      OBVIOUS
    <3>2. Len(a \o b) = Len(a) + Len(b)
      OBVIOUS
    <3>3. Len(a \o b) = 2
      BY <2>2, <3>2
    <3> QED BY <3>1, <3>3
  <2>4. d[1] = first /\ d[2] = n
    BY <2>2, <2>3
  <2>5. \A i \in 1 .. 2 : d[i] = c[i]
    BY <2>2, <2>4
  <2>6. d = c
    BY <2>2, <2>3, <2>5, SeqEqual
  <2> QED BY <2>1, <2>3, <2>6
<1> QED BY <1>1, <1>2, <1>3 DEF Frame

\* Where the body of such a packet is.
LEMMA SmallOpens ==
    ASSUME NEW first \in Nat, NEW rest \in Seq(Nat), Len(rest) < 128, NEW bytes,
           bytes = <<first, Len(rest)>> \o rest
    PROVE  Opens(bytes, first, rest, 2)
<1>1. PICK n \in Nat : n = Len(rest)
  OBVIOUS
<1>2. PICK r : r = remaining_length[n] /\ Len(r) = 1
  <2>1. remaining_length[n] = <<n>>
    BY <1>1, DigitOnly
  <2>2. Len(<<n>>) = 1
    OBVIOUS
  <2> QED BY <2>1, <2>2
<1>3. bytes = Frame(first, rest)
  BY SmallFrame
<1>4. bytes \in Seq(Nat) /\ Len(bytes) = 2 + n
  <2>1. bytes \in Seq(Nat) /\ Len(bytes) = 1 + Len(remaining_length[Len(rest)]) + Len(rest)
    BY <1>3, FrameType
  <2> QED BY <1>1, <1>2, <2>1
<1>5. PICK made : made = [ok |-> TRUE, bytes |-> bytes]
  OBVIOUS
<1>6. made.ok /\ made.bytes = bytes
  BY <1>5
<1>7. PacketMade(made, first, rest)
  BY <1>3, <1>4, <1>5 DEF PacketMade, Msgs
<1>8. PICK o \in Nat : Opens(bytes, first, rest, o)
  BY <1>6, <1>7, PacketOpens
<1>9. o + n = Len(bytes)
  BY <1>1, <1>8 DEF Opens
<1>10. o = 2
  BY <1>4, <1>9
<1> QED BY <1>8, <1>10

----------------------------------------------------------------------------
(* DISCONNECT *)

DisconnectBytes(property) ==
    Number(SESSION_EXPIRY_INTERVAL, property.session_expiry_interval, 4)
    \o UserProperties(property.user_property)

LEMMA DisconnectSays ==
    ASSUME NEW property \in DisconnectSet
    PROVE  \E got : /\ Says(DisconnectBytes(property), got, property.user_property, ConnackProperties)
                    /\ got[SESSION_EXPIRY_INTERVAL] = BigEndianOf(property.session_expiry_interval, 4)
<1>1. property.session_expiry_interval \in Nat /\ property.user_property \in Seq(Pairs)
  BY DEF DisconnectSet
<1>2. PICK i, b, v : /\ i = SESSION_EXPIRY_INTERVAL
                         /\ b = Number(i, property.session_expiry_interval, 4)
                         /\ v = BigEndianOf(property.session_expiry_interval, 4)
  OBVIOUS
<1>3. /\ i \in FourBytes /\ Id(i) /\ i \in ConnackProperties /\ USER_PROPERTY \in ConnackProperties
  BY <1>2, ConnectIds
<1>4. 4 \in {2, 4} /\ (4 = 2 <=> FALSE)
  OBVIOUS
<1>5. Option(b, i, v, ConnackProperties)
  BY <1>1, <1>2, <1>3, <1>4, NumberOption
<1>6. v \in Seq(Nat)
  BY <1>1, <1>2, <1>4, BigEndianOfType
<1>7. SaysOne(b \o UserProperties(property.user_property), i, v, property.user_property,
              ConnackProperties)
  BY <1>1, <1>3, <1>5, <1>6, OneSaid
<1> QED BY <1>2, <1>7, Zenon DEF DisconnectBytes, SaysOne

DisconnectRest(property) == <<property.disconnect_reason>> \o Prefixed(DisconnectBytes(property))

LEMMA DisconnectMade ==
    ASSUME NEW property \in DisconnectSet
    PROVE  PacketMade(mqtt5_msg_disconnect(property), FirstByte(DISCONNECT, 0, 0),
                      DisconnectRest(property))
<1>1. PICK p \in Seq(Nat) : p = DisconnectBytes(property)
  BY DisconnectSays, SaysType
<1>2. PICK code \in Nat : code = property.disconnect_reason
  BY DEF DisconnectSet
<1>3. PICK c \in Seq(Nat) : c = <<code>>
  <2>1. <<code>> \in Seq(Nat)
    OBVIOUS
  <2> QED BY <2>1
<1>4. Built(append(Started, c), <<>> \o c)
  BY BuiltStarted, BuiltAppend
<1>5. Built(append(Started, c), c)
  <2>1. <<>> \o c = c
    OBVIOUS
  <2> QED BY <1>4, <2>1
<1>6. Built(append_properties(append(Started, c), p), c \o Prefixed(p))
  BY <1>5, BuiltProperties
<1>7. FirstByte(DISCONNECT, 0, 0) \in Nat
  BY DEF FirstByte, DISCONNECT
<1>8. PacketMade(fini_message5(append_properties(append(Started, c), p), DISCONNECT, 0, 0, 0),
                 FirstByte(DISCONNECT, 0, 0), c \o Prefixed(p))
  BY <1>6, <1>7, BuiltPacket
<1> QED BY <1>1, <1>2, <1>3, <1>8 DEF mqtt5_msg_disconnect, DisconnectBytes, DisconnectRest

\* A DISCONNECT as ReadBack reads it.
DisconnectReads(bytes, property) ==
    LET read == PropertiesIn(bytes, Start5(bytes, Len(bytes)).offset + 1, ConnackProperties)
    IN  /\ mqtt5_msg_get_reason_code(bytes, Len(bytes)) = property.disconnect_reason
        /\ NumberOf(read.list, SESSION_EXPIRY_INTERVAL, 0) = property.session_expiry_interval
        /\ UserPropertiesOf(read.list) = property.user_property

\* Reading a number and the user properties out of what Reads says.
LEMMA ReadsNumber ==
    ASSUME NEW list, NEW got, NEW users, Reads(list, got, users), NEW id, Id(id),
           NEW number \in Nat, NEW width \in {2, 4}, got[id] = BigEndianOf(number, width)
    PROVE  NumberOf(list, id, 0) = number
<1>1. Given(list) /\ id \in Nat /\ id # USER_PROPERTY /\ Got(list, id) = got[id]
  BY DEF Reads, Id
<1> QED BY <1>1, NumberOptionRead

LEMMA ReasonCodeOf ==
    ASSUME NEW bytes, NEW rest, NEW o, Opens(bytes, FirstByte(DISCONNECT, 0, 0), rest, o),
           Len(rest) >= 1
    PROVE  mqtt5_msg_get_reason_code(bytes, Len(bytes)) = rest[1]
<1>1. FirstByte(DISCONNECT, 0, 0) = 224
  BY DEF FirstByte, DISCONNECT
<1>2. bytes[1] = 224
  BY <1>1 DEF Opens
<1>3. mqtt_get_type(bytes) = 14
  BY <1>2 DEF mqtt_get_type
<1>4. /\ o \in Nat /\ o < Len(bytes) /\ bytes[o + 1] = rest[1]
      /\ 1 + get_variable_len(bytes, 1, Len(bytes)).bytes = o
  <2>1. /\ o \in Nat /\ Len(rest) \in Nat /\ o + Len(rest) = Len(bytes) /\ Len(bytes) \in Nat
        /\ \A i \in 1 .. Len(rest) : bytes[o + i] = rest[i]
    BY DEF Opens, At
  <2>2. 1 \in 1 .. Len(rest)
    BY <2>1
  <2>3. bytes[o + 1] = rest[1]
    BY <2>1, <2>2
  <2>4. o < Len(bytes)
    BY <2>1
  <2>5. 1 + get_variable_len(bytes, 1, Len(bytes)).bytes = o
    BY DEF Opens
  <2> QED BY <2>1, <2>3, <2>4, <2>5
<1>5. /\ mqtt_get_type(bytes) \notin {PUBACK, PUBREC, PUBREL, PUBCOMP}
      /\ mqtt_get_type(bytes) \notin {SUBACK, UNSUBACK} /\ mqtt_get_type(bytes) = DISCONNECT
  BY <1>3 DEF PUBACK, PUBREC, PUBREL, PUBCOMP, SUBACK, UNSUBACK, DISCONNECT
<1>6. PICK l : l = Len(bytes)
  OBVIOUS
<1>7. ~ (o >= l)
  BY <1>4, <1>6 DEF Opens
<1>8. mqtt5_msg_get_reason_code(bytes, l) = bytes[o + 1]
  <2>1. mqtt5_msg_get_reason_code(bytes, l)
            = IF 1 + get_variable_len(bytes, 1, l).bytes >= l THEN 0 - 1
              ELSE bytes[1 + get_variable_len(bytes, 1, l).bytes + 1]
    BY <1>5, Zenon DEF mqtt5_msg_get_reason_code
  <2> QED BY <1>4, <1>6, <1>7, <2>1, Zenon
<1> QED BY <1>4, <1>6, <1>8

LEMMA DisconnectRead ==
    ASSUME NEW property \in DisconnectSet, mqtt5_msg_disconnect(property).ok
    PROVE  DisconnectReads(mqtt5_msg_disconnect(property).bytes, property)
<1>1. PICK made : made = mqtt5_msg_disconnect(property)
  OBVIOUS
<1>2. PICK rest : rest = DisconnectRest(property)
  OBVIOUS
<1>3. PICK first : first = FirstByte(DISCONNECT, 0, 0)
  OBVIOUS
<1>4. PICK bytes : bytes = made.bytes
  OBVIOUS
<1>5. PICK o \in Nat : Opens(bytes, first, rest, o)
  BY <1>1, <1>2, <1>3, <1>4, DisconnectMade, PacketOpens
<1>6. PICK got : /\ Says(DisconnectBytes(property), got, property.user_property, ConnackProperties)
                 /\ got[SESSION_EXPIRY_INTERVAL] = BigEndianOf(property.session_expiry_interval, 4)
  BY DisconnectSays
<1>7. PICK p \in Seq(Nat) : p = DisconnectBytes(property)
  BY <1>6, SaysType
<1>8. PICK s \in Seq(Nat) : s = Prefixed(p)
  BY PrefixedType
<1>9. PICK code \in Nat : code = property.disconnect_reason
  BY DEF DisconnectSet
<1>10. rest = <<code>> \o s
  BY <1>2, <1>7, <1>8, <1>9 DEF DisconnectRest
<1>11. rest[1] = code /\ Len(rest) >= 1
  BY <1>10
<1>12. mqtt5_msg_get_reason_code(bytes, Len(bytes)) = code
  BY <1>3, <1>5, <1>11, ReasonCodeOf
<1>13. bytes \in Seq(Nat) /\ At(bytes, o, <<code>> \o s) /\ Start5(bytes, Len(bytes)).offset = o
  BY <1>5, <1>10 DEF Opens
<1>14. At(bytes, o + 1, s) /\ o + 1 \in Nat
  BY <1>13, HeadAt
<1>15. FoundIn(bytes, o + 1, ConnackProperties, o + 1 + Len(Prefixed(p)), got, property.user_property)
  BY <1>6, <1>7, <1>8, <1>13, <1>14, SectionFound
<1>16. PICK read : read = PropertiesIn(bytes, o + 1, ConnackProperties)
  OBVIOUS
<1>17. Reads(read.list, got, property.user_property)
  BY <1>15, <1>16 DEF FoundIn
<1>18. Id(SESSION_EXPIRY_INTERVAL)
  BY ConnectIds
<1>19. NumberOf(read.list, SESSION_EXPIRY_INTERVAL, 0) = property.session_expiry_interval
  <2>1. property.session_expiry_interval \in Nat /\ 4 \in {2, 4}
    BY DEF DisconnectSet
  <2> QED BY <1>6, <1>17, <1>18, <2>1, ReadsNumber
<1>20. UserPropertiesOf(read.list) = property.user_property
  BY <1>17 DEF Reads
<1>21. Start5(bytes, Len(bytes)).offset + 1 = o + 1
  BY <1>13
<1>22. DisconnectReads(bytes, property)
  BY <1>9, <1>12, <1>16, <1>19, <1>20, <1>21, Zenon DEF DisconnectReads
<1> QED BY <1>1, <1>4, <1>22
=============================================================================
