----------------------------- MODULE WireProofs -----------------------------
(***************************************************************************)
(* Wire implements MessageChannel, for messages of every length, when      *)
(* every send is taken and arrives as a whole.                             *)
(*                                                                         *)
(* What was sent is a sequence of chunks, a header and a body in turn.     *)
(* Some of them have been read, those that follow are in the inbox one     *)
(* after the other, and the rest is under way; so that a reader who takes  *)
(* the length of a chunk gets that chunk.                                  *)
(***************************************************************************)
EXTENDS Wire, TLAPS, SequenceTheorems

-----------------------------------------------------------------------------
(* htonl and ntohl *)

(* A quotient and a remainder. *)
LEMMA DivMod ==
    ASSUME NEW n \in Nat, NEW b \in Nat, b > 0
    PROVE  /\ n \div b \in Nat /\ n % b \in Nat /\ n % b < b
           /\ n = b * (n \div b) + (n % b)
OBVIOUS

(* There is only one such quotient. *)
LEMMA QuotientIs ==
    ASSUME NEW b \in Nat, b > 0, NEW q \in Nat, NEW r \in Nat, r < b,
           NEW q2 \in Nat, NEW r2 \in Nat, r2 < b, b * q + r = b * q2 + r2
    PROVE  q = q2
<1>1. ASSUME NEW x \in Nat, NEW y \in Nat, x < y
      PROVE  b * x + b <= b * y
  <2>1. y - x - 1 \in Nat
    BY <1>1
  <2>2. PICK d \in Nat : d = y - x - 1
    BY <2>1
  <2>3. y = x + 1 + d
    BY <2>2
  <2>4. b * y = b * x + b + b * d
    BY <2>3
  <2>5. b * d \in Nat /\ b * x \in Nat
    OBVIOUS
  <2> QED
    BY <2>4, <2>5
<1>2. ~(q < q2) /\ ~(q2 < q)
  BY <1>1
<1> QED
  BY <1>2

(* Dividing by a product is dividing by one factor and then the other. *)
LEMMA DivDiv ==
    ASSUME NEW n \in Nat, NEW b \in Nat, b > 0, NEW c \in Nat, c > 0
    PROVE  n \div (b * c) = (n \div b) \div c
<1>1. PICK q \in Nat, r \in Nat : n = b * q + r /\ r < b /\ q = n \div b
  BY DivMod
<1>2. PICK q2 \in Nat, r2 \in Nat : q = c * q2 + r2 /\ r2 < c /\ q2 = q \div c
  BY DivMod
<1>3. n = (b * c) * q2 + (b * r2 + r)
  BY <1>1, <1>2
<1>4. b * r2 + r \in Nat /\ b * r2 + r < b * c /\ b * c \in Nat /\ b * c > 0
  <2>1. b * r2 + b <= b * c
    <3>1. c - r2 - 1 \in Nat
      BY <1>2
    <3>2. b * (c - r2 - 1) \in Nat /\ b * (c - r2 - 1) = b * c - b * r2 - b
      BY <3>1
    <3> QED
      BY <3>2
  <2>2. b * r2 \in Nat /\ b * c \in Nat
    OBVIOUS
  <2> QED
    BY <1>1, <2>1, <2>2
<1>5. PICK m \in Nat : m = b * c
  BY <1>4
<1>6. n = m * (n \div m) + (n % m) /\ n \div m \in Nat /\ n % m \in Nat /\ n % m < m
  BY <1>4, <1>5, DivMod
<1>7. q2 = n \div m
  BY <1>3, <1>4, <1>5, <1>6, QuotientIs
<1> QED
  BY <1>1, <1>2, <1>5, <1>7

(* PING consists of text. *)
LEMMA PingIsText == \A k \in 1..4 : PingBytes[k] \in Text
<1>1. PICK ping : ping = PingBytes
  OBVIOUS
<1>2. ping \in Seq(Text) /\ Len(ping) = 4
  BY <1>1, WireAssumption
<1>3. \A k \in 1..Len(ping) : ping[k] \in Text
  BY <1>2, ElementOfSeq
<1> QED
  BY <1>1, <1>2, <1>3

(* There is text, since PING consists of it. *)
LEMMA BaseIsPositive == Base \in Nat /\ Base > 1
<1>1. PingBytes[1] \in Text
  BY WireAssumption, PingIsText
<1>2. Base \in Nat /\ PingBytes[1] \in 1..(Base - 1)
  BY <1>1, WireAssumption
<1> QED
  BY <1>2

(* A header is four bytes, and ntohl is the inverse of htonl. *)
LEMMA HeaderIs ==
    ASSUME NEW n \in Nat
    PROVE  Header(n) \in Seq(Nat) /\ Len(Header(n)) = 4 /\ Length(Header(n)) = n
<1>1. Base \in Nat /\ Base > 0
  BY BaseIsPositive
<1>2. PICK B : B = Base
  OBVIOUS
<1>3. PICK a \in Nat, r0 \in Nat : a = n \div B /\ r0 = n % B /\ n = B * a + r0
  BY <1>1, <1>2, DivMod
<1>4. PICK c \in Nat, r1 \in Nat : c = a \div B /\ r1 = a % B /\ a = B * c + r1
  BY <1>1, <1>2, DivMod
<1>5. PICK d \in Nat, r2 \in Nat : d = c \div B /\ r2 = c % B /\ c = B * d + r2
  BY <1>1, <1>2, DivMod
<1>6. B * B \in Nat /\ B * B > 0
  BY <1>1, <1>2
<1>7. n \div (B * B) = c
  BY <1>1, <1>2, <1>3, <1>4, DivDiv
<1>8. n \div (B * B * B) = d
  <2>1. PICK S \in Nat : S = B * B /\ S > 0
    BY <1>6
  <2>2. n \div (S * B) = (n \div S) \div B
    BY <1>1, <1>2, <2>1, DivDiv
  <2> QED
    BY <1>5, <1>7, <2>1, <2>2
<1>9. Header(n) = <<d, r2, r1, r0>>
  BY <1>2, <1>3, <1>4, <1>5, <1>7, <1>8 DEF Header
<1>10. PICK h : h = <<d, r2, r1, r0>>
  OBVIOUS
<1>11. h \in Seq(Nat) /\ Len(h) = 4 /\ h[1] = d /\ h[2] = r2 /\ h[3] = r1 /\ h[4] = r0
  BY <1>10
<1>12. Length(h) = ((d * B + r2) * B + r1) * B + r0
  BY <1>2, <1>11 DEF Length
<1>13. ((d * B + r2) * B + r1) * B + r0 = n
  <2>1. d * B + r2 = c
    BY <1>1, <1>2, <1>5
  <2>2. c * B + r1 = a
    BY <1>1, <1>2, <1>4
  <2>3. a * B + r0 = n
    BY <1>1, <1>2, <1>3
  <2> QED
    BY <2>1, <2>2, <2>3
<1> QED
  BY <1>9, <1>10, <1>11, <1>12, <1>13

(* The bytes of PING are a length above the limit. *)
LEMMA PingIsTooLong ==
    ~ValidLength(Length(PingBytes))
<1>1. PICK a, b, c, d : a = PingBytes[1] /\ b = PingBytes[2]
                        /\ c = PingBytes[3] /\ d = PingBytes[4]
  OBVIOUS
<1>2. a \in Text /\ b \in Text /\ c \in Text /\ d \in Text
  BY <1>1, PingIsText
<1>3. a \in Nat /\ b \in Nat /\ c \in Nat /\ d \in Nat /\ a > 0
  BY <1>2, WireAssumption
<1>4. Length(PingBytes) = ((a * Base + b) * Base + c) * Base + d
  BY <1>1, WireAssumption DEF Length
<1>5. PICK B \in Nat : B = Base /\ B > 1
  BY BaseIsPositive
<1>6. MAX_MESSAGE_SIZE < a * B * B /\ MAX_MESSAGE_SIZE >= a * B
  BY <1>2, <1>5, WireAssumption
<1>7. PICK u \in Nat : u = a * B * B
  BY <1>3, <1>5
<1>8. ((a * B + b) * B + c) * B + d = u * B + (b * B * B + c * B + d)
  BY <1>3, <1>5, <1>7
<1>9. b * B * B + c * B + d \in Nat
  BY <1>3, <1>5
<1>10. PICK v \in Nat : v = u * B /\ v >= u
  BY <1>5, <1>7
<1>11. PICK w \in Nat : w = b * B * B + c * B + d
  BY <1>9
<1>12. Length(PingBytes) = v + w
  BY <1>4, <1>5, <1>8, <1>10, <1>11
<1>13. MAX_MESSAGE_SIZE \in Nat /\ MAX_MESSAGE_SIZE < u
  BY <1>6, <1>7, WireAssumption
<1> QED
  BY <1>10, <1>12, <1>13 DEF ValidLength

-----------------------------------------------------------------------------
(* Chunks in a row *)

(***************************************************************************)
(* x consists of the chunks R + 1 to a of C, the k-th of which begins      *)
(* after P[k] bytes.                                                       *)
(***************************************************************************)
LaidAt(P, x, C, R, a) ==
    /\ P \in [(R + 1)..(a + 1) -> Nat]
    /\ P[R + 1] = 0 /\ P[a + 1] = Len(x)
    /\ \A k, l \in (R + 1)..(a + 1) : k <= l => P[k] <= P[l]
    /\ \A k \in (R + 1)..a : P[k + 1] = P[k] + Len(C[k])
    /\ \A k \in (R + 1)..a : \A i \in 1..Len(C[k]) : x[P[k] + i] = C[k][i]

Laid(x, C, R, a) == \E P : LaidAt(P, x, C, R, a)

(* No chunks are no bytes. *)
LEMMA NothingLaid ==
    ASSUME NEW C, NEW R \in Nat
    PROVE  /\ Laid(<< >>, C, R, R)
           /\ \A x : Laid(x, C, R, R) => Len(x) = 0
<1>1. (R + 1)..(R + 1) = {R + 1} /\ (R + 1)..R = {}
  OBVIOUS
<1>2. LaidAt([k \in {R + 1} |-> 0], << >>, C, R, R)
  BY <1>1 DEF LaidAt
<1>3. \A x : Laid(x, C, R, R) => Len(x) = 0
  BY DEF Laid, LaidAt
<1> QED
  BY <1>2, <1>3 DEF Laid

(* Chunks that are sent later do not matter. *)
LEMMA LaterChunks ==
    ASSUME NEW x, NEW C, NEW D, NEW R \in Nat, NEW a \in Nat, Laid(x, C, R, a),
           \A k \in 1..a : D[k] = C[k]
    PROVE  Laid(x, D, R, a)
<1>1. \A k \in (R + 1)..a : D[k] = C[k]
  OBVIOUS
<1>2. PICK P : LaidAt(P, x, C, R, a)
  BY DEF Laid
<1>3. ASSUME NEW k \in (R + 1)..a
      PROVE  /\ P[k + 1] = P[k] + Len(D[k])
             /\ \A i \in 1..Len(D[k]) : x[P[k] + i] = D[k][i]
  <2>1. D[k] = C[k]
    BY <1>1
  <2>2. /\ P[k + 1] = P[k] + Len(C[k])
        /\ \A i \in 1..Len(C[k]) : x[P[k] + i] = C[k][i]
    BY <1>2 DEF LaidAt
  <2> QED
    BY <2>1, <2>2
<1>4. LaidAt(P, x, D, R, a)
  BY <1>2, <1>3 DEF LaidAt
<1> QED
  BY <1>4 DEF Laid

(* A place in a chunk of z bytes that ends after e of n bytes. *)
LEMMA WithinBytes ==
    ASSUME NEW p \in Nat, NEW e \in Nat, NEW n \in Nat, NEW z \in Nat, e <= n,
           e = p + z, NEW i \in 1..z
    PROVE  p + i \in 1..n
OBVIOUS

(* The same with n bytes less before it. *)
LEMMA Shifted ==
    ASSUME NEW p \in Nat, NEW e \in Nat, NEW n \in Nat, NEW z \in Nat, n <= p,
           e = p + z
    PROVE  /\ p - n \in Nat /\ e - n \in Nat /\ e - n = (p - n) + z
           /\ \A i \in 1..z : n + (p - n + i) = p + i
OBVIOUS

(* The next chunk arrives. *)
LEMMA ChunkArrives ==
    ASSUME NEW x \in Seq(Nat), NEW C, NEW R \in Nat, NEW a \in Nat, R <= a,
           Laid(x, C, R, a), \A k \in 1..(a + 1) : C[k] \in Seq(Nat)
    PROVE  Laid(x \o C[a + 1], C, R, a + 1)
<1>1. PICK P : LaidAt(P, x, C, R, a)
  BY DEF Laid
<1>2. PICK c \in Seq(Nat) : c = C[a + 1]
  OBVIOUS
<1>3. PICK y \in Seq(Nat) : y = x \o c
  BY ConcatProperties
<1>4. PICK n \in Nat, m \in Nat : n = Len(x) /\ m = Len(c)
  BY LenProperties
<1>5. /\ Len(y) = n + m
      /\ \A i \in 1..n : y[i] = x[i]
      /\ \A i \in 1..m : y[n + i] = c[i]
  <2>1. Len(y) = n + m
    BY <1>3, <1>4
  <2>2. \A i \in 1..(n + m) : y[i] = IF i <= n THEN x[i] ELSE c[i - n]
    BY <1>3, <1>4
  <2>3. \A i \in 1..n : i \in 1..(n + m) /\ i <= n
    OBVIOUS
  <2>4. \A i \in 1..m : n + i \in 1..(n + m) /\ ~(n + i <= n) /\ n + i - n = i
    OBVIOUS
  <2>5. ASSUME NEW i \in 1..n PROVE y[i] = x[i]
    BY <2>2, <2>3
  <2>6. ASSUME NEW i \in 1..m PROVE y[n + i] = c[i]
    <3>1. PICK w : w = n + i
      OBVIOUS
    <3>2. w \in 1..(n + m) /\ ~(w <= n) /\ w - n = i
      BY <2>4, <3>1
    <3>3. y[w] = IF w <= n THEN x[w] ELSE c[w - n]
      BY <2>2, <3>2
    <3> QED
      BY <3>1, <3>2, <3>3
  <2> QED
    BY <2>1, <2>5, <2>6
<1>6. PICK Q : Q = [k \in (R + 1)..(a + 2) |-> IF k = a + 2 THEN n + m ELSE P[k]]
  OBVIOUS
<1>7. \A k \in (R + 1)..(a + 1) : k \in (R + 1)..(a + 2) /\ Q[k] = P[k] /\ P[k] \in Nat
  <2>1. \A k \in (R + 1)..(a + 1) : k \in (R + 1)..(a + 2) /\ k # a + 2
    OBVIOUS
  <2> QED
    BY <1>1, <1>6, <2>1 DEF LaidAt
<1>8. Q[a + 2] = n + m /\ n + m \in Nat /\ n <= n + m
  BY <1>6
<1>9. \A k \in (R + 1)..(a + 1) : P[k] <= n
  <2>1. \A k \in (R + 1)..(a + 1) : k <= a + 1 /\ a + 1 \in (R + 1)..(a + 1)
    OBVIOUS
  <2> QED
    BY <1>1, <1>4, <2>1 DEF LaidAt
<1>10. Q \in [(R + 1)..(a + 2) -> Nat]
  <2>1. \A k \in (R + 1)..(a + 2) : k = a + 2 \/ k \in (R + 1)..(a + 1)
    OBVIOUS
  <2>2. \A k \in (R + 1)..(a + 2) : Q[k] \in Nat
    <3> SUFFICES ASSUME NEW k \in (R + 1)..(a + 2) PROVE Q[k] \in Nat
      OBVIOUS
    <3>1. CASE k = a + 2
      BY <1>8, <3>1
    <3>2. CASE k \in (R + 1)..(a + 1)
      BY <1>7, <3>2
    <3> QED
      BY <2>1, <3>1, <3>2
  <2> QED
    BY <1>6, <2>2
<1>11. Q[R + 1] = 0
  BY <1>1, <1>7 DEF LaidAt
<1>12. ASSUME NEW k \in (R + 1)..(a + 2), NEW l \in (R + 1)..(a + 2), k <= l
       PROVE  Q[k] <= Q[l]
  <2>1. CASE l = a + 2
    <3>1. k = a + 2 \/ k \in (R + 1)..(a + 1)
      OBVIOUS
    <3>2. CASE k = a + 2
      BY <1>8, <2>1, <3>2
    <3>3. CASE k \in (R + 1)..(a + 1)
      <4>1. Q[k] \in Nat /\ Q[k] <= n
        BY <1>7, <1>9, <3>3
      <4> QED
        BY <1>8, <2>1, <4>1
    <3> QED
      BY <3>1, <3>2, <3>3
  <2>2. CASE l # a + 2
    <3>1. k \in (R + 1)..(a + 1) /\ l \in (R + 1)..(a + 1)
      BY <1>12, <2>2
    <3>2. P[k] <= P[l]
      BY <1>1, <1>12, <3>1 DEF LaidAt
    <3> QED
      BY <1>7, <3>1, <3>2
  <2> QED
    BY <2>1, <2>2
<1>13. P[a + 1] = n
  BY <1>1, <1>4 DEF LaidAt
<1>14. ASSUME NEW k \in (R + 1)..(a + 1)
       PROVE  /\ Q[k + 1] = Q[k] + Len(C[k])
              /\ \A i \in 1..Len(C[k]) : y[Q[k] + i] = C[k][i]
  <2>1. CASE k = a + 1
    <3>1. Q[k] = n /\ Q[k + 1] = n + m /\ C[k] = c
      <4>1. k + 1 = a + 2
        BY <2>1
      <4> QED
        BY <1>2, <1>7, <1>8, <1>13, <2>1, <4>1
    <3> QED
      BY <1>4, <1>5, <3>1
  <2>2. CASE k # a + 1
    <3>1. k \in (R + 1)..a /\ k + 1 \in (R + 1)..(a + 1)
      BY <2>2
    <3>2. Q[k] = P[k] /\ Q[k + 1] = P[k + 1] /\ P[k] \in Nat /\ P[k + 1] \in Nat
      BY <1>7, <3>1
    <3>3. P[k + 1] = P[k] + Len(C[k])
      BY <1>1, <3>1 DEF LaidAt
    <3>4. ASSUME NEW i \in 1..Len(C[k])
          PROVE  y[Q[k] + i] = C[k][i]
      <4>1. x[P[k] + i] = C[k][i]
        BY <1>1, <3>1 DEF LaidAt
      <4>2. PICK p \in Nat, e \in Nat : p = P[k] /\ e = P[k + 1] /\ e <= n
        BY <1>9, <3>1, <3>2
      <4>3. PICK z \in Nat : z = Len(C[k])
        <5>1. k \in 1..(a + 1)
          BY <3>1
        <5> QED
          BY <5>1, LenProperties
      <4>4. i \in 1..z /\ e = p + z
        BY <3>3, <4>2, <4>3
      <4>5. p + i \in 1..n
        BY <4>2, <4>4, WithinBytes
      <4>6. PICK w \in 1..n : w = p + i
        BY <4>5
      <4>7. y[w] = x[w]
        BY <1>5
      <4> QED
        BY <3>2, <4>1, <4>2, <4>6, <4>7
    <3> QED
      BY <3>2, <3>3, <3>4
  <2> QED
    BY <2>1, <2>2
<1>15. a + 1 + 1 = a + 2 /\ Q[a + 2] = Len(y)
  BY <1>5, <1>8
<1>16. LaidAt(Q, y, C, R, a + 1)
  BY <1>10, <1>11, <1>12, <1>14, <1>15 DEF LaidAt
<1> QED
  BY <1>2, <1>3, <1>16 DEF Laid

(***************************************************************************)
(* The first chunk is read: who takes as many bytes as it has takes the    *)
(* chunk, and the others are what is left.                                 *)
(***************************************************************************)
LEMMA ChunkRead ==
    ASSUME NEW x \in Seq(Nat), NEW C, NEW R \in Nat, NEW a \in Nat, R < a,
           Laid(x, C, R, a), \A k \in 1..a : C[k] \in Seq(Nat),
           NEW n, n = Len(C[R + 1]), NEW y \in Seq(Nat),
           Len(y) = Len(x) - n, \A i \in 1..Len(y) : y[i] = x[n + i]
    PROVE  Laid(y, C, R + 1, a)
<1>1. PICK P : LaidAt(P, x, C, R, a)
  BY DEF Laid
<1>2. n \in Nat
  <2>1. R + 1 \in 1..a
    OBVIOUS
  <2> QED
    BY <2>1, LenProperties
<1>3. P[R + 2] = n
  <2>1. R + 1 \in (R + 1)..a /\ R + 1 + 1 = R + 2
    OBVIOUS
  <2>2. P[R + 1 + 1] = P[R + 1] + Len(C[R + 1]) /\ P[R + 1] = 0
    BY <1>1, <2>1 DEF LaidAt
  <2> QED
    BY <1>2, <2>1, <2>2
<1>4. ASSUME NEW k \in (R + 2)..(a + 1)
      PROVE  k \in (R + 1)..(a + 1) /\ P[k] \in Nat /\ n <= P[k] /\ P[k] - n \in Nat
  <2>1. k \in (R + 1)..(a + 1) /\ R + 2 \in (R + 1)..(a + 1) /\ R + 2 <= k
    OBVIOUS
  <2>2. P[k] \in Nat /\ P[R + 2] <= P[k]
    BY <1>1, <2>1 DEF LaidAt
  <2> QED
    BY <1>2, <1>3, <2>1, <2>2
<1>5. PICK Q : Q = [k \in (R + 2)..(a + 1) |-> P[k] - n]
  OBVIOUS
<1>6. \A k \in (R + 2)..(a + 1) : Q[k] = P[k] - n
  BY <1>5
<1>7. Q \in [(R + 2)..(a + 1) -> Nat]
  BY <1>4, <1>5
<1>8. Q[R + 2] = 0
  <2>1. R + 2 \in (R + 2)..(a + 1)
    OBVIOUS
  <2> QED
    BY <1>2, <1>3, <1>6, <2>1
<1>9. Q[a + 1] = Len(y)
  <2>1. a + 1 \in (R + 2)..(a + 1)
    OBVIOUS
  <2> QED
    BY <1>1, <1>6, <2>1 DEF LaidAt
<1>10. ASSUME NEW k \in (R + 2)..(a + 1), NEW l \in (R + 2)..(a + 1), k <= l
       PROVE  Q[k] <= Q[l]
  <2>1. P[k] <= P[l]
    BY <1>1, <1>4, <1>10 DEF LaidAt
  <2>2. P[k] \in Nat /\ P[l] \in Nat
    BY <1>4
  <2> QED
    BY <1>2, <1>6, <2>1, <2>2
<1>11. ASSUME NEW k \in (R + 2)..a
       PROVE  /\ Q[k + 1] = Q[k] + Len(C[k])
              /\ \A i \in 1..Len(C[k]) : y[Q[k] + i] = C[k][i]
  <2>1. /\ k \in (R + 1)..a /\ k \in 1..a
        /\ k \in (R + 2)..(a + 1) /\ k + 1 \in (R + 2)..(a + 1)
    OBVIOUS
  <2>2. PICK z \in Nat : z = Len(C[k])
    BY <2>1, LenProperties
  <2>3. PICK p \in Nat, e \in Nat : p = P[k] /\ e = P[k + 1] /\ n <= p /\ n <= e
    BY <1>4, <2>1
  <2>4. e = p + z
    BY <1>1, <2>1, <2>2, <2>3 DEF LaidAt
  <2>5. \A i \in 1..z : x[p + i] = C[k][i]
    BY <1>1, <2>1, <2>2, <2>3 DEF LaidAt
  <2>6. Q[k] = p - n /\ Q[k + 1] = e - n
    BY <1>6, <2>1, <2>3
  <2>7. p \in Nat /\ e \in Nat /\ z \in Nat /\ n \in Nat /\ n <= p
    BY <1>2, <2>3
  <2>8. /\ p - n \in Nat /\ e - n \in Nat /\ e - n = (p - n) + z
         /\ \A i \in 1..z : n + (p - n + i) = p + i
    BY ONLY <2>4, <2>7, Shifted
  <2>9. Q[k + 1] = Q[k] + z
    BY <2>6, <2>8
  <2>10. PICK m \in Nat : m = Len(y)
    BY LenProperties
  <2>11. e - n <= m
    <3>1. a + 1 \in (R + 2)..(a + 1) /\ k + 1 <= a + 1
      OBVIOUS
    <3> QED
      BY <1>9, <1>10, <2>1, <2>6, <2>10, <3>1
  <2>12. ASSUME NEW i \in 1..z
        PROVE  y[Q[k] + i] = C[k][i]
    <3>1. PICK w : w = p - n + i
      OBVIOUS
    <3>2. w \in 1..m
      <4>1. PICK u \in Nat, v \in Nat : u = p - n /\ v = e - n /\ v = u + z
        BY <2>8
      <4> QED
        BY <2>10, <2>11, <3>1, <4>1, WithinBytes
    <3>3. n + w = p + i
      BY <2>8, <3>1
    <3>4. y[w] = x[n + w]
      BY <2>10, <3>2
    <3> QED
      BY <2>5, <2>6, <3>1, <3>3, <3>4
  <2> QED
    BY <2>2, <2>9, <2>12
<1>12. R + 1 + 1 = R + 2
  OBVIOUS
<1>13. LaidAt(Q, y, C, R + 1, a)
  BY <1>7, <1>8, <1>9, <1>10, <1>11, <1>12 DEF LaidAt
<1> QED
  BY <1>13 DEF Laid

(* The first chunk is all there. *)
LEMMA FirstChunk ==
    ASSUME NEW x \in Seq(Nat), NEW C, NEW R \in Nat, NEW a \in Nat, R < a,
           Laid(x, C, R, a), \A k \in 1..a : C[k] \in Seq(Nat),
           NEW n, n = Len(C[R + 1])
    PROVE  n <= Len(x) /\ SubSeq(x, 1, n) = C[R + 1]
<1>1. PICK P : LaidAt(P, x, C, R, a)
  BY DEF Laid
<1>2. PICK c \in Seq(Nat) : c = C[R + 1]
  <2>1. R + 1 \in 1..a
    OBVIOUS
  <2> QED
    BY <2>1
<1>3. n \in Nat /\ n = Len(c)
  BY <1>2, LenProperties
<1>4. R + 1 \in (R + 1)..a /\ R + 2 \in (R + 1)..(a + 1)
      /\ a + 1 \in (R + 1)..(a + 1) /\ R + 2 <= a + 1 /\ R + 1 + 1 = R + 2
  OBVIOUS
<1>5. /\ P[R + 1] = 0 /\ P[R + 2] = 0 + n /\ P[R + 2] <= Len(x)
      /\ \A i \in 1..n : x[0 + i] = c[i]
  BY <1>1, <1>2, <1>3, <1>4 DEF LaidAt
<1>6. n <= Len(x) /\ \A i \in 1..n : x[i] = c[i]
  BY <1>3, <1>5
<1>7. PICK m \in Nat : m = Len(x)
  BY LenProperties
<1>8. PICK s : s = SubSeq(x, 1, n)
  OBVIOUS
<1>9. \A i \in 1..n : i \in 1..m
  BY <1>3, <1>6, <1>7
<1>10. s \in Seq(Nat) /\ Len(s) = n /\ \A i \in 1..n : s[i] = x[i]
  BY <1>3, <1>6, <1>7, <1>8, <1>9, SubSeqProperties
<1>11. s = c
  BY <1>3, <1>6, <1>10, SeqEqual
<1> QED
  BY <1>2, <1>6, <1>8, <1>11

-----------------------------------------------------------------------------
(* From the sender to the inbox *)

(***************************************************************************)
(* The chunks that have been sent are C, of which R are read; x has        *)
(* arrived, and w is what is under way.                                    *)
(***************************************************************************)
InTransit(C, R, x, w) ==
    \E a \in Nat : /\ R <= a /\ Len(C) = a + Len(w)
                   /\ \A i \in 1..Len(w) : w[i] = C[a + i]
                   /\ Laid(x, C, R, a)

(* One more is sent. *)
LEMMA ChunkSent ==
    ASSUME NEW C \in Seq(Seq(Nat)), NEW w \in Seq(Seq(Nat)), NEW x, NEW R \in Nat,
           InTransit(C, R, x, w), NEW c \in Seq(Nat)
    PROVE  InTransit(Append(C, c), R, x, Append(w, c))
<1>1. PICK a \in Nat : /\ R <= a /\ Len(C) = a + Len(w)
                       /\ \A i \in 1..Len(w) : w[i] = C[a + i]
                       /\ Laid(x, C, R, a)
  BY DEF InTransit
<1>2. PICK n \in Nat : n = Len(w)
  BY LenProperties
<1>3. PICK D, v : D = Append(C, c) /\ v = Append(w, c)
  OBVIOUS
<1>4. Len(C) = a + n
  BY <1>1, <1>2
<1>5. /\ Len(D) = a + n + 1 /\ \A k \in 1..(a + n) : D[k] = C[k]
      /\ D[a + n + 1] = c
  BY <1>3, <1>4, AppendProperties
<1>6. Len(v) = n + 1 /\ (\A k \in 1..n : v[k] = w[k]) /\ v[n + 1] = c
  BY <1>2, <1>3, AppendProperties
<1>7. ASSUME NEW i \in 1..(n + 1)
      PROVE  v[i] = D[a + i]
  <2>1. CASE i = n + 1
    <3>1. a + i = a + n + 1
      BY <2>1
    <3> QED
      BY <1>5, <1>6, <2>1, <3>1
  <2>2. CASE i # n + 1
    <3>1. i \in 1..n /\ a + i \in 1..(a + n)
      BY <2>2
    <3>2. v[i] = w[i] /\ w[i] = C[a + i] /\ D[a + i] = C[a + i]
      BY <1>1, <1>2, <1>5, <1>6, <3>1
    <3> QED
      BY <3>2
  <2> QED
    BY <2>1, <2>2
<1>8. Laid(x, D, R, a)
  <2>1. \A k \in 1..a : k \in 1..(a + n)
    OBVIOUS
  <2>2. \A k \in 1..a : D[k] = C[k]
    BY <1>5, <2>1
  <2> QED
    BY <1>1, <2>2, LaterChunks
<1>9. Len(D) = a + Len(v)
  BY <1>5, <1>6
<1>10. \A i \in 1..Len(v) : v[i] = D[a + i]
  BY <1>6, <1>7
<1>11. InTransit(D, R, x, v)
  BY <1>1, <1>8, <1>9, <1>10 DEF InTransit
<1> QED
  BY <1>3, <1>11

(* The first of those under way arrives. *)
LEMMA HeadArrives ==
    ASSUME NEW C \in Seq(Seq(Nat)), NEW w \in Seq(Seq(Nat)), NEW x \in Seq(Nat),
           NEW R \in Nat, InTransit(C, R, x, w), w # << >>
    PROVE  /\ Head(w) \in Seq(Nat) /\ x \o Head(w) \in Seq(Nat)
           /\ Tail(w) \in Seq(Seq(Nat))
           /\ InTransit(C, R, x \o Head(w), Tail(w))
<1>1. PICK a \in Nat : /\ R <= a /\ Len(C) = a + Len(w)
                       /\ \A i \in 1..Len(w) : w[i] = C[a + i]
                       /\ Laid(x, C, R, a)
  BY DEF InTransit
<1>2. PICK v : v = Tail(w)
  OBVIOUS
<1>3. PICK n \in Nat : n = Len(v)
  <2>1. v \in Seq(Seq(Nat))
    BY <1>2
  <2> QED
    BY <2>1, LenProperties
<1>4. Len(w) = n + 1
  <2>1. Len(v) = Len(w) - 1 /\ Len(w) \in Nat
    BY <1>2, HeadTailProperties, LenProperties
  <2> QED
    BY <1>3, <2>1
<1>5. v \in Seq(Seq(Nat)) /\ \A i \in 1..n : v[i] = w[i + 1]
  BY <1>2, <1>3, HeadTailProperties
<1>6. PICK c : c = Head(w)
  OBVIOUS
<1>7. c \in Seq(Nat) /\ c = w[1]
  BY <1>6
<1>8. c = C[a + 1]
  <2>1. 1 \in 1..Len(w)
    BY <1>4
  <2> QED
    BY <1>1, <1>7, <2>1
<1>9. \A k \in 1..(a + 1) : C[k] \in Seq(Nat)
  <2>1. \A k \in 1..(a + 1) : k \in 1..Len(C)
    BY <1>1, <1>4
  <2> QED
    BY <2>1, ElementOfSeq
<1>10. Laid(x \o c, C, R, a + 1)
  BY <1>1, <1>8, <1>9, ChunkArrives
<1>11. ASSUME NEW i \in 1..n
       PROVE  v[i] = C[(a + 1) + i]
  <2>1. i + 1 \in 1..Len(w) /\ a + (i + 1) = (a + 1) + i
    BY <1>4
  <2>2. w[i + 1] = C[a + (i + 1)]
    BY <1>1, <2>1
  <2> QED
    BY <1>5, <2>1, <2>2
<1>12. Len(C) = (a + 1) + n /\ R <= a + 1 /\ a + 1 \in Nat
  BY <1>1, <1>4
<1>13. InTransit(C, R, x \o c, v)
  BY <1>3, <1>10, <1>11, <1>12 DEF InTransit
<1>14. x \o c \in Seq(Nat)
  BY <1>7, ConcatProperties
<1> QED
  BY <1>2, <1>5, <1>6, <1>7, <1>13, <1>14

(* y is what follows the first n bytes of x. *)
Follows(y, x, n) ==
    Len(y) = Len(x) - n /\ \A i \in 1..Len(y) : y[i] = x[n + i]

(***************************************************************************)
(* When something has arrived, the first chunk not read is there, and      *)
(* reading as many bytes as it has leaves the others.                      *)
(***************************************************************************)
LEMMA ChunkIsThere ==
    ASSUME NEW C \in Seq(Seq(Nat)), NEW w \in Seq(Seq(Nat)), NEW x \in Seq(Nat),
           NEW R \in Nat, InTransit(C, R, x, w), x # << >>,
           NEW n, n = Len(C[R + 1])
    PROVE  /\ R + 1 \in 1..Len(C) /\ n \in Nat
           /\ n <= Len(x) /\ SubSeq(x, 1, n) = C[R + 1]
           /\ \A y \in Seq(Nat) : Follows(y, x, n) => InTransit(C, R + 1, y, w)
<1>1. PICK a \in Nat : /\ R <= a /\ Len(C) = a + Len(w)
                       /\ \A i \in 1..Len(w) : w[i] = C[a + i]
                       /\ Laid(x, C, R, a)
  BY DEF InTransit
<1>2. R < a
  <2>1. R # a
    <3>1. Len(x) # 0
      BY EmptySeq
    <3> QED
      BY <1>1, <3>1, NothingLaid
  <2> QED
    BY <1>1, <2>1
<1>3. Len(w) \in Nat
  BY LenProperties
<1>4. R + 1 \in 1..Len(C)
  <2>1. PICK m \in Nat : m = Len(w)
    BY <1>3
  <2>2. Len(C) = a + m
    BY <1>1, <2>1
  <2>3. R + 1 \in 1..(a + m)
    BY <1>2
  <2> QED
    BY <2>2, <2>3
<1>5. \A k \in 1..a : C[k] \in Seq(Nat)
  <2>1. PICK m \in Nat : m = Len(w)
    BY <1>3
  <2>2. Len(C) = a + m
    BY <1>1, <2>1
  <2>3. \A k \in 1..a : k \in 1..(a + m)
    OBVIOUS
  <2> QED
    BY <2>2, <2>3, ElementOfSeq
<1>6. n \in Nat
  BY <1>4, LenProperties, ElementOfSeq
<1>7. n <= Len(x) /\ SubSeq(x, 1, n) = C[R + 1]
  <2>1. Laid(x, C, R, a) /\ n = Len(C[R + 1]) /\ R \in Nat /\ a \in Nat /\ x \in Seq(Nat)
    BY <1>1
  <2> QED
    BY ONLY <1>2, <1>5, <2>1, FirstChunk
<1>8. ASSUME NEW y \in Seq(Nat), Follows(y, x, n)
      PROVE  InTransit(C, R + 1, y, w)
  <2>1. Laid(y, C, R + 1, a)
    <3>1. Laid(x, C, R, a) /\ n = Len(C[R + 1]) /\ R \in Nat /\ a \in Nat
          /\ x \in Seq(Nat) /\ y \in Seq(Nat)
      BY <1>1
    <3> QED
      BY ONLY <1>2, <1>5, <1>8, <3>1, ChunkRead DEF Follows
  <2>2. R + 1 <= a
    BY <1>2
  <2> QED
    BY <1>1, <2>1, <2>2 DEF InTransit
<1> QED
  BY <1>4, <1>6, <1>7, <1>8

-----------------------------------------------------------------------------
(* The invariant *)

(* sendMessage has sent a header and not yet the body. *)
HalfSent == IF sender = "body" THEN 1 ELSE 0

(* How many chunks recvMessage has read. *)
ChunksRead == 2 * Len(received) + (IF reader = "body" THEN 1 ELSE 0)

SenderInv ==
    /\ sender \in {"idle", "body", "probe"}
    /\ calls \in Nat /\ calls <= MaxMessages
    /\ sent \in Seq(Message)
    /\ Len(sent) + HalfSent <= calls
    /\ sender = "body" => message \in Message
    /\ sender = "probe" => calls = 0

ReaderInv ==
    /\ reader \in {"header", "body", "closed"}
    /\ received \in Seq(Message)
    /\ inbox \in Seq(Nat)
    /\ net \in Seq(Seq(Nat))

(* The chunks: a header and a body for each message. *)
ChunksAre(C) ==
    /\ C \in Seq(Seq(Nat))
    /\ Len(C) = 2 * Len(sent) + HalfSent
    /\ \A j \in 1..Len(sent) : /\ C[2 * j - 1] = Header(Len(sent[j]))
                               /\ C[2 * j] = sent[j]
    /\ sender = "body" => C[2 * Len(sent) + 1] = Header(Len(message))

(* What recvMessage takes for the length is what the header said. *)
LengthIs(C, R, place, n) == place = "body" => n \in Nat /\ C[R] = Header(n)

StreamInv ==
    /\ sender # "probe"
    /\ \E C : /\ ChunksAre(C) /\ LengthIs(C, ChunksRead, reader, len)
              /\ InTransit(C, ChunksRead, inbox, net)

(* The bytes of a probe, which are never taken for a length. *)
ProbeInv ==
    /\ sender = "probe" /\ reader = "header"
    /\ \/ net = <<PingBytes>> /\ inbox = << >>
       \/ net = << >> /\ inbox = PingBytes

WireInv ==
    SenderInv /\ ReaderInv /\ (reader = "closed" \/ ProbeInv \/ StreamInv)

(* Messages and the bytes of PING are bytes. *)
LEMMA TextIsBytes ==
    Message \subseteq Seq(Nat) /\ PingBytes \in Seq(Nat)
<1>1. Text \subseteq Nat
  BY WireAssumption
<1>2. \A s \in Seq(Text) : s \in Seq(Nat)
  BY <1>1, SeqMonotonic
<1> QED
  BY <1>2, WireAssumption

(* Nothing is sent and nothing is under way. *)
LEMMA WireInvInit == ASSUME Init PROVE WireInv
<1> USE DEF Init
<1>1. SenderInv
  BY WireAssumption DEF SenderInv, HalfSent
<1>2. ReaderInv
  BY DEF ReaderInv
<1>3. ChunksRead = 0
  BY DEF ChunksRead
<1>4. InTransit(<< >>, 0, << >>, << >>)
  BY NothingLaid DEF InTransit
<1>5. ChunksAre(<< >>) /\ LengthIs(<< >>, 0, reader, len)
  BY DEF ChunksAre, LengthIs, HalfSent
<1>6. StreamInv
  BY <1>3, <1>4, <1>5 DEF StreamInv
<1> QED
  BY <1>1, <1>2, <1>6 DEF WireInv

(* What is known of the counts of an unfinished stream. *)
LEMMA ReadIsSent ==
    ASSUME SenderInv, ReaderInv, NEW C, ChunksAre(C),
           InTransit(C, ChunksRead, inbox, net)
    PROVE  /\ ChunksRead \in Nat /\ ChunksRead <= Len(C)
           /\ Len(received) \in Nat /\ Len(sent) \in Nat
<1>1. Len(received) \in Nat /\ Len(sent) \in Nat /\ Len(net) \in Nat
  BY LenProperties DEF SenderInv, ReaderInv
<1>2. ChunksRead \in Nat
  BY <1>1 DEF ChunksRead
<1>3. PICK a \in Nat : ChunksRead <= a /\ Len(C) = a + Len(net)
  BY DEF InTransit
<1> QED
  BY <1>1, <1>2, <1>3

(***************************************************************************)
(* Whatever has been read, the chunk after 2 * r others is a header, and   *)
(* the one after that is message r + 1.                                    *)
(***************************************************************************)
LEMMA ChunkOf ==
    ASSUME SenderInv, NEW C, ChunksAre(C), NEW r \in Nat
    PROVE  /\ 2 * r + 1 <= Len(C) => \E n \in Nat : C[2 * r + 1] = Header(n)
           /\ 2 * r + 2 <= Len(C) => /\ r + 1 <= Len(sent)
                                     /\ C[2 * r + 2] = sent[r + 1]
                                     /\ C[2 * r + 1] = Header(Len(sent[r + 1]))
<1>1. PICK s \in Nat : s = Len(sent)
  BY LenProperties DEF SenderInv
<1>2. PICK h \in {0, 1} : h = HalfSent
  BY DEF HalfSent
<1>3. Len(C) = 2 * s + h
  BY <1>1, <1>2 DEF ChunksAre
<1>4. ASSUME NEW j \in 1..s
      PROVE  sent[j] \in Message /\ Len(sent[j]) \in Nat
  <2>1. sent[j] \in Message
    BY <1>1, ElementOfSeq DEF SenderInv
  <2>2. sent[j] \in Seq(Nat)
    BY <2>1, TextIsBytes
  <2> QED
    BY <2>1, <2>2, LenProperties
<1>5. ASSUME r + 1 <= s
      PROVE  /\ C[2 * r + 2] = sent[r + 1] /\ Len(sent[r + 1]) \in Nat
             /\ C[2 * r + 1] = Header(Len(sent[r + 1]))
  <2>1. r + 1 \in 1..s /\ 2 * (r + 1) - 1 = 2 * r + 1 /\ 2 * (r + 1) = 2 * r + 2
    BY <1>5
  <2>2. C[2 * (r + 1) - 1] = Header(Len(sent[r + 1])) /\ C[2 * (r + 1)] = sent[r + 1]
    BY <1>1, <2>1 DEF ChunksAre
  <2> QED
    BY <1>4, <2>1, <2>2
<1>6. ASSUME 2 * r + 2 <= Len(C)
      PROVE  r + 1 <= s
  <2>1. 2 * r + 2 <= 2 * s + h
    BY <1>3, <1>6
  <2> QED
    BY <2>1
<1>7. ASSUME 2 * r + 1 <= Len(C), ~(r + 1 <= s)
      PROVE  \E n \in Nat : C[2 * r + 1] = Header(n)
  <2>1. 2 * r + 1 <= 2 * s + h
    BY <1>3, <1>7
  <2>2. r = s /\ h = 1
    BY <1>7, <2>1
  <2>3. sender = "body" /\ message \in Message
    BY <1>2, <2>2 DEF HalfSent, SenderInv
  <2>4. Len(message) \in Nat
    <3>1. message \in Seq(Nat)
      BY <2>3, TextIsBytes
    <3> QED
      BY <3>1, LenProperties
  <2>5. C[2 * r + 1] = Header(Len(message))
    BY <1>1, <2>2, <2>3 DEF ChunksAre
  <2> QED
    BY <2>4, <2>5
<1> QED
  BY <1>1, <1>5, <1>6, <1>7

-----------------------------------------------------------------------------
(* The sender *)

(* A send that is not fragmented is taken as a whole. *)
LEMMA TakenWhole ==
    ASSUME ~Fragmented, NEW bytes
    PROVE  Taken(bytes) = {bytes}
BY DEF Taken

(* A chunk that is sent does not touch the one that was read last. *)
LEMMA LengthStays ==
    ASSUME NEW C \in Seq(Seq(Nat)), NEW R \in Nat, R <= Len(C), NEW place, NEW n,
           LengthIs(C, R, place, n), place = "body" => R > 0, NEW c \in Seq(Nat)
    PROVE  LengthIs(Append(C, c), R, place, n)
<1>1. PICK m \in Nat : m = Len(C)
  BY LenProperties
<1>2. ASSUME R > 0
      PROVE  Append(C, c)[R] = C[R]
  <2>1. R \in 1..m
    BY <1>1, <1>2
  <2> QED
    BY <1>1, <2>1, AppendProperties
<1> QED
  BY <1>2 DEF LengthIs

(* The stream after one more chunk, when reading has not gone on. *)
LEMMA StreamGrows ==
    ASSUME SenderInv, ReaderInv, NEW C, ChunksAre(C),
           LengthIs(C, ChunksRead, reader, len),
           InTransit(C, ChunksRead, inbox, net), NEW c \in Seq(Nat)
    PROVE  /\ LengthIs(Append(C, c), ChunksRead, reader, len)
           /\ InTransit(Append(C, c), ChunksRead, inbox, Append(net, c))
<1>1. ChunksRead \in Nat /\ ChunksRead <= Len(C) /\ Len(received) \in Nat
  BY ReadIsSent
<1>2. C \in Seq(Seq(Nat)) /\ net \in Seq(Seq(Nat))
  BY DEF ChunksAre, ReaderInv
<1>3. InTransit(Append(C, c), ChunksRead, inbox, Append(net, c))
  BY <1>1, <1>2, ChunkSent
<1>4. reader = "body" => ChunksRead > 0
  BY <1>1 DEF ChunksRead
<1>5. LengthIs(Append(C, c), ChunksRead, reader, len)
  BY <1>1, <1>2, <1>4, LengthStays
<1> QED
  BY <1>3, <1>5

(* The chunks after one more. *)
LEMMA ChunkAppended ==
    ASSUME NEW C \in Seq(Seq(Nat)), NEW c \in Seq(Nat), NEW D, D = Append(C, c)
    PROVE  /\ D \in Seq(Seq(Nat)) /\ Len(D) = Len(C) + 1
           /\ \A k \in 1..Len(C) : D[k] = C[k]
           /\ D[Len(C) + 1] = c
BY AppendProperties

(* sendMessage sends a header. *)
LEMMA HeaderKeepsInv ==
    ASSUME ~Fragmented, WireInv, NEW m \in Message, SendHeader(m)
    PROVE  WireInv' /\ UNCHANGED <<sent, received, reader>>
<1>1. SenderInv /\ ReaderInv
  BY DEF WireInv
<1>2. m \in Seq(Nat) /\ Len(m) \in Nat
  BY TextIsBytes, LenProperties
<1>3. PICK c \in Seq(Nat) : c = Header(Len(m)) /\ Len(c) = 4
  BY <1>2, HeaderIs
<1>4. /\ sender = "idle" /\ calls < MaxMessages /\ calls' = calls + 1 /\ message' = m
      /\ net' = Append(net, c) /\ sender' = "body"
      /\ UNCHANGED <<sent, inbox, reader, len, data, received>>
  BY <1>3, TakenWhole DEF SendHeader, readerVars
<1>5. SenderInv'
  <2>1. Len(sent) \in Nat /\ Len(sent) <= calls /\ calls \in Nat
    BY <1>1, <1>4, LenProperties DEF SenderInv, HalfSent
  <2>2. calls + 1 \in Nat /\ calls + 1 <= MaxMessages /\ Len(sent) + 1 <= calls + 1
    BY <1>4, <2>1, WireAssumption
  <2> QED
    BY <1>1, <1>4, <2>2 DEF SenderInv, HalfSent
<1>6. ReaderInv'
  BY <1>1, <1>4, AppendProperties DEF ReaderInv
<1>7. CASE reader = "closed"
  BY <1>4, <1>5, <1>6, <1>7 DEF WireInv
<1>8. CASE StreamInv
  <2>1. PICK C : /\ ChunksAre(C) /\ LengthIs(C, ChunksRead, reader, len)
                 /\ InTransit(C, ChunksRead, inbox, net)
    BY <1>8 DEF StreamInv
  <2>2. PICK D : D = Append(C, c)
    OBVIOUS
  <2>3. /\ LengthIs(D, ChunksRead', reader', len') /\ InTransit(D, ChunksRead', inbox', net')
        /\ D \in Seq(Seq(Nat)) /\ Len(D) = Len(C) + 1
        /\ \A k \in 1..Len(C) : D[k] = C[k]
        /\ D[Len(C) + 1] = c
    <3>1. /\ LengthIs(D, ChunksRead, reader, len)
          /\ InTransit(D, ChunksRead, inbox, Append(net, c))
      BY <1>1, <2>1, <2>2, StreamGrows
    <3>2. ChunksRead' = ChunksRead /\ UNCHANGED <<inbox, reader, len>>
      BY <1>4 DEF ChunksRead
    <3>3. net' = Append(net, c) /\ c \in Seq(Nat)
      BY <1>4
    <3>4. C \in Seq(Seq(Nat))
      BY <2>1 DEF ChunksAre
    <3>5. LengthIs(D, ChunksRead', reader', len') /\ InTransit(D, ChunksRead', inbox', net')
      BY <3>1, <3>2, <3>3
    <3> QED
      BY <2>2, <3>3, <3>4, <3>5, ChunkAppended
  <2>4. PICK s \in Nat : s = Len(sent)
    BY <1>1, LenProperties DEF SenderInv
  <2>5. Len(C) = 2 * s
    BY <1>4, <2>1, <2>4 DEF ChunksAre, HalfSent
  <2>6. ASSUME NEW j \in 1..s
        PROVE  D[2 * j - 1] = Header(Len(sent[j])) /\ D[2 * j] = sent[j]
    <3>1. 2 * j - 1 \in 1..(2 * s) /\ 2 * j \in 1..(2 * s)
      OBVIOUS
    <3> QED
      BY <2>1, <2>3, <2>4, <2>5, <3>1 DEF ChunksAre
  <2>7. Len(D) = 2 * s + 1 /\ D[2 * s + 1] = Header(Len(m))
    BY <1>3, <2>3, <2>5
  <2>8. ChunksAre(D)'
    BY <1>4, <2>3, <2>4, <2>6, <2>7 DEF ChunksAre, HalfSent
  <2>9. StreamInv'
    BY <1>4, <2>3, <2>8 DEF StreamInv
  <2> QED
    BY <1>4, <1>5, <1>6, <2>9 DEF WireInv
<1> QED
  BY <1>4, <1>7, <1>8 DEF WireInv, ProbeInv

(* And the body. *)
LEMMA BodyKeepsInv ==
    ASSUME ~Fragmented, WireInv, SendBody
    PROVE  /\ WireInv' /\ UNCHANGED <<received, reader>>
           /\ message \in Message /\ sent' = Append(sent, message)
           /\ Len(sent) < MaxMessages
<1>1. SenderInv /\ ReaderInv
  BY DEF WireInv
<1>2. /\ sender = "body" /\ sender' = "idle" /\ net' = Append(net, message)
      /\ sent' = Append(sent, message)
      /\ UNCHANGED <<message, calls, inbox, reader, len, data, received>>
  BY TakenWhole DEF SendBody, readerVars
<1>3. message \in Message /\ message \in Seq(Nat)
  BY <1>1, <1>2, TextIsBytes DEF SenderInv
<1>4. PICK s \in Nat : s = Len(sent) /\ s + 1 <= calls
  BY <1>1, <1>2, LenProperties DEF SenderInv, HalfSent
<1>5. /\ sent' \in Seq(Message) /\ Len(sent') = s + 1 /\ sent'[s + 1] = message
      /\ \A j \in 1..s : sent'[j] = sent[j]
  BY <1>1, <1>2, <1>3, <1>4, AppendProperties DEF SenderInv
<1>6. Len(sent) < MaxMessages
  BY <1>1, <1>4, WireAssumption DEF SenderInv
<1>7. SenderInv'
  BY <1>1, <1>2, <1>4, <1>5 DEF SenderInv, HalfSent
<1>8. ReaderInv'
  BY <1>1, <1>2, <1>3, AppendProperties DEF ReaderInv
<1>9. CASE reader = "closed"
  BY <1>2, <1>3, <1>6, <1>7, <1>8, <1>9 DEF WireInv
<1>10. CASE StreamInv
  <2>1. PICK C : /\ ChunksAre(C) /\ LengthIs(C, ChunksRead, reader, len)
                 /\ InTransit(C, ChunksRead, inbox, net)
    BY <1>10 DEF StreamInv
  <2>2. PICK c, D : c = message /\ D = Append(C, c)
    OBVIOUS
  <2>3. /\ LengthIs(D, ChunksRead', reader', len') /\ InTransit(D, ChunksRead', inbox', net')
        /\ D \in Seq(Seq(Nat)) /\ Len(D) = Len(C) + 1
        /\ \A k \in 1..Len(C) : D[k] = C[k]
        /\ D[Len(C) + 1] = c
    <3>1. /\ LengthIs(D, ChunksRead, reader, len)
          /\ InTransit(D, ChunksRead, inbox, Append(net, c))
      BY <1>1, <1>3, <2>1, <2>2, StreamGrows
    <3>2. ChunksRead' = ChunksRead /\ UNCHANGED <<inbox, reader, len>>
      BY <1>2 DEF ChunksRead
    <3>3. net' = Append(net, c) /\ c \in Seq(Nat)
      BY <1>2, <1>3, <2>2
    <3>4. C \in Seq(Seq(Nat))
      BY <2>1 DEF ChunksAre
    <3>5. LengthIs(D, ChunksRead', reader', len') /\ InTransit(D, ChunksRead', inbox', net')
      BY <3>1, <3>2, <3>3
    <3> QED
      BY <2>2, <3>3, <3>4, <3>5, ChunkAppended
  <2>4. Len(C) = 2 * s + 1 /\ C[2 * s + 1] = Header(Len(message))
    BY <1>2, <1>4, <2>1 DEF ChunksAre, HalfSent
  <2>5. ASSUME NEW j \in 1..(s + 1)
        PROVE  D[2 * j - 1] = Header(Len(sent'[j])) /\ D[2 * j] = sent'[j]
    <3>1. CASE j = s + 1
      <4>1. 2 * j - 1 = 2 * s + 1 /\ 2 * j = 2 * s + 1 + 1 /\ 2 * s + 1 \in 1..(2 * s + 1)
        BY <3>1
      <4> QED
        BY <1>5, <2>2, <2>3, <2>4, <3>1, <4>1
    <3>2. CASE j # s + 1
      <4>1. j \in 1..s /\ 2 * j - 1 \in 1..(2 * s + 1) /\ 2 * j \in 1..(2 * s + 1)
        BY <3>2
      <4>2. C[2 * j - 1] = Header(Len(sent[j])) /\ C[2 * j] = sent[j]
        BY <1>4, <2>1, <4>1 DEF ChunksAre
      <4> QED
        BY <1>5, <2>3, <2>4, <4>1, <4>2
    <3> QED
      BY <3>1, <3>2
  <2>6. Len(D) = 2 * (s + 1)
    BY <2>3, <2>4
  <2>7. ChunksAre(D)'
    <3>1. HalfSent' = 0 /\ Len(D) = 2 * Len(sent') + HalfSent'
      BY <1>2, <1>5, <2>6 DEF HalfSent
    <3> QED
      BY <1>2, <1>5, <2>3, <2>5, <3>1 DEF ChunksAre
  <2>8. StreamInv'
    BY <1>2, <2>3, <2>7 DEF StreamInv
  <2> QED
    BY <1>2, <1>3, <1>6, <1>7, <1>8, <2>8 DEF WireInv
<1> QED
  BY <1>2, <1>9, <1>10 DEF WireInv, ProbeInv

(* checkNodeHealth sends PING on a connection where nothing was sent. *)
LEMMA ProbeKeepsInv ==
    ASSUME WireInv, SendProbe
    PROVE  WireInv' /\ UNCHANGED <<sent, received, reader>>
<1>1. SenderInv /\ ReaderInv
  BY DEF WireInv
<1>2. /\ sender = "idle" /\ calls = 0 /\ net' = <<PingBytes>> /\ sender' = "probe"
      /\ UNCHANGED <<message, calls, sent, inbox, reader, len, data, received>>
  BY DEF SendProbe, readerVars
<1>3. SenderInv'
  BY <1>1, <1>2 DEF SenderInv, HalfSent
<1>4. <<PingBytes>> \in Seq(Seq(Nat))
  BY TextIsBytes
<1>5. ReaderInv'
  BY <1>1, <1>2, <1>4 DEF ReaderInv
<1>6. CASE reader = "closed"
  BY <1>2, <1>3, <1>5, <1>6 DEF WireInv
<1>7. CASE StreamInv
  <2>1. PICK C : /\ ChunksAre(C) /\ LengthIs(C, ChunksRead, reader, len)
                 /\ InTransit(C, ChunksRead, inbox, net)
    BY <1>7 DEF StreamInv
  <2>2. PICK R \in Nat : R = ChunksRead /\ R <= Len(C)
    BY <1>1, <2>1, ReadIsSent
  <2>3. Len(C) = 0
    <3>1. Len(sent) \in Nat /\ Len(sent) <= 0 /\ HalfSent = 0
      BY <1>1, <1>2, LenProperties DEF SenderInv, HalfSent
    <3> QED
      BY <2>1, <3>1 DEF ChunksAre
  <2>4. R = 0
    BY <2>2, <2>3
  <2>5. reader # "body"
    <3>1. Len(received) \in Nat
      BY <1>1, LenProperties DEF ReaderInv
    <3> QED
      BY <2>2, <2>4, <3>1 DEF ChunksRead
  <2>6. inbox = << >>
    <3>1. PICK a \in Nat : Len(C) = a + Len(net) /\ Laid(inbox, C, R, a)
      BY <2>1, <2>2 DEF InTransit
    <3>2. Len(net) \in Nat
      BY <1>1, LenProperties DEF ReaderInv
    <3>3. a = 0
      BY <2>3, <3>1, <3>2
    <3>4. Laid(inbox, C, R, R)
      BY <2>4, <3>1, <3>3
    <3>5. Len(inbox) = 0
      BY <3>4, NothingLaid
    <3> QED
      BY <1>1, <3>5, EmptySeq DEF ReaderInv
  <2>7. reader = "closed" \/ reader = "header"
    BY <1>1, <2>5 DEF ReaderInv
  <2> QED
    BY <1>2, <1>3, <1>5, <2>6, <2>7 DEF WireInv, ProbeInv
<1> QED
  BY <1>2, <1>6, <1>7 DEF WireInv, ProbeInv

-----------------------------------------------------------------------------
(* Arrival *)

(* All of the first send arrives. *)
LEMMA ArriveIs ==
    ASSUME ~Fragmented, ReaderInv, Arrive
    PROVE  /\ net # << >> /\ inbox' = inbox \o Head(net) /\ net' = Tail(net)
           /\ UNCHANGED <<sender, message, calls, sent, reader, len, data, received>>
<1>1. PICK bytes \in Taken(Head(net)) :
         /\ inbox' = inbox \o bytes
         /\ net' = LET rest == SubSeq(Head(net), Len(bytes) + 1, Len(Head(net)))
                   IN IF rest = << >> THEN Tail(net) ELSE <<rest>> \o Tail(net)
  BY DEF Arrive
<1>2. bytes = Head(net)
  BY TakenWhole
<1>3. net # << >>
  BY DEF Arrive
<1>4. Head(net) \in Seq(Nat)
  BY <1>3 DEF ReaderInv
<1>5. PICK n \in Nat : n = Len(Head(net))
  BY <1>4, LenProperties
<1>6. SubSeq(Head(net), n + 1, n) = << >>
  BY <1>5, SubSeqEmpty
<1>7. net' = Tail(net)
  BY <1>1, <1>2, <1>5, <1>6
<1> QED
  BY <1>1, <1>2, <1>3, <1>7 DEF Arrive, senderVars, readerVars

(* A whole chunk arrives behind the bytes that are there. *)
LEMMA ArriveKeepsInv ==
    ASSUME ~Fragmented, WireInv, Arrive
    PROVE  WireInv' /\ UNCHANGED <<sent, received, reader>>
<1>1. SenderInv /\ ReaderInv
  BY DEF WireInv
<1>2. /\ net # << >> /\ inbox' = inbox \o Head(net) /\ net' = Tail(net)
      /\ UNCHANGED <<sender, message, calls, sent, reader, len, data, received>>
  BY <1>1, ArriveIs
<1>3. SenderInv'
  BY <1>1, <1>2 DEF SenderInv, HalfSent
<1>4. ReaderInv'
  <2>1. net \in Seq(Seq(Nat)) /\ inbox \in Seq(Nat)
    BY <1>1 DEF ReaderInv
  <2>2. Head(net) \in Seq(Nat) /\ Tail(net) \in Seq(Seq(Nat))
    BY <1>2, <2>1
  <2>3. inbox \o Head(net) \in Seq(Nat)
    BY <2>1, <2>2, ConcatProperties
  <2> QED
    BY <1>1, <1>2, <2>2, <2>3 DEF ReaderInv
<1>5. CASE reader = "closed"
  BY <1>2, <1>3, <1>4, <1>5 DEF WireInv
<1>6. CASE ProbeInv
  <2>1. net = <<PingBytes>> /\ inbox = << >> /\ sender = "probe" /\ reader = "header"
    BY <1>2, <1>6 DEF ProbeInv
  <2>2. Head(net) = PingBytes /\ Tail(net) = << >>
    BY <2>1
  <2>3. inbox \o Head(net) = PingBytes
    BY <2>1, <2>2, TextIsBytes, ConcatEmptySeq
  <2> QED
    BY <1>2, <1>3, <1>4, <2>1, <2>2, <2>3 DEF WireInv, ProbeInv
<1>7. CASE StreamInv
  <2>1. PICK C : /\ ChunksAre(C) /\ LengthIs(C, ChunksRead, reader, len)
                 /\ InTransit(C, ChunksRead, inbox, net)
    BY <1>7 DEF StreamInv
  <2>2. ChunksRead \in Nat /\ ChunksRead' = ChunksRead
    BY <1>1, <1>2, <2>1, ReadIsSent DEF ChunksRead
  <2>3. C \in Seq(Seq(Nat)) /\ net \in Seq(Seq(Nat)) /\ inbox \in Seq(Nat)
    BY <1>1, <2>1 DEF ChunksAre, ReaderInv
  <2>4. InTransit(C, ChunksRead, inbox \o Head(net), Tail(net))
    BY <1>2, <2>1, <2>2, <2>3, HeadArrives
  <2>5. ChunksAre(C)'
    BY <1>2, <2>1 DEF ChunksAre, HalfSent
  <2>6. LengthIs(C, ChunksRead', reader', len') /\ InTransit(C, ChunksRead', inbox', net')
    BY <1>2, <2>1, <2>2, <2>4
  <2>7. StreamInv'
    BY <1>2, <1>7, <2>5, <2>6 DEF StreamInv
  <2> QED
    BY <1>2, <1>3, <1>4, <2>7 DEF WireInv
<1> QED
  BY <1>5, <1>6, <1>7 DEF WireInv

-----------------------------------------------------------------------------
(* The reader *)

(* recv, when as many bytes are there as it may take. *)
LEMMA RecvIs ==
    ASSUME ReaderInv, NEW n \in Nat, n <= Len(inbox)
    PROVE  /\ Got(n) = SubSeq(inbox, 1, n) /\ Rest(n) \in Seq(Nat)
           /\ Len(Rest(n)) = Len(inbox) - n
           /\ \A i \in 1..Len(Rest(n)) : Rest(n)[i] = inbox[n + i]
<1>1. inbox \in Seq(Nat)
  BY DEF ReaderInv
<1>2. PICK m \in Nat : m = Len(inbox)
  BY <1>1, LenProperties
<1>3. (IF n < m THEN n ELSE m) = n
  BY <1>2
<1>4. Got(n) = SubSeq(inbox, 1, n)
  BY <1>2, <1>3 DEF Got
<1>5. CASE n < m
  <2>1. PICK r : r = SubSeq(inbox, n + 1, m)
    OBVIOUS
  <2>2. Rest(n) = r
    BY <1>2, <1>5, <2>1 DEF Rest
  <2>3. \A i \in (n + 1)..m : i \in 1..m
    OBVIOUS
  <2>4. \A i \in (n + 1)..m : inbox[i] \in Nat
    BY <1>1, <1>2, <2>3, ElementOfSeq
  <2>5. n + 1 <= m /\ m - (n + 1) + 1 = m - n
    BY <1>5
  <2>6. /\ r \in Seq(Nat) /\ Len(r) = m - n
        /\ \A i \in 1..(m - n) : r[i] = inbox[n + 1 + i - 1]
    BY <2>1, <2>4, <2>5, SubSeqProperties
  <2>7. \A i \in 1..(m - n) : n + 1 + i - 1 = n + i
    OBVIOUS
  <2> QED
    BY <1>2, <1>4, <2>2, <2>6, <2>7
<1>6. CASE ~(n < m)
  <2>1. n = m /\ m - n = 0
    BY <1>2, <1>6
  <2>2. Rest(n) = << >>
    BY <1>2, <1>6 DEF Rest
  <2>3. Len(Rest(n)) = 0 /\ Rest(n) \in Seq(Nat)
    BY <2>2, EmptySeq
  <2> QED
    BY <1>2, <1>4, <2>1, <2>3
<1> QED
  BY <1>5, <1>6

(* The next chunk is read: what recv returns is the chunk. *)
LEMMA ChunkReceived ==
    ASSUME SenderInv, ReaderInv, NEW C, ChunksAre(C),
           InTransit(C, ChunksRead, inbox, net), inbox # << >>,
           NEW n, n = Len(C[ChunksRead + 1])
    PROVE  /\ ChunksRead \in Nat /\ ChunksRead + 1 <= Len(C) /\ n \in Nat
           /\ Got(n) = C[ChunksRead + 1] /\ Rest(n) \in Seq(Nat)
           /\ InTransit(C, ChunksRead + 1, Rest(n), net)
<1>1. PICK R \in Nat : R = ChunksRead
  BY ReadIsSent
<1>2. PICK x \in Seq(Nat), w \in Seq(Seq(Nat)) : x = inbox /\ w = net
  BY DEF ReaderInv
<1>3. C \in Seq(Seq(Nat)) /\ InTransit(C, R, x, w) /\ x # << >> /\ n = Len(C[R + 1])
  BY <1>1, <1>2 DEF ChunksAre
<1>4. /\ R + 1 \in 1..Len(C) /\ n \in Nat
      /\ n <= Len(x) /\ SubSeq(x, 1, n) = C[R + 1]
      /\ \A y \in Seq(Nat) : Follows(y, x, n) => InTransit(C, R + 1, y, w)
  BY <1>3, ChunkIsThere
<1>5. /\ Got(n) = SubSeq(x, 1, n) /\ Rest(n) \in Seq(Nat)
      /\ Follows(Rest(n), x, n)
  BY <1>2, <1>4, RecvIs DEF Follows
<1>6. PICK y \in Seq(Nat) : y = Rest(n)
  BY <1>5
<1>7. InTransit(C, R + 1, y, w)
  BY <1>4, <1>5, <1>6
<1>8. Len(C) \in Nat /\ R + 1 <= Len(C)
  BY <1>3, <1>4, LenProperties
<1> QED
  BY <1>1, <1>2, <1>4, <1>5, <1>6, <1>7, <1>8

(* handle gives up, when nothing is there. *)
LEMMA NothingKeepsInv ==
    ASSUME WireInv, RecvNothing
    PROVE  /\ WireInv' /\ UNCHANGED <<sent, received>>
           /\ reader # "closed" /\ reader' = "closed"
<1>1. /\ SenderInv /\ ReaderInv /\ reader # "closed" /\ reader' = "closed"
      /\ UNCHANGED <<sender, message, calls, sent, net, inbox, len, data, received>>
  BY DEF WireInv, RecvNothing, senderVars
<1>2. SenderInv' /\ ReaderInv'
  BY <1>1 DEF SenderInv, ReaderInv, HalfSent
<1> QED
  BY <1>1, <1>2 DEF WireInv

(* The length is read: a header that was sent, or PING. *)
LEMMA RecvHeaderKeepsInv ==
    ASSUME WireInv, RecvHeader
    PROVE  /\ WireInv' /\ UNCHANGED <<sent, received>>
           /\ reader = "header" /\ reader' \in {"body", "closed"}
<1>1. /\ SenderInv /\ ReaderInv /\ reader = "header" /\ inbox # << >>
      /\ inbox' = Rest(4)
      /\ UNCHANGED <<sender, message, calls, sent, net, received>>
  BY DEF WireInv, RecvHeader, senderVars
<1>2. /\ ValidLength(Length(Got(4))) => reader' = "body" /\ len' = Length(Got(4))
      /\ ~ValidLength(Length(Got(4))) => reader' = "closed"
  BY DEF RecvHeader
<1>3. reader' \in {"body", "closed"}
  BY <1>2
<1>4. SenderInv'
  BY <1>1 DEF SenderInv, HalfSent
<1>5. ASSUME Rest(4) \in Seq(Nat)
      PROVE  ReaderInv'
  BY <1>1, <1>3, <1>5 DEF ReaderInv
<1>6. CASE ProbeInv
  <2>1. inbox = PingBytes
    BY <1>1, <1>6 DEF ProbeInv
  <2>2. Len(inbox) = 4 /\ inbox \in Seq(Nat)
    BY <1>1, <2>1, WireAssumption DEF ReaderInv
  <2>3. Got(4) = SubSeq(inbox, 1, 4) /\ Rest(4) \in Seq(Nat)
    <3>1. PICK k \in Nat : k = 4
      OBVIOUS
    <3>2. k <= Len(inbox)
      BY <2>2, <3>1
    <3>3. Got(k) = SubSeq(inbox, 1, k) /\ Rest(k) \in Seq(Nat)
      BY <1>1, <3>2, RecvIs
    <3> QED
      BY <3>1, <3>3
  <2>4. Got(4) = PingBytes
    <3>1. PICK s : s = SubSeq(inbox, 1, 4)
      OBVIOUS
    <3>2. \A i \in 1..4 : inbox[i] \in Nat
      BY <2>2, ElementOfSeq
    <3>3. s \in Seq(Nat) /\ Len(s) = 4 /\ \A i \in 1..4 : s[i] = inbox[i]
      BY <3>1, <3>2, SubSeqProperties
    <3>4. s = inbox
      BY <2>2, <3>3, SeqEqual
    <3> QED
      BY <2>1, <2>3, <3>1, <3>4
  <2>5. reader' = "closed"
    BY <1>2, <2>4, PingIsTooLong
  <2> QED
    BY <1>1, <1>3, <1>4, <1>5, <2>3, <2>5 DEF WireInv
<1>7. CASE StreamInv
  <2>1. PICK C : /\ ChunksAre(C) /\ LengthIs(C, ChunksRead, reader, len)
                 /\ InTransit(C, ChunksRead, inbox, net)
    BY <1>7 DEF StreamInv
  <2>2. PICK r \in Nat : r = Len(received)
    BY <1>1, LenProperties DEF ReaderInv
  <2>3. ChunksRead = 2 * r
    BY <1>1, <2>2 DEF ChunksRead
  <2>4. PICK size : size = Len(C[ChunksRead + 1])
    OBVIOUS
  <2>5. /\ ChunksRead \in Nat /\ ChunksRead + 1 <= Len(C) /\ size \in Nat
        /\ Got(size) = C[ChunksRead + 1] /\ Rest(size) \in Seq(Nat)
        /\ InTransit(C, ChunksRead + 1, Rest(size), net)
    BY <1>1, <2>1, <2>4, ChunkReceived
  <2>6. PICK n \in Nat : C[2 * r + 1] = Header(n)
    <3>1. 2 * r + 1 <= Len(C)
      BY <2>3, <2>5
    <3> QED
      BY <1>1, <2>1, <3>1, ChunkOf
  <2>7. size = 4 /\ Got(4) = Header(n) /\ Length(Got(4)) = n
    BY <2>3, <2>4, <2>5, <2>6, HeaderIs
  <2>8. ReaderInv'
    BY <1>5, <2>5, <2>7
  <2>9. CASE reader' = "closed"
    BY <1>1, <1>4, <2>8, <2>9 DEF WireInv
  <2>10. CASE reader' = "body"
    <3>1. len' = n
      BY <1>2, <2>7, <2>10
    <3>2. ChunksRead' = 2 * r + 1
      BY <1>1, <2>2, <2>10 DEF ChunksRead
    <3>3. InTransit(C, ChunksRead', inbox', net')
      BY <1>1, <2>3, <2>5, <2>7, <3>2
    <3>4. LengthIs(C, ChunksRead', reader', len')
      BY <2>6, <3>1, <3>2 DEF LengthIs
    <3>5. ChunksAre(C)'
      BY <1>1, <2>1 DEF ChunksAre, HalfSent
    <3>6. StreamInv'
      BY <1>1, <1>7, <3>3, <3>4, <3>5 DEF StreamInv
    <3> QED
      BY <1>1, <1>3, <1>4, <2>8, <3>6 DEF WireInv
  <2> QED
    BY <1>3, <2>9, <2>10
<1> QED
  BY <1>1, <1>6, <1>7 DEF WireInv

(* The body is read: it is the next message that was sent. *)
LEMMA RecvBodyKeepsInv ==
    ASSUME WireInv, RecvBody
    PROVE  /\ WireInv' /\ sent' = sent /\ reader = "body" /\ reader' = "header"
           /\ Len(received) \in Nat /\ Len(received) < Len(sent)
           /\ received' = Append(received, sent[Len(received) + 1])
<1>1. /\ SenderInv /\ ReaderInv /\ reader = "body" /\ inbox # << >>
      /\ data' = Got(len) \o SubSeq(data, Len(Got(len)) + 1, len)
      /\ inbox' = Rest(len) /\ received' = Append(received, data')
      /\ reader' = "header"
      /\ UNCHANGED <<sender, message, calls, sent, net, len>>
  BY DEF WireInv, RecvBody, senderVars
<1>2. PICK C : /\ sender # "probe" /\ ChunksAre(C)
               /\ LengthIs(C, ChunksRead, reader, len)
               /\ InTransit(C, ChunksRead, inbox, net)
  BY <1>1 DEF WireInv, ProbeInv, StreamInv
<1>3. PICK r \in Nat : r = Len(received)
  BY <1>1, LenProperties DEF ReaderInv
<1>4. ChunksRead = 2 * r + 1
  BY <1>1, <1>3 DEF ChunksRead
<1>5. PICK size : size = Len(C[ChunksRead + 1])
  OBVIOUS
<1>6. /\ ChunksRead \in Nat /\ ChunksRead + 1 <= Len(C) /\ size \in Nat
      /\ Got(size) = C[ChunksRead + 1] /\ Rest(size) \in Seq(Nat)
      /\ InTransit(C, ChunksRead + 1, Rest(size), net)
  BY <1>1, <1>2, <1>5, ChunkReceived
<1>7. ChunksRead + 1 = 2 * r + 2
  BY <1>4
<1>8. /\ r + 1 <= Len(sent) /\ C[2 * r + 2] = sent[r + 1]
      /\ C[2 * r + 1] = Header(Len(sent[r + 1]))
  BY <1>1, <1>2, <1>6, <1>7, ChunkOf
<1>9. PICK s \in Nat : s = Len(sent)
  BY <1>1, LenProperties DEF SenderInv
<1>10. sent[r + 1] \in Message /\ sent[r + 1] \in Seq(Nat)
  <2>1. r + 1 \in 1..Len(sent)
    BY <1>8, <1>9
  <2> QED
    BY <1>1, <2>1, ElementOfSeq, TextIsBytes DEF SenderInv
<1>11. PICK m \in Seq(Nat) : m = sent[r + 1]
  BY <1>10
<1>12. Len(m) \in Nat /\ size = Len(m)
  BY <1>5, <1>7, <1>8, <1>11, LenProperties
<1>13. len = Len(m)
  <2>1. len \in Nat /\ Header(len) = Header(Len(m))
    BY <1>1, <1>2, <1>4, <1>8, <1>11 DEF LengthIs
  <2>2. Length(Header(len)) = len /\ Length(Header(Len(m))) = Len(m)
    BY <1>12, <2>1, HeaderIs
  <2> QED
    BY <2>1, <2>2
<1>14. Got(len) = m
  BY <1>6, <1>7, <1>8, <1>11, <1>12, <1>13
<1>15. data' = m
  <2>1. SubSeq(data, Len(m) + 1, Len(m)) = << >>
    BY <1>12, SubSeqEmpty
  <2>2. m \o << >> = m
    BY ConcatEmptySeq
  <2> QED
    BY <1>1, <1>13, <1>14, <2>1, <2>2
<1>16. received' = Append(received, sent[r + 1])
  BY <1>1, <1>11, <1>15
<1>17. received' \in Seq(Message) /\ Len(received') = r + 1
  <2>1. PICK q \in Seq(Message), e \in Message : q = received /\ e = sent[r + 1]
    BY <1>1, <1>10 DEF ReaderInv
  <2>2. Append(q, e) \in Seq(Message) /\ Len(Append(q, e)) = Len(q) + 1
    BY ONLY q \in Seq(Message), e \in Message, AppendProperties
  <2> QED
    BY <1>3, <1>16, <2>1, <2>2
<1>18. SenderInv'
  BY <1>1 DEF SenderInv, HalfSent
<1>19. ReaderInv'
  BY <1>1, <1>6, <1>12, <1>13, <1>17 DEF ReaderInv
<1>20. ChunksRead' = ChunksRead + 1
  <2>1. ChunksRead' = 2 * Len(received') + 0
    BY <1>1 DEF ChunksRead
  <2>2. ChunksRead' = 2 * (r + 1)
    BY <1>17, <2>1
  <2> QED
    BY <1>7, <2>2
<1>21. ChunksAre(C)'
  BY <1>1, <1>2 DEF ChunksAre, HalfSent
<1>22. InTransit(C, ChunksRead', inbox', net') /\ LengthIs(C, ChunksRead', reader', len')
  BY <1>1, <1>6, <1>12, <1>13, <1>20 DEF LengthIs
<1>23. StreamInv'
  BY <1>1, <1>2, <1>21, <1>22 DEF StreamInv
<1>24. Len(received) < Len(sent)
  BY <1>3, <1>8, <1>9
<1> QED
  BY <1>1, <1>3, <1>16, <1>18, <1>19, <1>23, <1>24 DEF WireInv

-----------------------------------------------------------------------------
(* The theorem *)

(* A step keeps the invariant and is a step of the channel, or none. *)
LEMMA WireStep ==
    ASSUME ~Fragmented, WireInv, [Next]_vars
    PROVE  WireInv' /\ [Channel!Next]_(Channel!vars)
<1> USE DEF Channel!vars
<1>1. ASSUME NEW m \in Message, SendHeader(m)
      PROVE  WireInv' /\ UNCHANGED Channel!vars
  BY <1>1, HeaderKeepsInv
<1>2. CASE SendBody
  <2>1. /\ WireInv' /\ UNCHANGED <<received, reader>>
        /\ message \in Message /\ sent' = Append(sent, message)
        /\ Len(sent) < MaxMessages
    BY <1>2, BodyKeepsInv
  <2>2. Channel!Send(message)
    BY <2>1 DEF Channel!Send
  <2> QED
    BY <2>1, <2>2 DEF Channel!Next
<1>3. CASE SendProbe
  BY <1>3, ProbeKeepsInv
<1>4. CASE Arrive
  BY <1>4, ArriveKeepsInv
<1>5. CASE RecvNothing
  <2>1. /\ WireInv' /\ UNCHANGED <<sent, received>>
        /\ reader # "closed" /\ reader' = "closed"
    BY <1>5, NothingKeepsInv
  <2>2. Channel!Close
    BY <2>1 DEF Channel!Close
  <2> QED
    BY <2>1, <2>2 DEF Channel!Next
<1>6. CASE RecvHeader
  <2>1. /\ WireInv' /\ UNCHANGED <<sent, received>>
        /\ reader = "header" /\ reader' \in {"body", "closed"}
    BY <1>6, RecvHeaderKeepsInv
  <2>2. Channel!Close \/ UNCHANGED Channel!vars
    BY <2>1 DEF Channel!Close
  <2> QED
    BY <2>1, <2>2 DEF Channel!Next
<1>7. CASE RecvBody
  <2>1. /\ WireInv' /\ sent' = sent /\ reader = "body" /\ reader' = "header"
        /\ Len(received) \in Nat /\ Len(received) < Len(sent)
        /\ received' = Append(received, sent[Len(received) + 1])
    BY <1>7, RecvBodyKeepsInv
  <2>2. Channel!Deliver
    BY <2>1 DEF Channel!Deliver
  <2> QED
    BY <2>1, <2>2 DEF Channel!Next
<1>8. CASE UNCHANGED vars
  <2>1. UNCHANGED <<sender, message, calls, sent, net, inbox, reader, len, data, received>>
    BY <1>8 DEF vars, senderVars, readerVars
  <2>2. SenderInv' /\ ReaderInv' /\ ProbeInv' = ProbeInv
    BY <2>1 DEF WireInv, SenderInv, ReaderInv, ProbeInv, HalfSent
  <2>3. StreamInv' = StreamInv
    BY <2>1 DEF StreamInv, ChunksAre, ChunksRead, HalfSent
  <2> QED
    BY <2>1, <2>2, <2>3 DEF WireInv
<1> QED
  BY <1>1, <1>2, <1>3, <1>4, <1>5, <1>6, <1>7, <1>8 DEF Next, Receive

(***************************************************************************)
(* When every send is taken and arrives as a whole, recvMessage returns    *)
(* the messages that sendMessage was given, each once, in order and        *)
(* unchanged, whatever their lengths: htonl and ntohl are inverse, the     *)
(* reader never loses the boundary between messages, and neither the       *)
(* buffer it uses again nor a health probe makes it return anything else.  *)
(***************************************************************************)
THEOREM WireIsMessageChannel ==
    ASSUME ~Fragmented
    PROVE  Spec => WholeMessages
<1>1. Init => WireInv /\ Channel!Init
  BY WireInvInit DEF Init, Channel!Init
<1>2. WireInv /\ [Next]_vars => WireInv' /\ [Channel!Next]_(Channel!vars)
  BY WireStep
<1> QED
  BY <1>1, <1>2, PTL DEF Spec, WholeMessages, Channel!Spec

=============================================================================
