---------------------- MODULE JudgeConnection_proofs ----------------------
(***************************************************************************)
(* Proofs about JudgeConnection, for any number of connections, lengths of *)
(* packets and pieces they arrive in: the packets come out of the stream   *)
(* as they were put in, and the judge is shown online while it has a       *)
(* connection.  What a connection has yet to read, its buffer and what is  *)
(* on the wire, is a run of bytes that follow one another; the place in    *)
(* handle() says with which byte it begins.                                *)
(***************************************************************************)
EXTENDS JudgeConnection, SequenceTheorems, WellFoundedInduction, TLAPS

-----------------------------------------------------------------------------
(* Runs of bytes.                                                          *)

Places == Nat \X Nat
Length(c, k) == IF k = 0 THEN HeaderLen ELSE SizeBytes + Sizes[c][k]
NextByte(c, b) == IF b[2] = Length(c, b[1]) THEN Byte(b[1] + 1, 1) ELSE Byte(b[1], b[2] + 1)

\* r is what is left of a stream of n packets from byte i of packet k on; a
\* stream that is cut may end anywhere.
Runs(c, r, n, broken, k, i) ==
  /\ r \in Seq(Places)
  /\ \A j \in 1 .. Len(r) - 1 : r[j + 1] = NextByte(c, r[j])
  /\ \A j \in 1 .. Len(r) : r[j][1] <= n
  /\ r # <<>> => r[1] = Byte(k, i)
  /\ ~broken => IF r = <<>> THEN k = n + 1 /\ i = 1
                            ELSE r[Len(r)] = Byte(n, Length(c, n))

\* A set of numbers has a least one.
LEMMA LeastOf ==
  ASSUME NEW T \in SUBSET Nat, T # {}
  PROVE  \E x \in T : \A y \in T : x <= y
<1>1. PICK x \in T : \A y \in T : <<y, x>> \notin OpToRel(<, Nat)
  BY NatLessThanWellFounded, WFMin
<1>2. \A y \in T : ~(y < x)
  BY <1>1 DEF OpToRel
<1>3. QED
  BY <1>2

\* The lengths of the packets of a connection.
LEMMA LengthType ==
  ASSUME NEW c \in Conns, NEW k \in Nat, k <= Len(Sizes[c])
  PROVE  /\ Len(Sizes[c]) \in Nat
         /\ Length(c, k) \in Nat /\ Length(c, k) >= SizeBytes
         /\ SizeBytes \in Nat /\ SizeBytes > 0
         /\ k > 0 => Sizes[c][k] \in Nat /\ Length(c, k) = SizeBytes + Sizes[c][k]
<1>1. Sizes[c] \in Seq(Nat)
  BY ConnectionAssumption
<1>2. k > 0 => Sizes[c][k] \in Nat
  <2>1. k > 0 => k \in 1 .. Len(Sizes[c])
    OBVIOUS
  <2>2. QED
    BY <1>1, <2>1, ElementOfSeq
<1>3. QED
  BY <1>1, <1>2, ConnectionAssumption DEF Length

\* A byte is a place.
LEMMA ByteIs ==
  ASSUME NEW k \in Nat, NEW i \in Nat
  PROVE  Byte(k, i) \in Places /\ Byte(k, i)[1] = k /\ Byte(k, i)[2] = i
BY DEF Byte, Places

\* Within a packet a run counts its bytes.
LEMMA Counts ==
  ASSUME NEW c \in Conns, NEW r, NEW n, NEW broken, NEW k \in Nat, NEW i \in Nat,
         Runs(c, r, n, broken, k, i), k <= Len(Sizes[c]),
         NEW j \in 1 .. Len(r), i + j <= Length(c, k) + 1
  PROVE  r[j] = Byte(k, i + j - 1)
<1> DEFINE Bad == {x \in Nat : x \in 1 .. Len(r) /\ i + x <= Length(c, k) + 1
                                 /\ r[x] # Byte(k, i + x - 1)}
<1>1. SUFFICES ASSUME r[j] # Byte(k, i + j - 1) PROVE FALSE
  OBVIOUS
<1>0. j \in Bad
  <2>1. Len(r) \in Nat
    BY LenProperties DEF Runs
  <2>2. j \in Nat
    BY <2>1
  <2>3. QED
    BY <1>1, <2>2
<1>2. PICK x \in Bad : \A y \in Bad : x <= y
  <2>1. Bad \in SUBSET Nat
    OBVIOUS
  <2> HIDE DEF Bad
  <2>2. QED
    BY <1>0, <2>1, LeastOf
<1>3. /\ Len(r) \in Nat /\ Length(c, k) \in Nat
      /\ x \in 1 .. Len(r) /\ x \in Nat /\ i + x <= Length(c, k) + 1 /\ r[x] # Byte(k, i + x - 1)
  BY <1>2, LenProperties, LengthType DEF Runs
<1>4. CASE x = 1
  <2>1. r # <<>>
    BY <1>3, EmptySeq DEF Runs
  <2>2. r[1] = Byte(k, i) /\ i + 1 - 1 = i
    BY <2>1 DEF Runs
  <2>3. QED
    BY <1>3, <1>4, <2>2
<1>5. CASE x # 1
  <2> DEFINE w == x - 1
  <2>1. /\ w \in Nat /\ w \in 1 .. Len(r) /\ w \in 1 .. Len(r) - 1 /\ w + 1 = x /\ ~(x <= w)
        /\ i + w <= Length(c, k) + 1 /\ i + w - 1 # Length(c, k) /\ i + w - 1 \in Nat
        /\ (i + w - 1) + 1 = i + x - 1
    BY <1>3, <1>5
  <2>2. r[w] = Byte(k, i + w - 1)
    <3> HIDE DEF w
    <3>1. w \notin Bad
      <4> HIDE DEF Bad
      <4>1. QED
        BY <1>2, <2>1
    <3>2. QED
      BY <2>1, <3>1
  <2> HIDE DEF w
  <2>3. r[x] = NextByte(c, r[w])
    BY <2>1 DEF Runs
  <2>4. NextByte(c, r[w]) = Byte(k, (i + w - 1) + 1)
    BY <2>1, <2>2, ByteIs DEF NextByte
  <2>5. QED
    BY <1>3, <2>1, <2>3, <2>4
<1>6. QED
  BY <1>4, <1>5

\* Taking m bytes out of a packet, or all that are left of it.
LEMMA Eats ==
  ASSUME NEW c \in Conns, NEW r, NEW n \in Nat, NEW broken,
         NEW k \in Nat, NEW i \in Nat \ {0},
         Runs(c, r, n, broken, k, i), k <= Len(Sizes[c]), n <= Len(Sizes[c]),
         i <= Length(c, k),
         NEW m \in Nat, m <= Len(r), i + m <= Length(c, k) + 1
  PROVE  /\ i + m = Length(c, k) + 1 => Runs(c, SubSeq(r, m + 1, Len(r)), n, broken, k + 1, 1)
         /\ i + m # Length(c, k) + 1 => Runs(c, SubSeq(r, m + 1, Len(r)), n, broken, k, i + m)
<1> DEFINE rest == SubSeq(r, m + 1, Len(r))
           done == i + m = Length(c, k) + 1
           nk == IF done THEN k + 1 ELSE k
           ni == IF done THEN 1 ELSE i + m
<1>1. r \in Seq(Places) /\ Len(r) \in Nat /\ Length(c, k) \in Nat /\ Length(c, k) > 0
  BY LenProperties, LengthType DEF Runs
<1>2. /\ rest \in Seq(Places)
      /\ Len(rest) = Len(r) - m
      /\ \A j \in 1 .. Len(r) - m : rest[j] = r[m + j]
  <2>1. \A j \in (m + 1) .. Len(r) : r[j] \in Places
    BY <1>1, ElementOfSeq
  <2>2. /\ rest \in Seq(Places)
        /\ Len(rest) = IF m + 1 <= Len(r) THEN Len(r) - (m + 1) + 1 ELSE 0
        /\ \A j \in 1 .. Len(r) - (m + 1) + 1 : rest[j] = r[(m + 1) + j - 1]
    BY <1>1, <2>1, SubSeqProperties
  <2> HIDE DEF rest
  <2>3. \A j \in 1 .. Len(r) - m : (m + 1) + j - 1 = m + j
    BY <1>1
  <2>4. QED
    BY <1>1, <2>2, <2>3
<1> HIDE DEF rest
<1>3. \A j \in 1 .. Len(rest) - 1 : rest[j + 1] = NextByte(c, rest[j])
  <2> SUFFICES ASSUME NEW j \in 1 .. Len(rest) - 1 PROVE rest[j + 1] = NextByte(c, rest[j])
    OBVIOUS
  <2>1. /\ m + j \in 1 .. Len(r) - 1 /\ j \in 1 .. Len(r) - m /\ j + 1 \in 1 .. Len(r) - m
        /\ m + (j + 1) = (m + j) + 1
    BY <1>1, <1>2
  <2>2. rest[j] = r[m + j] /\ rest[j + 1] = r[(m + j) + 1]
    BY <1>2, <2>1
  <2>3. QED
    BY <2>1, <2>2 DEF Runs
<1>4. \A j \in 1 .. Len(rest) : rest[j][1] <= n
  <2> SUFFICES ASSUME NEW j \in 1 .. Len(rest) PROVE rest[j][1] <= n
    OBVIOUS
  <2>1. m + j \in 1 .. Len(r) /\ rest[j] = r[m + j]
    BY <1>1, <1>2
  <2>2. QED
    BY <2>1 DEF Runs
<1>5. ASSUME m > 0
      PROVE  r[m] = Byte(k, i + m - 1) /\ i + m - 1 \in Nat
  <2>1. m \in 1 .. Len(r)
    BY <1>1, <1>5
  <2>2. QED
    BY <2>1, Counts
<1>6. rest # <<>> => rest[1] = Byte(nk, ni)
  <2> SUFFICES ASSUME rest # <<>> PROVE rest[1] = Byte(nk, ni)
    OBVIOUS
  <2>1. Len(rest) \in Nat \ {0}
    BY <1>2, EmptySeq
  <2>2. m + 1 \in 1 .. Len(r) /\ rest[1] = r[m + 1]
    BY <1>1, <1>2, <2>1
  <2>3. CASE done
    <3>1. m > 0 /\ i + m - 1 = Length(c, k)
      BY <1>1, <2>3
    <3>2. m \in 1 .. Len(r) - 1
      BY <1>1, <2>2, <3>1
    <3>3. r[m + 1] = NextByte(c, r[m])
      BY <3>2 DEF Runs
    <3>4. QED
      BY <1>1, <1>5, <2>2, <2>3, <3>1, <3>3, ByteIs DEF NextByte
  <2>4. CASE ~done
    <3> DEFINE w == m + 1
    <3>1. w \in 1 .. Len(r) /\ i + w <= Length(c, k) + 1 /\ i + w - 1 = i + m
      BY <1>1, <2>2, <2>4
    <3>2. nk = k /\ ni = i + m /\ rest[1] = r[w]
      BY <2>2, <2>4
    <3> HIDE DEF w, nk, ni, done
    <3>3. r[w] = Byte(k, i + w - 1)
      BY <3>1, Counts
    <3>4. QED
      BY <3>1, <3>2, <3>3
  <2>5. QED
    BY <2>3, <2>4
<1>7. ~broken => IF rest = <<>> THEN nk = n + 1 /\ ni = 1
                 ELSE rest[Len(rest)] = Byte(n, Length(c, n))
  <2> SUFFICES ASSUME ~broken
               PROVE  IF rest = <<>> THEN nk = n + 1 /\ ni = 1
                      ELSE rest[Len(rest)] = Byte(n, Length(c, n))
    OBVIOUS
  <2>1. CASE rest = <<>>
    <3>1. Len(r) = m
      BY <1>1, <1>2, <2>1, EmptySeq
    <3>2. CASE m = 0
      <4>1. r = <<>>
        BY <1>1, <3>1, <3>2, EmptySeq
      <4>2. k = n + 1 /\ i = 1
        BY <4>1 DEF Runs
      <4>3. ~done
        BY <1>1, <3>2, <4>2
      <4>4. QED
        BY <2>1, <3>2, <4>2, <4>3
    <3>3. CASE m # 0
      <4>1. r # <<>>
        BY <3>1, <3>3, EmptySeq
      <4>2. r[m] = Byte(n, Length(c, n)) /\ m > 0
        BY <3>1, <3>3, <4>1 DEF Runs
      <4>3. k = n /\ i + m - 1 = Length(c, n)
        BY <1>5, <4>2 DEF Byte
      <4>4. done
        BY <1>1, <4>3
      <4>5. QED
        BY <2>1, <4>3, <4>4
    <3>4. QED
      BY <3>2, <3>3
  <2>2. CASE rest # <<>>
    <3>1. Len(rest) \in Nat \ {0}
      BY <1>2, <2>2, EmptySeq
    <3>2. Len(rest) \in 1 .. Len(r) - m /\ m + Len(rest) = Len(r) /\ Len(r) # 0
      BY <1>1, <1>2, <3>1
    <3>3. rest[Len(rest)] = r[Len(r)] /\ r # <<>>
      BY <1>2, <3>2, EmptySeq
    <3>4. QED
      BY <2>2, <3>3 DEF Runs
  <2>3. QED
    BY <2>1, <2>2
<1>8. Runs(c, rest, n, broken, nk, ni)
  BY <1>2, <1>3, <1>4, <1>6, <1>7 DEF Runs
<1>9. QED
  BY <1>8 DEF rest

\* The bytes of a packet.
LEMMA BytesAre ==
  ASSUME NEW c \in Conns, NEW k \in Nat, k <= Len(Sizes[c])
  PROVE  /\ Bytes(c, k) \in Seq(Places)
         /\ Len(Bytes(c, k)) = Length(c, k)
         /\ \A j \in 1 .. Length(c, k) : Bytes(c, k)[j] = Byte(k, j)
<1>1. Length(c, k) \in Nat
  BY LengthType
<1>2. Bytes(c, k) = [j \in 1 .. Length(c, k) |-> Byte(k, j)]
  BY DEF Bytes, Length
<1>3. \A j \in 1 .. Length(c, k) : Byte(k, j) \in Places
  BY <1>1 DEF Byte, Places
<1>4. QED
  BY <1>1, <1>2, <1>3

\* One more packet is sent.
LEMMA Grows ==
  ASSUME NEW c \in Conns, NEW r, NEW n \in Nat, NEW broken, ~broken, NEW k, NEW i,
         Runs(c, r, n, broken, k, i), n + 1 <= Len(Sizes[c])
  PROVE  Runs(c, r \o Bytes(c, n + 1), n + 1, broken, k, i)
<1> DEFINE m == n + 1
           b == Bytes(c, m)
           s == r \o b
           L == Length(c, m)
<1>1. m \in Nat /\ m <= Len(Sizes[c]) /\ n <= Len(Sizes[c]) /\ n <= m /\ m <= m
  BY LengthType
<1>2. /\ b \in Seq(Places) /\ Len(b) = L /\ L \in Nat /\ L > 0
      /\ \A j \in 1 .. L : b[j] = Byte(m, j)
  <2> HIDE DEF m
  <2>1. /\ b \in Seq(Places) /\ Len(b) = L
        /\ \A j \in 1 .. L : b[j] = Byte(m, j)
    BY <1>1, BytesAre, Zenon
  <2>2. L \in Nat /\ L >= SizeBytes /\ SizeBytes \in Nat /\ SizeBytes > 0
    BY <1>1, LengthType, Zenon
  <2> HIDE DEF L
  <2>3. L > 0
    BY <2>2
  <2>4. QED
    BY <2>1, <2>2, <2>3, Zenon
<1>3. r \in Seq(Places) /\ Len(r) \in Nat
  BY LenProperties DEF Runs
<1>4. /\ s \in Seq(Places) /\ Len(s) = Len(r) + L
      /\ \A j \in 1 .. Len(r) + L : s[j] = IF j <= Len(r) THEN r[j] ELSE b[j - Len(r)]
  <2> HIDE DEF b, L
  <2>1. QED
    BY <1>2, <1>3, ConcatProperties
<1> HIDE DEF s, b, L
<1>5. ASSUME NEW j \in 1 .. Len(s) - 1
      PROVE  s[j + 1] = NextByte(c, s[j])
  <2> DEFINE y == j + 1
  <2>0. /\ j \in 1 .. Len(r) + L /\ y \in 1 .. Len(r) + L /\ j \in Nat /\ y \in Nat /\ y = j + 1
        /\ s[j] = (IF j <= Len(r) THEN r[j] ELSE b[j - Len(r)])
        /\ s[y] = (IF y <= Len(r) THEN r[y] ELSE b[y - Len(r)])
    <3>1. j \in 1 .. Len(r) + L /\ y \in 1 .. Len(r) + L /\ j \in Nat /\ y \in Nat
      BY <1>2, <1>3, <1>4
    <3> HIDE DEF y
    <3>2. QED
      BY <1>4, <3>1 DEF y
  <2>1. CASE j + 1 <= Len(r)
    <3>1. s[j] = r[j] /\ s[j + 1] = r[j + 1] /\ j \in 1 .. Len(r) - 1
      BY <1>2, <1>3, <2>0, <2>1
    <3>2. QED
      BY <3>1 DEF Runs
  <2>2. CASE j = Len(r)
    <3>1. s[j] = r[Len(r)] /\ s[j + 1] = b[1]
      BY <1>2, <1>3, <1>4, <2>2
    <3>2. r # <<>>
      BY <2>2, EmptySeq
    <3>3. r[Len(r)] = Byte(n, Length(c, n)) /\ Length(c, n) \in Nat
      BY <1>1, <3>2, LengthType DEF Runs
    <3>4. b[1] = Byte(n + 1, 1)
      BY <1>2 DEF m
    <3>5. QED
      BY <3>1, <3>3, <3>4, ByteIs DEF NextByte
  <2>3. CASE j > Len(r)
    <3> DEFINE x == j - Len(r)
    <3>1. x \in 1 .. L /\ x + 1 \in 1 .. L /\ x # L /\ x \in Nat /\ s[j] = b[x] /\ s[j + 1] = b[x + 1]
      <4>1. x \in 1 .. L /\ x + 1 \in 1 .. L /\ x # L /\ x \in Nat /\ y - Len(r) = x + 1
        BY <1>2, <1>3, <1>4, <2>3
      <4>2. s[j] = b[x]
        BY <1>3, <2>0, <2>3
      <4>3. s[y] = b[y - Len(r)]
        BY <1>3, <2>0, <2>3
      <4> HIDE DEF x
      <4>4. s[y] = b[x + 1]
        BY <4>1, <4>3
      <4>5. QED
        BY <4>1, <4>2, <4>4
    <3> HIDE DEF x
    <3>2. s[j] = Byte(m, x) /\ s[j + 1] = Byte(m, x + 1)
      BY <1>2, <3>1
    <3> HIDE DEF m
    <3>3. QED
      BY <1>1, <3>1, <3>2, ByteIs DEF NextByte, L
  <2>4. QED
    BY <1>3, <2>1, <2>2, <2>3
<1>6. ASSUME NEW j \in 1 .. Len(s)
      PROVE  s[j][1] <= m
  <2>1. CASE j <= Len(r)
    <3>1. s[j] = r[j] /\ j \in 1 .. Len(r)
      BY <1>2, <1>3, <1>4, <2>1
    <3>2. r[j][1] <= n /\ r[j] \in Places
      BY <1>3, <3>1, ElementOfSeq DEF Runs
    <3>3. QED
      BY <3>1, <3>2 DEF Places
  <2>2. CASE ~(j <= Len(r))
    <3> DEFINE x == j - Len(r)
    <3>1. s[j] = b[x] /\ x \in 1 .. L /\ x \in Nat
      BY <1>2, <1>3, <1>4, <2>2
    <3> HIDE DEF x
    <3>2. s[j] = Byte(m, x)
      BY <1>2, <3>1
    <3> HIDE DEF m
    <3>3. QED
      BY <1>1, <3>1, <3>2, ByteIs
  <2>3. QED
    BY <2>1, <2>2
<1>7. s # <<>> /\ s[1] = Byte(k, i)
  <2>1. s # <<>>
    BY <1>2, <1>3, <1>4, EmptySeq
  <2>2. CASE r = <<>>
    <3>1. s[1] = b[1] /\ b[1] = Byte(m, 1)
      BY <1>2, <1>3, <1>4, <2>2, EmptySeq
    <3>2. k = m /\ i = 1
      BY <2>2 DEF Runs
    <3>3. QED
      BY <2>1, <3>1, <3>2
  <2>3. CASE r # <<>>
    <3>1. Len(r) # 0
      BY <1>3, <2>3, EmptySeq
    <3>2. s[1] = r[1]
      BY <1>2, <1>3, <1>4, <3>1
    <3>3. QED
      BY <2>1, <2>3, <3>2 DEF Runs
  <2>4. QED
    BY <2>2, <2>3
<1>8. s[Len(s)] = Byte(m, Length(c, m))
  <2>1. s[Len(s)] = b[L]
    BY <1>2, <1>3, <1>4
  <2>2. QED
    BY <1>2, <2>1 DEF L
<1>9. Runs(c, s, m, broken, k, i)
  BY <1>4, <1>5, <1>6, <1>7, <1>8 DEF Runs
<1>10. QED
  BY <1>9 DEF s, b

\* The stream is cut off after x bytes.
LEMMA Breaks ==
  ASSUME NEW c \in Conns, NEW r, NEW n, NEW broken, NEW k, NEW i,
         Runs(c, r, n, broken, k, i), NEW x \in 0 .. Len(r)
  PROVE  Runs(c, SubSeq(r, 1, x), n, TRUE, k, i)
<1> DEFINE s == SubSeq(r, 1, x)
<1>1. r \in Seq(Places) /\ Len(r) \in Nat /\ x \in Nat
  BY LenProperties DEF Runs
<1>2. /\ s \in Seq(Places) /\ Len(s) = x
      /\ \A j \in 1 .. x : s[j] = r[j]
  <2>1. \A j \in 1 .. x : r[j] \in Places
    BY <1>1, ElementOfSeq
  <2>2. /\ s \in Seq(Places)
        /\ Len(s) = IF 1 <= x THEN x - 1 + 1 ELSE 0
        /\ \A j \in 1 .. x - 1 + 1 : s[j] = r[1 + j - 1]
    BY <1>1, <2>1, SubSeqProperties
  <2> HIDE DEF s
  <2>3. \A j \in 1 .. x : 1 + j - 1 = j
    BY <1>1
  <2>4. QED
    BY <1>1, <2>2, <2>3
<1> HIDE DEF s
<1>3. \A j \in 1 .. Len(s) - 1 : s[j + 1] = NextByte(c, s[j])
  <2> SUFFICES ASSUME NEW j \in 1 .. Len(s) - 1 PROVE s[j + 1] = NextByte(c, s[j])
    OBVIOUS
  <2>1. j \in 1 .. x /\ j + 1 \in 1 .. x /\ j \in 1 .. Len(r) - 1
    BY <1>1, <1>2
  <2>2. s[j] = r[j] /\ s[j + 1] = r[j + 1]
    BY <1>2, <2>1
  <2>3. QED
    BY <2>1, <2>2 DEF Runs
<1>4. \A j \in 1 .. Len(s) : s[j][1] <= n
  BY <1>1, <1>2 DEF Runs
<1>5. s # <<>> => s[1] = Byte(k, i)
  <2> SUFFICES ASSUME s # <<>> PROVE s[1] = Byte(k, i)
    OBVIOUS
  <2>1. Len(s) # 0
    BY <1>2, EmptySeq
  <2>2. s[1] = r[1] /\ r # <<>>
    BY <1>1, <1>2, <2>1, EmptySeq
  <2>3. QED
    BY <2>2 DEF Runs
<1>6. Runs(c, s, n, TRUE, k, i)
  BY <1>2, <1>3, <1>4, <1>5 DEF Runs
<1>7. QED
  BY <1>6 DEF s

\* Before a connection begins, and the line of the proxy.
LEMMA Begins ==
  ASSUME NEW c \in Conns
  PROVE  Runs(c, <<>>, 0, FALSE, 1, 1) /\ Runs(c, Bytes(c, 0), 0, FALSE, 0, 1)
<1>1. Runs(c, <<>>, 0, FALSE, 1, 1)
  BY EmptySeq DEF Runs
<1> DEFINE b == Bytes(c, 0)
<1>2. /\ b \in Seq(Places) /\ Len(b) = HeaderLen /\ HeaderLen \in Nat /\ HeaderLen > 0
      /\ \A j \in 1 .. HeaderLen : b[j] = Byte(0, j)
  <2>1. Len(Sizes[c]) \in Nat /\ Length(c, 0) = HeaderLen
    BY LengthType, ConnectionAssumption DEF Length
  <2>2. QED
    BY <2>1, BytesAre, ConnectionAssumption
<1> HIDE DEF b
<1>3. \A j \in 1 .. Len(b) - 1 : b[j + 1] = NextByte(c, b[j])
  <2> SUFFICES ASSUME NEW j \in 1 .. Len(b) - 1 PROVE b[j + 1] = NextByte(c, b[j])
    OBVIOUS
  <2>1. j \in Nat /\ j # HeaderLen /\ b[j] = Byte(0, j) /\ b[j + 1] = Byte(0, j + 1)
    BY <1>2
  <2>2. QED
    BY <2>1, ByteIs DEF NextByte, Length
<1>4. \A j \in 1 .. Len(b) : b[j][1] <= 0
  BY <1>2, ByteIs
<1>5. b # <<>> /\ b[1] = Byte(0, 1) /\ b[Len(b)] = Byte(0, Length(c, 0))
  BY <1>2, EmptySeq DEF Length
<1>6. Runs(c, b, 0, FALSE, 0, 1)
  BY <1>2, <1>3, <1>4, <1>5 DEF Runs
<1>7. QED
  BY <1>1, <1>6 DEF b

-----------------------------------------------------------------------------
(* Buffers.                                                                *)

\* A piece of the wire that is moved to the buffer.
LEMMA Moves ==
  ASSUME NEW a \in Seq(Places), NEW w \in Seq(Places), NEW x \in 0 .. Len(w)
  PROVE  /\ SubSeq(w, 1, x) \in Seq(Places) /\ Len(SubSeq(w, 1, x)) = x
         /\ SubSeq(w, x + 1, Len(w)) \in Seq(Places)
         /\ a \o SubSeq(w, 1, x) \in Seq(Places) /\ Len(a \o SubSeq(w, 1, x)) = Len(a) + x
         /\ (a \o SubSeq(w, 1, x)) \o SubSeq(w, x + 1, Len(w)) = a \o w
<1> DEFINE data == SubSeq(w, 1, x)
           left == SubSeq(w, x + 1, Len(w))
<1>1. Len(w) \in Nat /\ x \in Nat /\ \A j \in 1 .. Len(w) : w[j] \in Places
  BY LenProperties, ElementOfSeq
<1>2. data \in Seq(Places) /\ Len(data) = x
  <2>1. /\ data \in Seq(Places)
        /\ Len(data) = IF 1 <= x THEN x - 1 + 1 ELSE 0
    BY <1>1, SubSeqProperties
  <2> HIDE DEF data
  <2>2. QED
    BY <1>1, <2>1
<1>3. left \in Seq(Places)
  BY <1>1, SubSeqProperties
<1>4. data \o left = w
  <2>1. SubSeq(w, 1, x) \o SubSeq(w, x + 1, Len(w)) = SubSeq(w, 1, Len(w))
    <3>1. 1 \in 1 .. Len(w) + 1 /\ x \in 1 - 1 .. Len(w) /\ Len(w) \in x .. Len(w)
      BY <1>1
    <3>2. QED
      BY <3>1, ConcatAdjacentSubSeq
  <2>2. SubSeq(w, 1, Len(w)) = w
    BY SubSeqFull
  <2>3. QED
    BY <2>1, <2>2
<1> HIDE DEF data, left
<1>5. (a \o data) \o left = a \o w
  <2>1. (a \o data) \o left = a \o (data \o left)
    BY <1>2, <1>3, ConcatAssociative
  <2>2. QED
    BY <1>4, <2>1
<1>6. a \o data \in Seq(Places) /\ Len(a \o data) = Len(a) + x
  BY <1>2, ConcatProperties
<1>7. QED
  BY <1>2, <1>3, <1>5, <1>6 DEF data, left

\* Dropping the first m of what is in a buffer and on the wire.
LEMMA Drops ==
  ASSUME NEW b \in Seq(Places), NEW w \in Seq(Places), NEW m \in 0 .. Len(b)
  PROVE  /\ SubSeq(b, m + 1, Len(b)) \in Seq(Places)
         /\ Len(SubSeq(b, m + 1, Len(b))) = Len(b) - m
         /\ \A j \in 1 .. Len(b) - m : SubSeq(b, m + 1, Len(b))[j] = b[m + j]
         /\ SubSeq(b \o w, m + 1, Len(b \o w)) = SubSeq(b, m + 1, Len(b)) \o w
         /\ Len(b) \in Nat /\ Len(w) \in Nat /\ Len(b \o w) = Len(b) + Len(w) /\ b \o w \in Seq(Places)
         /\ \A j \in 1 .. Len(b) : (b \o w)[j] = b[j]
<1> DEFINE bw == b \o w
           d == SubSeq(b, m + 1, Len(b))
           e == SubSeq(bw, m + 1, Len(bw))
<1>1. /\ Len(b) \in Nat /\ Len(w) \in Nat /\ m \in Nat
      /\ bw \in Seq(Places) /\ Len(bw) = Len(b) + Len(w)
      /\ \A j \in 1 .. Len(b) + Len(w) : bw[j] = IF j <= Len(b) THEN b[j] ELSE w[j - Len(b)]
  BY LenProperties, ConcatProperties
<1>2. \A q \in Seq(Places) : m <= Len(q) =>
        /\ SubSeq(q, m + 1, Len(q)) \in Seq(Places)
        /\ Len(SubSeq(q, m + 1, Len(q))) = Len(q) - m
        /\ \A j \in 1 .. Len(q) - m : SubSeq(q, m + 1, Len(q))[j] = q[m + j]
  <2> SUFFICES ASSUME NEW q \in Seq(Places), m <= Len(q)
               PROVE  /\ SubSeq(q, m + 1, Len(q)) \in Seq(Places)
                      /\ Len(SubSeq(q, m + 1, Len(q))) = Len(q) - m
                      /\ \A j \in 1 .. Len(q) - m : SubSeq(q, m + 1, Len(q))[j] = q[m + j]
    OBVIOUS
  <2> DEFINE t == SubSeq(q, m + 1, Len(q))
  <2>1. Len(q) \in Nat /\ \A j \in (m + 1) .. Len(q) : q[j] \in Places
    BY <1>1, LenProperties, ElementOfSeq
  <2>2. /\ t \in Seq(Places)
        /\ Len(t) = IF m + 1 <= Len(q) THEN Len(q) - (m + 1) + 1 ELSE 0
        /\ \A j \in 1 .. Len(q) - (m + 1) + 1 : t[j] = q[(m + 1) + j - 1]
    BY <1>1, <2>1, SubSeqProperties
  <2> HIDE DEF t
  <2>3. \A j \in 1 .. Len(q) - m : (m + 1) + j - 1 = m + j
    BY <1>1, <2>1
  <2>4. t \in Seq(Places) /\ Len(t) = Len(q) - m /\ \A j \in 1 .. Len(q) - m : t[j] = q[m + j]
    BY <1>1, <2>1, <2>2, <2>3
  <2>5. QED
    BY <2>4 DEF t
<1>3. d \in Seq(Places) /\ Len(d) = Len(b) - m /\ \A j \in 1 .. Len(b) - m : d[j] = b[m + j]
  BY <1>1, <1>2
<1>4. e \in Seq(Places) /\ Len(e) = Len(bw) - m /\ \A j \in 1 .. Len(bw) - m : e[j] = bw[m + j]
  <2> HIDE DEF bw
  <2>1. m <= Len(bw)
    BY <1>1
  <2>2. QED
    BY <1>1, <1>2, <2>1
<1> HIDE DEF bw, d, e
<1>5. /\ d \o w \in Seq(Places) /\ Len(d \o w) = Len(d) + Len(w)
      /\ \A j \in 1 .. Len(d) + Len(w) : (d \o w)[j] = IF j <= Len(d) THEN d[j] ELSE w[j - Len(d)]
  BY <1>3, ConcatProperties
<1>6. e = d \o w
  <2>1. ASSUME NEW j \in 1 .. Len(e) PROVE e[j] = (d \o w)[j]
    <3>1. j \in 1 .. Len(bw) - m /\ m + j \in 1 .. Len(b) + Len(w) /\ j \in 1 .. Len(d) + Len(w)
      BY <1>1, <1>3, <1>4
    <3>2. CASE j <= Len(d)
      <4>1. m + j <= Len(b) /\ j \in 1 .. Len(b) - m
        BY <1>1, <1>3, <3>1, <3>2
      <4>2. QED
        BY <1>1, <1>3, <1>4, <1>5, <3>1, <3>2, <4>1
    <3>3. CASE ~(j <= Len(d))
      <4>1. ~(m + j <= Len(b)) /\ (m + j) - Len(b) = j - Len(d)
        BY <1>1, <1>3, <3>1, <3>3
      <4>2. e[j] = w[(m + j) - Len(b)]
        BY <1>1, <1>4, <3>1, <4>1
      <4>3. (d \o w)[j] = w[j - Len(d)]
        BY <1>5, <3>1, <3>3
      <4>4. QED
        BY <4>1, <4>2, <4>3
    <3>4. QED
      BY <3>2, <3>3
  <2>2. Len(e) = Len(d \o w)
    BY <1>1, <1>3, <1>4, <1>5
  <2>3. QED
    BY <1>4, <1>5, <2>1, <2>2, SeqEqual
<1>7. \A j \in 1 .. Len(b) : bw[j] = b[j]
  BY <1>1
<1>8. QED
  BY <1>1, <1>3, <1>6, <1>7 DEF bw, d, e

\* The size of a packet, from its first bytes.
LEMMA UnpackIs ==
  ASSUME NEW c \in Conns, NEW k \in Nat \ {0}, k <= Len(Sizes[c]),
         NEW b \in Seq(Places), Len(b) = SizeBytes,
         \A j \in 1 .. SizeBytes : b[j] = Byte(k, j)
  PROVE  Unpack(c, b) = Sizes[c][k]
<1> DEFINE p == Bytes(c, k)
           q == SubSeq(p, 1, SizeBytes)
<1>1. /\ SizeBytes \in Nat /\ SizeBytes > 0 /\ Length(c, k) \in Nat /\ Length(c, k) >= SizeBytes
      /\ p \in Seq(Places) /\ Len(p) = Length(c, k)
      /\ \A j \in 1 .. Length(c, k) : p[j] = Byte(k, j)
  BY LengthType, BytesAre
<1> HIDE DEF p
<1>2. /\ q \in Seq(Places) /\ Len(q) = SizeBytes
      /\ \A j \in 1 .. SizeBytes : q[j] = p[j]
  <2>1. \A j \in 1 .. SizeBytes : p[j] \in Places
    BY <1>1, ElementOfSeq
  <2>2. /\ q \in Seq(Places)
        /\ Len(q) = IF 1 <= SizeBytes THEN SizeBytes - 1 + 1 ELSE 0
        /\ \A j \in 1 .. SizeBytes - 1 + 1 : q[j] = p[1 + j - 1]
    BY <1>1, <2>1, SubSeqProperties
  <2> HIDE DEF q
  <2>3. SizeBytes \in Nat \ {0} /\ SizeBytes - 1 + 1 = SizeBytes
    BY <1>1
  <2>4. Len(q) = SizeBytes
    BY <2>2, <2>3
  <2>5. ASSUME NEW j \in 1 .. SizeBytes
        PROVE  q[j] = p[j]
    <3>1. 1 + j - 1 = j /\ j \in 1 .. SizeBytes - 1 + 1
      BY <2>3
    <3>2. q[j] = p[1 + j - 1]
      BY <2>2, <3>1
    <3>3. QED
      BY <3>1, <3>2, Zenon
  <2>6. QED
    BY <2>2, <2>4, <2>5
<1> HIDE DEF q
<1>3. \A j \in 1 .. Len(b) : b[j] = q[j]
  BY <1>1, <1>2
<1>4. b = q
  BY <1>2, <1>3, SeqEqual
<1>5. b[1][1] = k
  BY <1>1, ByteIs
<1>6. b[1][1] > 0 /\ b = SubSeq(Bytes(c, b[1][1]), 1, SizeBytes)
  <2>1. b = SubSeq(Bytes(c, k), 1, SizeBytes) /\ k > 0
    BY <1>4 DEF q, p
  <2>2. QED
    BY <1>5, <2>1, Zenon
<1>7. QED
  BY <1>5, <1>6, Zenon DEF Unpack

-----------------------------------------------------------------------------
(* The invariant of a connection.                                          *)

Inactive == {"new", "anonymous", "refuse", "refused", "load", "gone"}
HandlerType == [at : Running \cup {"done"}, buffer : Seq(Places), size : Nat, short : BOOLEAN]

NetType ==
  /\ peer \in [Conns -> {"new", "alive", "silent", "closed"}]
  /\ sent \in [Conns -> Nat]
  /\ cut \in [Conns -> BOOLEAN]
  /\ wire \in [Conns -> Seq(Places)]
  /\ handler \in [Conns -> HandlerType]
  /\ got \in [Conns -> Seq(Seq(Places))]
  /\ phase \in [Conns -> Inactive \cup Connecting \cup {"named", "leave"}]

\* What the handler h of c reads next, when g packets of n have been given to
\* on_packet and w is on the wire.
Reads(c, h, w, g, n, broken) ==
  LET rest == h.buffer \o w IN
  /\ h.at = "size" =>
       /\ Len(h.buffer) < SizeBytes
       /\ \/ Runs(c, rest, n, broken, g + 1, 1)
          \/ c \in Proxied /\ g = 0 /\ Runs(c, rest, n, broken, 0, 1)
  /\ h.at = "header" =>
       /\ g = 0
       /\ Runs(c, rest, n, broken, 0, 1)
       /\ \A j \in 1 .. Len(h.buffer) : h.buffer[j] # EndOfLine
  /\ h.at = "remainder" => Runs(c, rest, n, broken, g + 1, 1)
  /\ h.at = "body" =>
       /\ g + 1 <= n
       /\ h.size = Sizes[c][g + 1]
       /\ Len(h.buffer) < h.size
       /\ Runs(c, rest, n, broken, g + 1, SizeBytes + 1)

ReadsInv(c) == Reads(c, handler[c], wire[c], Len(got[c]), sent[c], cut[c])

PacketsInv(c) ==
  /\ sent[c] <= Len(Sizes[c])
  /\ Len(got[c]) <= sent[c]
  /\ \A k \in 1 .. Len(got[c]) : got[c][k] = Body(c, k)

PeerInv(c) ==
  /\ peer[c] = "new" <=> phase[c] = "new"
  /\ peer[c] = "new" => got[c] = <<>> /\ sent[c] = 0 /\ handler[c].at = "done"
  /\ peer[c] # "closed" => ~cut[c]
  /\ handler[c] = Ended /\ phase[c] # "new" =>
       peer[c] \in {"silent", "closed"} /\ (~cut[c] => Len(got[c]) = sent[c])

ConnInv(c) == ReadsInv(c) /\ PacketsInv(c) /\ PeerInv(c)
NetInv == NetType /\ \A c \in Conns : ConnInv(c)

\* A step in which the handler of c goes on, and w is left on the wire.
GoesOn(c, w) ==
  /\ Reads(c, handler'[c], w, Len(got'[c]), sent[c], cut[c])
  /\ handler' \in [Conns -> HandlerType] /\ handler'[c] # Ended
  /\ got' \in [Conns -> Seq(Seq(Places))]
  /\ Len(got'[c]) <= sent[c]
  /\ \A j \in 1 .. Len(got'[c]) : got'[c][j] = Body(c, j)
  /\ \A d \in Conns \ {c} : handler'[d] = handler[d] /\ got'[d] = got[d] /\ phase'[d] = phase[d]
  /\ phase' \in [Conns -> Inactive \cup Connecting \cup {"named", "leave"}]
  /\ phase'[c] = "new" <=> phase[c] = "new"

\* The parts of the state of c that the invariant is about.
SameNet(c) ==
  /\ peer'[c] = peer[c] /\ sent'[c] = sent[c] /\ cut'[c] = cut[c]
  /\ wire'[c] = wire[c] /\ handler'[c] = handler[c] /\ got'[c] = got[c]
  /\ (phase'[c] = "new" <=> phase[c] = "new")

\* A connection that a step leaves alone.
LEMMA SameConn ==
  ASSUME NEW c, ConnInv(c), SameNet(c)
  PROVE  ConnInv(c)'
<1>1. ReadsInv(c)'
  BY DEF ConnInv, ReadsInv, SameNet
<1>2. PacketsInv(c)'
  BY DEF ConnInv, PacketsInv, SameNet
<1>3. PeerInv(c)'
  BY DEF ConnInv, PeerInv, SameNet
<1>4. QED
  BY <1>1, <1>2, <1>3 DEF ConnInv

\* The types of the parts of one connection.
LEMMA ConnTypes ==
  ASSUME NetType, NEW c \in Conns
  PROVE  /\ sent[c] \in Nat /\ cut[c] \in BOOLEAN /\ wire[c] \in Seq(Places)
         /\ handler[c] \in HandlerType /\ got[c] \in Seq(Seq(Places)) /\ Len(got[c]) \in Nat
         /\ handler[c].buffer \in Seq(Places) /\ handler[c].size \in Nat
         /\ handler[c].short \in BOOLEAN /\ Len(handler[c].buffer) \in Nat /\ Len(wire[c]) \in Nat
         /\ peer[c] \in {"new", "alive", "silent", "closed"}
<1>1. /\ sent[c] \in Nat /\ cut[c] \in BOOLEAN /\ wire[c] \in Seq(Places)
      /\ handler[c] \in HandlerType /\ got[c] \in Seq(Seq(Places))
      /\ peer[c] \in {"new", "alive", "silent", "closed"}
  BY DEF NetType
<1>2. /\ handler[c].buffer \in Seq(Places) /\ handler[c].size \in Nat /\ handler[c].short \in BOOLEAN
  BY <1>1 DEF HandlerType
<1>3. QED
  BY <1>1, <1>2, LenProperties

\* The last bytes of a body, all in the buffer: what follows is the next packet.
LEMMA BodyEnds ==
  ASSUME NEW c \in Conns, NEW n \in Nat, NEW broken, NEW k \in Nat, k <= n, n <= Len(Sizes[c]),
         NEW z \in Nat \ {0}, Length(c, k) = SizeBytes + z,
         NEW b \in Seq(Places), NEW w \in Seq(Places), Len(b) = z,
         Runs(c, b \o w, n, broken, k, SizeBytes + 1)
  PROVE  /\ \A j \in 1 .. z : b[j] = Byte(k, SizeBytes + j)
         /\ Runs(c, w, n, broken, k + 1, 1)
<1> DEFINE r == b \o w
           i == SizeBytes + 1
<1>1. k <= Len(Sizes[c]) /\ SizeBytes \in Nat /\ SizeBytes > 0
  <2>1. Len(Sizes[c]) \in Nat
    BY LengthType, ConnectionAssumption
  <2>2. k <= Len(Sizes[c])
    BY <2>1
  <2>3. QED
    BY <2>2, LengthType
<1>2. /\ i \in Nat \ {0} /\ i + z = Length(c, k) + 1 /\ i <= Length(c, k)
      /\ \A j \in 1 .. z : i + j <= Length(c, k) + 1 /\ i + j - 1 = SizeBytes + j
  <2>1. /\ i \in Nat \ {0} /\ i = SizeBytes + 1 /\ i + z = Length(c, k) + 1
        /\ i <= Length(c, k)
    BY <1>1
  <2> HIDE DEF i, r
  <2>2. ASSUME NEW j \in 1 .. z PROVE i + j <= Length(c, k) + 1 /\ i + j - 1 = SizeBytes + j
    BY <1>1, <2>1
  <2>3. QED
    BY <2>1, <2>2
<1>3. /\ SubSeq(r, z + 1, Len(r)) = SubSeq(b, z + 1, Len(b)) \o w
      /\ Len(r) \in Nat /\ z <= Len(r)
      /\ \A j \in 1 .. z : j \in 1 .. Len(r) /\ r[j] = b[j]
  <2>1. z \in 0 .. Len(b)
    OBVIOUS
  <2>2. /\ SubSeq(b, z + 1, Len(b)) \in Seq(Places)
        /\ Len(SubSeq(b, z + 1, Len(b))) = Len(b) - z
        /\ \A j \in 1 .. Len(b) - z : SubSeq(b, z + 1, Len(b))[j] = b[z + j]
        /\ SubSeq(r, z + 1, Len(r)) = SubSeq(b, z + 1, Len(b)) \o w
        /\ Len(b) \in Nat /\ Len(w) \in Nat /\ Len(r) = Len(b) + Len(w) /\ r \in Seq(Places)
        /\ \A j \in 1 .. Len(b) : r[j] = b[j]
    BY <2>1, Drops DEF r
  <2> HIDE DEF r
  <2>3. Len(r) \in Nat /\ z <= Len(r)
    BY <2>2
  <2>4. ASSUME NEW j \in 1 .. z PROVE j \in 1 .. Len(r) /\ r[j] = b[j]
    BY <2>2
  <2>5. QED
    BY <2>2, <2>3, <2>4
<1>4. SubSeq(b, z + 1, Len(b)) \o w = w
  <2>1. SubSeq(b, z + 1, Len(b)) = <<>>
    BY SubSeqEmpty
  <2>2. QED
    BY <2>1, ConcatEmptySeq
<1>5. Runs(c, r, n, broken, k, i)
  OBVIOUS
<1> HIDE DEF r, i
<1>6. Runs(c, w, n, broken, k + 1, 1)
  <2>1. i + z <= Length(c, k) + 1 /\ i + z = Length(c, k) + 1
    BY <1>1, <1>2
  <2>2. Runs(c, SubSeq(r, z + 1, Len(r)), n, broken, k + 1, 1)
    BY <1>1, <1>2, <1>3, <1>5, <2>1, Eats
  <2>3. QED
    BY <1>3, <1>4, <2>2
<1>7. ASSUME NEW j \in 1 .. z PROVE b[j] = Byte(k, SizeBytes + j)
  <2>1. /\ j \in 1 .. Len(r) /\ i \in Nat /\ i + j <= Length(c, k) + 1
        /\ Runs(c, r, n, broken, k, i) /\ k <= Len(Sizes[c])
    BY <1>1, <1>2, <1>3, <1>5
  <2>2. r[j] = Byte(k, i + j - 1)
    BY <2>1, Counts
  <2>3. QED
    BY <1>2, <1>3, <2>2
<1>8. QED
  BY <1>6, <1>7

\* on_packet is given the next packet.
LEMMA PacketGiven ==
  ASSUME NetInv, NEW c \in Conns,
         NEW k \in Nat, k = Len(got[c]) + 1, k <= sent[c],
         NEW b \in Seq(Places), b = Body(c, k), OnPacket(c, b)
  PROVE  /\ got' \in [Conns -> Seq(Seq(Places))]
         /\ Len(got'[c]) = k
         /\ \A j \in 1 .. Len(got'[c]) : got'[c][j] = Body(c, j)
         /\ \A d \in Conns \ {c} : got'[d] = got[d] /\ phase'[d] = phase[d]
         /\ phase' \in [Conns -> Inactive \cup Connecting \cup {"named", "leave"}]
         /\ phase'[c] = "new" <=> phase[c] = "new"
<1>1. /\ NetType /\ ConnInv(c) /\ got[c] \in Seq(Seq(Places)) /\ Len(got[c]) \in Nat
  <2>1. NetType /\ ConnInv(c)
    BY DEF NetInv
  <2>2. QED
    BY <2>1, ConnTypes
<1>2. /\ got' = [got EXCEPT ![c] = Append(got[c], b)]
      /\ phase' = [phase EXCEPT ![c] =
           IF phase[c] # "anonymous" THEN phase[c] ELSE IF row.is_blocked THEN "refuse" ELSE "load"]
  BY DEF OnPacket
<1>3. /\ got'[c] = Append(got[c], b) /\ got' \in [Conns -> Seq(Seq(Places))]
      /\ \A d \in Conns \ {c} : got'[d] = got[d]
  <2>1. Append(got[c], b) \in Seq(Seq(Places))
    BY <1>1, AppendProperties
  <2>2. QED
    BY <1>1, <1>2, <2>1 DEF NetType
<1>4. /\ Len(got'[c]) = k
      /\ \A j \in 1 .. Len(got[c]) : got'[c][j] = got[c][j]
      /\ got'[c][k] = b
  BY <1>1, <1>3, AppendProperties
<1>5. \A j \in 1 .. Len(got'[c]) : got'[c][j] = Body(c, j)
  <2> SUFFICES ASSUME NEW j \in 1 .. k PROVE got'[c][j] = Body(c, j)
    BY <1>4
  <2>1. CASE j = k
    BY <1>4, <2>1
  <2>2. CASE j # k
    <3>1. j \in 1 .. Len(got[c])
      BY <1>1, <2>2
    <3>2. got[c][j] = Body(c, j)
      BY <1>1, <3>1 DEF ConnInv, PacketsInv
    <3>3. QED
      BY <1>4, <3>1, <3>2
  <2>3. QED
    BY <2>1, <2>2
<1>6. /\ phase' \in [Conns -> Inactive \cup Connecting \cup {"named", "leave"}]
      /\ phase'[c] = "new" <=> phase[c] = "new"
      /\ \A d \in Conns \ {c} : phase'[d] = phase[d]
  BY <1>1, <1>2 DEF NetType, Inactive
<1>7. QED
  BY <1>3, <1>4, <1>5, <1>6

\* The bytes after a size go to on_packet when they are all there, and wait in the
\* buffer when they are not.
LEMMA SizedPacket ==
  ASSUME NetInv, NEW c \in Conns,
         NEW k \in Nat, k = Len(got[c]) + 1, k <= sent[c],
         NEW z \in Nat, Length(c, k) = SizeBytes + z,
         NEW b \in Seq(Places), NEW w \in Seq(Places), NEW short \in BOOLEAN, Len(b) <= z,
         z = 0 => Runs(c, b \o w, sent[c], cut[c], k + 1, 1),
         z # 0 => Runs(c, b \o w, sent[c], cut[c], k, SizeBytes + 1),
         ReadSizedPacket(c, z, b, short)
  PROVE  GoesOn(c, w)
<1> DEFINE n == sent[c]
<1>1. /\ NetType /\ ConnInv(c) /\ n \in Nat /\ n <= Len(Sizes[c]) /\ k <= Len(Sizes[c]) /\ k # 0
      /\ Len(b) \in Nat /\ Len(got[c]) \in Nat
  <2>1. NetType /\ ConnInv(c)
    BY DEF NetInv
  <2>2. n \in Nat /\ Len(got[c]) \in Nat
    BY <2>1, ConnTypes
  <2>3. n <= Len(Sizes[c]) /\ Len(Sizes[c]) \in Nat
    BY <2>1, LengthType, ConnectionAssumption DEF ConnInv, PacketsInv
  <2>4. Len(b) \in Nat
    BY LenProperties
  <2> HIDE DEF n
  <2>5. QED
    BY <2>1, <2>2, <2>3, <2>4 DEF n
<1>2. SizeBytes \in Nat /\ SizeBytes > 0
  BY <1>1, LengthType
<1>3. z = Sizes[c][k]
  BY <1>1, LengthType
<1>4. CASE Need(z, b) = 0
  <2>1. Len(b) = z
    BY <1>1, <1>4 DEF Need
  <2>2. /\ OnPacket(c, b)
        /\ handler' = [handler EXCEPT ![c] = IF short THEN EndedShort ELSE AtSize(<<>>, FALSE)]
    BY <1>4 DEF ReadSizedPacket
  <2>3. /\ \A j \in 1 .. z : b[j] = Byte(k, SizeBytes + j)
        /\ Runs(c, w, n, cut[c], k + 1, 1)
    <3>1. CASE z = 0
      <4>1. b \o w = w
        <5>1. b = <<>>
          BY <2>1, <3>1, EmptySeq
        <5>2. QED
          BY <5>1, ConcatEmptySeq
      <4>2. QED
        BY <3>1, <4>1
    <3>2. CASE z # 0
      <4>1. n \in Nat /\ n <= Len(Sizes[c]) /\ k <= n /\ Runs(c, b \o w, n, cut[c], k, SizeBytes + 1)
            /\ z \in Nat \ {0}
        BY <1>1, <3>2
      <4> HIDE DEF n
      <4>2. QED
        BY <2>1, <4>1, BodyEnds
    <3>3. QED
      BY <3>1, <3>2
  <2>4. b = Body(c, k)
    <3>1. DOMAIN b = 1 .. z /\ b = [j \in 1 .. z |-> b[j]]
      BY <2>1, LenProperties
    <3>2. QED
      BY <1>3, <2>3, <3>1 DEF Body
  <2>5. /\ got' \in [Conns -> Seq(Seq(Places))] /\ Len(got'[c]) = k
        /\ \A j \in 1 .. Len(got'[c]) : got'[c][j] = Body(c, j)
        /\ \A d \in Conns \ {c} : got'[d] = got[d] /\ phase'[d] = phase[d]
        /\ phase' \in [Conns -> Inactive \cup Connecting \cup {"named", "leave"}]
        /\ phase'[c] = "new" <=> phase[c] = "new"
    BY <2>2, <2>4, PacketGiven
  <2>6. /\ handler'[c] = IF short THEN EndedShort ELSE AtSize(<<>>, FALSE)
        /\ \A d \in Conns \ {c} : handler'[d] = handler[d]
    BY <1>1, <2>2 DEF NetType
  <2>7. /\ EndedShort \in HandlerType /\ AtSize(<<>>, FALSE) \in HandlerType
        /\ EndedShort # Ended /\ AtSize(<<>>, FALSE) # Ended
    BY EmptySeq DEF EndedShort, AtSize, Ended, HandlerType, Running
  <2>8. handler' \in [Conns -> HandlerType] /\ handler'[c] # Ended
    BY <1>1, <2>2, <2>6, <2>7 DEF NetType
  <2>9. Reads(c, handler'[c], w, k, n, cut[c])
    <3>1. CASE short
      <4>1. handler'[c].at = "done"
        BY <2>6, <3>1 DEF EndedShort, Ended
      <4>2. QED
        BY <4>1 DEF Reads
    <3>2. CASE ~short
      <4>1. handler'[c].at = "size" /\ handler'[c].buffer = <<>>
        BY <2>6, <3>2 DEF AtSize
      <4>2. <<>> \o w = w /\ Len(<<>>) < SizeBytes
        BY <1>2, ConcatEmptySeq, EmptySeq
      <4> HIDE DEF n
      <4>3. QED
        BY <2>3, <4>1, <4>2 DEF Reads
    <3>3. QED
      BY <3>1, <3>2
  <2>10. Len(got'[c]) <= n
    BY <1>1, <2>5
  <2>11. QED
    BY <2>5, <2>6, <2>8, <2>9, <2>10 DEF GoesOn
<1>5. CASE Need(z, b) # 0
  <2>1. Len(b) < z /\ z # 0
    BY <1>1, <1>5 DEF Need
  <2> DEFINE h == [at |-> "body", buffer |-> b, size |-> z, short |-> short]
  <2>2. /\ handler' = [handler EXCEPT ![c] = h]
        /\ UNCHANGED <<got, phase>>
    BY <1>5 DEF ReadSizedPacket
  <2>3. h \in HandlerType /\ h # Ended /\ h.at = "body" /\ h.buffer = b /\ h.size = z
    BY DEF HandlerType, Running, Ended
  <2> HIDE DEF h
  <2>4. /\ handler'[c] = h /\ handler' \in [Conns -> HandlerType]
        /\ \A d \in Conns \ {c} : handler'[d] = handler[d]
    BY <1>1, <2>2, <2>3 DEF NetType
  <2>5. Runs(c, b \o w, n, cut[c], k, SizeBytes + 1)
    BY <2>1
  <2>6. Reads(c, h, w, Len(got[c]), n, cut[c])
    <3>1. Len(got[c]) + 1 = k
      BY <1>1
    <3> HIDE DEF n
    <3>2. /\ Len(got[c]) + 1 <= n
          /\ h.size = Sizes[c][Len(got[c]) + 1]
          /\ Len(h.buffer) < h.size
          /\ Runs(c, h.buffer \o w, n, cut[c], Len(got[c]) + 1, SizeBytes + 1)
      <4>1. k <= n
        BY DEF n
      <4>2. QED
        BY <1>3, <2>1, <2>3, <2>5, <3>1, <4>1, Zenon
    <3>3. QED
      BY <2>3, <3>2 DEF Reads
  <2>7. Len(got[c]) <= n /\ \A j \in 1 .. Len(got[c]) : got[c][j] = Body(c, j)
    BY <1>1 DEF ConnInv, PacketsInv
  <2>8. QED
    BY <1>1, <2>2, <2>3, <2>4, <2>6, <2>7 DEF NetType, GoesOn
<1>6. QED
  BY <1>4, <1>5

\* A buffer that is not empty begins where the run does.
LEMMA StartsWith ==
  ASSUME NEW c, NEW n, NEW broken, NEW k \in Nat, NEW i \in Nat,
         NEW b \in Seq(Places), b # <<>>, NEW w \in Seq(Places), Runs(c, b \o w, n, broken, k, i)
  PROVE  b[1] = Byte(k, i) /\ k <= n
<1> DEFINE r == b \o w
<1>1. Len(b) \in Nat /\ 0 \in 0 .. Len(b) /\ 1 \in 1 .. Len(b)
  BY LenProperties, EmptySeq
<1>2. /\ Len(w) \in Nat /\ Len(r) = Len(b) + Len(w)
      /\ \A j \in 1 .. Len(b) : r[j] = b[j]
  BY <1>1, Drops
<1> HIDE DEF r
<1>3. 1 \in 1 .. Len(r) /\ r # <<>>
  BY <1>1, <1>2, EmptySeq
<1>4. r[1] = Byte(k, i) /\ r[1][1] <= n
  BY <1>3 DEF Runs, r
<1>5. QED
  BY <1>1, <1>2, <1>4, ByteIs

\* Within a packet a buffer counts its bytes.
LEMMA BufferCounts ==
  ASSUME NEW c \in Conns, NEW n, NEW broken, NEW k \in Nat, k <= Len(Sizes[c]), NEW i \in Nat,
         NEW b \in Seq(Places), NEW w \in Seq(Places), Runs(c, b \o w, n, broken, k, i)
  PROVE  \A j \in 1 .. Len(b) : i + j <= Length(c, k) + 1 => b[j] = Byte(k, i + j - 1)
<1> DEFINE r == b \o w
<1>1. Len(b) \in Nat /\ 0 \in 0 .. Len(b)
  BY LenProperties
<1>2. /\ Len(w) \in Nat /\ Len(r) = Len(b) + Len(w)
      /\ \A j \in 1 .. Len(b) : r[j] = b[j]
  BY <1>1, Drops
<1>3. Runs(c, r, n, broken, k, i)
  OBVIOUS
<1> HIDE DEF r
<1>4. \A j \in 1 .. Len(b) : j \in 1 .. Len(r)
  BY <1>1, <1>2
<1>5. ASSUME NEW j \in 1 .. Len(b), i + j <= Length(c, k) + 1 PROVE b[j] = Byte(k, i + j - 1)
  <2>1. r[j] = Byte(k, i + j - 1)
    BY <1>3, <1>4, <1>5, Counts
  <2>2. QED
    BY <1>2, <2>1
<1>6. QED
  BY <1>5

\* The size of the next packet, once its bytes are in the buffer b.
LEMMA SizeRead ==
  ASSUME NEW c \in Conns, NEW n \in Nat, NEW broken, NEW k \in Nat \ {0}, n <= Len(Sizes[c]),
         NEW b \in Seq(Places), NEW w \in Seq(Places), Len(b) >= SizeBytes,
         Runs(c, b \o w, n, broken, k, 1)
  PROVE  \E z \in Nat :
           /\ k <= n /\ Length(c, k) = SizeBytes + z
           /\ Unpack(c, SubSeq(b, 1, SizeBytes)) = z
           /\ SubSeq(b, SizeBytes + 1, Len(b)) \in Seq(Places)
           /\ Len(SubSeq(b, SizeBytes + 1, Len(b))) = Len(b) - SizeBytes
           /\ z = 0 => Runs(c, SubSeq(b, SizeBytes + 1, Len(b)) \o w, n, broken, k + 1, 1)
           /\ z # 0 => Runs(c, SubSeq(b, SizeBytes + 1, Len(b)) \o w, n, broken, k, SizeBytes + 1)
<1> DEFINE r == b \o w
           d == SubSeq(b, SizeBytes + 1, Len(b))
           q == SubSeq(b, 1, SizeBytes)
<1>1. /\ SizeBytes \in Nat /\ SizeBytes > 0 /\ Len(b) \in Nat /\ Len(Sizes[c]) \in Nat
      /\ SizeBytes \in 0 .. Len(b)
  <2>1. SizeBytes \in Nat /\ SizeBytes > 0 /\ Len(b) \in Nat
    BY ConnectionAssumption, LenProperties
  <2>2. Len(Sizes[c]) \in Nat
    BY LengthType, ConnectionAssumption
  <2>3. QED
    BY <2>1, <2>2
<1>2. /\ d \in Seq(Places) /\ Len(d) = Len(b) - SizeBytes
      /\ SubSeq(r, SizeBytes + 1, Len(r)) = d \o w
      /\ Len(w) \in Nat /\ Len(r) = Len(b) + Len(w) /\ r \in Seq(Places)
      /\ \A j \in 1 .. Len(b) : r[j] = b[j]
  BY <1>1, Drops
<1>3. Runs(c, r, n, broken, k, 1)
  OBVIOUS
<1> HIDE DEF r, d, q
<1>4. Len(r) \in Nat /\ SizeBytes <= Len(r) /\ 1 \in 1 .. Len(r) /\ r # <<>>
  BY <1>1, <1>2, EmptySeq
<1>5. k <= n /\ k <= Len(Sizes[c])
  <2>1. r[1] = Byte(k, 1) /\ r[1][1] <= n
    BY <1>3, <1>4 DEF Runs
  <2>2. k <= n
    BY <2>1, ByteIs
  <2>3. QED
    BY <1>1, <2>2
<1>6. ASSUME NEW j \in 1 .. SizeBytes PROVE b[j] = Byte(k, j)
  <2> DEFINE i == 1
  <2>1. /\ j \in 1 .. Len(r) /\ i \in Nat /\ i + j <= Length(c, k) + 1
        /\ Runs(c, r, n, broken, k, i) /\ k \in Nat /\ k <= Len(Sizes[c])
    BY <1>1, <1>3, <1>4, <1>5, LengthType
  <2>2. i + j - 1 = j /\ j \in 1 .. Len(b)
    BY <1>1
  <2> HIDE DEF i
  <2>3. r[j] = Byte(k, i + j - 1)
    BY <2>1, Counts
  <2>4. QED
    BY <1>2, <2>2, <2>3
<1>7. PICK z \in Nat : z = Sizes[c][k]
  BY <1>5, LengthType
<1>8. Length(c, k) = SizeBytes + z /\ Length(c, k) \in Nat
  BY <1>5, <1>7, LengthType
<1>9. Unpack(c, q) = z
  <2>1. \A j \in 1 .. SizeBytes : b[j] \in Places
    BY <1>1, ElementOfSeq
  <2>2. /\ q \in Seq(Places)
        /\ Len(q) = IF 1 <= SizeBytes THEN SizeBytes - 1 + 1 ELSE 0
        /\ \A j \in 1 .. SizeBytes - 1 + 1 : q[j] = b[1 + j - 1]
    BY <1>1, <2>1, SubSeqProperties DEF q
  <2>3. Len(q) = SizeBytes
    BY <1>1, <2>2
  <2>4. ASSUME NEW j \in 1 .. SizeBytes PROVE q[j] = Byte(k, j)
    <3>1. j \in 1 .. SizeBytes - 1 + 1 /\ 1 + j - 1 = j
      BY <1>1
    <3>2. QED
      BY <1>6, <2>2, <3>1
  <2>5. QED
    BY <1>5, <1>7, <2>2, <2>3, <2>4, UnpackIs
<1>10. /\ z = 0 => Runs(c, d \o w, n, broken, k + 1, 1)
       /\ z # 0 => Runs(c, d \o w, n, broken, k, SizeBytes + 1)
  <2>1. /\ 1 \in Nat \ {0} /\ 1 <= Length(c, k) /\ 1 + SizeBytes <= Length(c, k) + 1
        /\ 1 + SizeBytes = SizeBytes + 1
        /\ z = 0 <=> 1 + SizeBytes = Length(c, k) + 1
    BY <1>1, <1>8
  <2>2. /\ 1 + SizeBytes = Length(c, k) + 1 =>
             Runs(c, SubSeq(r, SizeBytes + 1, Len(r)), n, broken, k + 1, 1)
        /\ 1 + SizeBytes # Length(c, k) + 1 =>
             Runs(c, SubSeq(r, SizeBytes + 1, Len(r)), n, broken, k, 1 + SizeBytes)
    BY <1>1, <1>3, <1>4, <1>5, <2>1, Eats
  <2>3. QED
    BY <1>2, <2>1, <2>2
<1>11. QED
  BY <1>2, <1>5, <1>8, <1>9, <1>10 DEF d, q

\* A stream that is not cut does not end within a packet.
LEMMA EndsWhole ==
  ASSUME NEW c \in Conns, NEW n \in Nat, NEW broken, ~broken, NEW k \in Nat, NEW i \in Nat,
         n <= Len(Sizes[c]), k <= n, NEW b, Runs(c, b, n, broken, k, i)
  PROVE  b # <<>> /\ i + Len(b) >= Length(c, k) + 1
<1>1. Len(b) \in Nat /\ b \in Seq(Places) /\ Len(Sizes[c]) \in Nat
  BY LenProperties, LengthType, ConnectionAssumption DEF Runs
<1>2. k <= Len(Sizes[c]) /\ k # n + 1
  BY <1>1
<1>3. b # <<>> /\ b[Len(b)] = Byte(n, Length(c, n))
  BY <1>2 DEF Runs
<1>4. Length(c, k) \in Nat /\ Length(c, n) \in Nat
  BY <1>2, LengthType
<1>5. SUFFICES ASSUME i + Len(b) < Length(c, k) + 1 PROVE FALSE
  BY <1>1, <1>3, <1>4
<1> DEFINE j == Len(b)
<1>6. /\ j \in 1 .. Len(b) /\ i + j <= Length(c, k) + 1 /\ k <= Len(Sizes[c])
      /\ Runs(c, b, n, broken, k, i)
  BY <1>1, <1>2, <1>3, <1>4, <1>5, EmptySeq
<1>7. b[j] = Byte(k, i + j - 1)
  <2> HIDE DEF j
  <2>1. QED
    BY <1>6, Counts
<1>8. k = n /\ i + j - 1 = Length(c, n)
  BY <1>3, <1>7 DEF Byte
<1>9. QED
  BY <1>1, <1>4, <1>5, <1>8

\* One more packet behind what is in a buffer and on the wire.
LEMMA GrowsBehind ==
  ASSUME NEW c \in Conns, NEW b \in Seq(Places), NEW w \in Seq(Places),
         NEW n \in Nat, NEW broken, ~broken, n + 1 <= Len(Sizes[c]),
         NEW k, NEW i, Runs(c, b \o w, n, broken, k, i)
  PROVE  Runs(c, b \o (w \o Bytes(c, n + 1)), n + 1, broken, k, i)
<1> DEFINE m == n + 1
           p == Bytes(c, m)
           r == b \o w
           v == w \o p
<1>1. p \in Seq(Places)
  <2>1. m \in Nat /\ m <= Len(Sizes[c])
    OBVIOUS
  <2> HIDE DEF m
  <2>2. QED
    BY <2>1, BytesAre
<1>2. Runs(c, r \o p, m, broken, k, i)
  <2>1. Runs(c, r, n, broken, k, i)
    OBVIOUS
  <2> HIDE DEF r
  <2>2. QED
    BY <2>1, Grows
<1> HIDE DEF m, p
<1>3. r \o p = b \o v
  BY <1>1, ConcatAssociative
<1> HIDE DEF r, v
<1>4. Runs(c, b \o v, m, broken, k, i)
  BY <1>2, <1>3
<1>5. QED
  BY <1>4 DEF m, p, v

\* What is read next stays what it was when a packet is sent,
LEMMA ReadsGrow ==
  ASSUME NEW c \in Conns, NEW h \in HandlerType, NEW w \in Seq(Places), NEW g \in Nat,
         NEW n \in Nat, NEW broken, ~broken, n + 1 <= Len(Sizes[c]), Reads(c, h, w, g, n, broken)
  PROVE  Reads(c, h, w \o Bytes(c, n + 1), g, n + 1, broken)
<1> DEFINE b == h.buffer
           v == w \o Bytes(c, n + 1)
           m == n + 1
<1>1. b \in Seq(Places)
  BY DEF HandlerType
<1>2. ASSUME NEW k, NEW i, Runs(c, b \o w, n, broken, k, i)
      PROVE  Runs(c, b \o v, m, broken, k, i)
  <2> HIDE DEF b
  <2>1. QED
    BY <1>1, <1>2, GrowsBehind
<1>3. g + 1 <= n => g + 1 <= m
  OBVIOUS
<1> HIDE DEF m, v
<1>4. Reads(c, h, v, g, m, broken)
  BY <1>2, <1>3, Zenon DEF Reads, b
<1>5. QED
  BY <1>4 DEF m, v

\* and when the stream is cut off.
LEMMA ReadsBreak ==
  ASSUME NEW c \in Conns, NEW h \in HandlerType, NEW w \in Seq(Places), NEW g \in Nat,
         NEW n \in Nat, NEW broken, Reads(c, h, w, g, n, broken), NEW x \in 0 .. Len(w)
  PROVE  Reads(c, h, SubSeq(w, 1, x), g, n, TRUE)
<1> DEFINE b == h.buffer
           v == SubSeq(w, 1, x)
           u == SubSeq(w, x + 1, Len(w))
<1>1. b \in Seq(Places) /\ Len(b) \in Nat /\ Len(w) \in Nat /\ x \in Nat
  BY LenProperties DEF HandlerType
<1>2. /\ v \in Seq(Places) /\ Len(v) = x /\ u \in Seq(Places)
      /\ b \o v \in Seq(Places) /\ Len(b \o v) = Len(b) + x
      /\ (b \o v) \o u = b \o w
  BY <1>1, Moves
<1>3. b \o v = SubSeq(b \o w, 1, Len(b) + x) /\ Len(b) + x \in 0 .. Len(b \o w)
  <2> DEFINE a == b \o v
             y == Len(b) + x
  <2> HIDE DEF b, v, u, a
  <2>1. a \in Seq(Places) /\ Len(a) = y /\ a \o u = b \o w /\ y \in Nat
    BY <1>1, <1>2 DEF a
  <2>2. /\ Len(a \o u) = Len(a) + Len(u) /\ Len(u) \in Nat
        /\ \A j \in 1 .. Len(a) : (a \o u)[j] = a[j]
    <3>1. /\ a \o u \in Seq(Places) /\ Len(a \o u) = Len(a) + Len(u)
          /\ \A j \in 1 .. Len(a) + Len(u) : (a \o u)[j] = IF j <= Len(a) THEN a[j] ELSE u[j - Len(a)]
      <4>1. a \in Seq(Places) /\ u \in Seq(Places)
        BY <1>2, <2>1
      <4>2. QED
        BY <4>1, ConcatProperties
    <3>2. Len(u) \in Nat /\ Len(a) \in Nat
      BY <1>2, <2>1, LenProperties
    <3>3. \A j \in 1 .. Len(a) : j \in 1 .. Len(a) + Len(u) /\ j <= Len(a)
      BY <3>2
    <3>4. QED
      BY <3>1, <3>2, <3>3
  <2> HIDE DEF y
  <2>3. y \in 0 .. Len(a \o u)
    BY <2>1, <2>2
  <2>4. /\ SubSeq(a \o u, 1, y) \in Seq(Places)
        /\ Len(SubSeq(a \o u, 1, y)) = y
        /\ \A j \in 1 .. y : SubSeq(a \o u, 1, y)[j] = (a \o u)[j]
    <3> DEFINE s == a \o u
               t == SubSeq(s, 1, y)
    <3>1. s \in Seq(Places) /\ Len(s) \in Nat /\ y \in 0 .. Len(s)
      BY <1>2, <2>1, <2>3, ConcatProperties, LenProperties
    <3> HIDE DEF s
    <3>2. \A j \in 1 .. y : s[j] \in Places
      BY <2>1, <3>1, ElementOfSeq
    <3>3. /\ t \in Seq(Places)
          /\ Len(t) = IF 1 <= y THEN y - 1 + 1 ELSE 0
          /\ \A j \in 1 .. y - 1 + 1 : t[j] = s[1 + j - 1]
      BY <2>1, <3>2, SubSeqProperties
    <3> HIDE DEF t
    <3>4. Len(t) = y /\ \A j \in 1 .. y : j \in 1 .. y - 1 + 1 /\ 1 + j - 1 = j
      BY <2>1, <3>3
    <3>5. t \in Seq(Places) /\ Len(t) = y /\ \A j \in 1 .. y : t[j] = s[j]
      BY <3>3, <3>4
    <3>6. QED
      BY <3>5 DEF s, t
  <2>5. SubSeq(a \o u, 1, y) = a
    BY <2>1, <2>2, <2>4, SeqEqual
  <2>6. QED
    BY <2>1, <2>3, <2>5 DEF y, a
<1>4. ASSUME NEW k, NEW i, Runs(c, b \o w, n, broken, k, i)
      PROVE  Runs(c, b \o v, n, TRUE, k, i)
  BY <1>3, <1>4, Breaks
<1> HIDE DEF v, u
<1>5. Reads(c, h, v, g, n, TRUE)
  BY <1>4, Zenon DEF Reads, b
<1>6. QED
  BY <1>5 DEF v

\* A step of one connection.
LEMMA OneConn ==
  ASSUME NetInv, NEW c \in Conns, NetType', ConnInv(c)', \A d \in Conns \ {c} : SameNet(d)
  PROVE  NetInv'
<1>1. ASSUME NEW d \in Conns PROVE ConnInv(d)'
  <2>1. CASE d = c
    BY <2>1
  <2>2. CASE d # c
    BY <2>2, SameConn DEF NetInv
  <2>3. QED
    BY <2>1, <2>2
<1>2. QED
  BY <1>1 DEF NetInv

\* The handler of c goes on.
LEMMA HandlerStep ==
  ASSUME NetInv, NEW c \in Conns, Idle(c), GoesOn(c, wire'[c]),
         wire' \in [Conns -> Seq(Places)], \A d \in Conns \ {c} : wire'[d] = wire[d],
         UNCHANGED <<peer, sent, cut>>
  PROVE  NetInv'
<1>1. NetType /\ ConnInv(c)
  BY DEF NetInv
<1>2. NetType'
  BY <1>1 DEF NetType, GoesOn
<1>3. peer[c] # "new" /\ phase[c] # "new" /\ phase'[c] # "new"
  BY <1>1 DEF Idle, ConnInv, PeerInv, GoesOn, Running
<1>4. ReadsInv(c)'
  BY DEF ReadsInv, GoesOn
<1>5. PacketsInv(c)'
  BY <1>1 DEF ConnInv, PacketsInv, GoesOn
<1>6. PeerInv(c)'
  BY <1>1, <1>3 DEF ConnInv, PeerInv, GoesOn
<1>7. \A d \in Conns \ {c} : SameNet(d)
  BY DEF SameNet, GoesOn
<1>8. QED
  BY <1>2, <1>4, <1>5, <1>6, <1>7, OneConn DEF ConnInv

\* A step of the site with the row: no connection reads or receives.
LEMMA PhaseStep ==
  ASSUME NetInv, NEW c \in Conns, phase[c] # "new",
         NEW to \in Inactive \cup Connecting \cup {"named", "leave"}, to # "new",
         phase' = [phase EXCEPT ![c] = to], UNCHANGED <<netVars, handler, got>>
  PROVE  NetInv'
<1>1. NetType
  BY DEF NetInv
<1>2. /\ peer' = peer /\ sent' = sent /\ cut' = cut /\ wire' = wire
      /\ handler' = handler /\ got' = got
  BY DEF netVars
<1>3. NetType'
  BY <1>1, <1>2 DEF NetType
<1>4. \A d \in Conns : SameNet(d)
  BY <1>1, <1>2 DEF SameNet, NetType
<1>5. QED
  BY <1>3, <1>4, SameConn DEF NetInv

\* A step that leaves the connections alone.
LEMMA NetSame ==
  ASSUME NetInv, UNCHANGED <<netVars, handler, got, phase>>
  PROVE  NetInv'
<1>1. /\ peer' = peer /\ sent' = sent /\ cut' = cut /\ wire' = wire
      /\ handler' = handler /\ got' = got /\ phase' = phase
  BY DEF netVars
<1>2. NetType'
  BY <1>1 DEF NetInv, NetType
<1>3. \A d \in Conns : SameNet(d)
  BY <1>1 DEF SameNet
<1>4. QED
  BY <1>2, <1>3, SameConn DEF NetInv

-----------------------------------------------------------------------------
(* The judge and the network keep the invariant.                           *)

\* A connection that begins.
LEMMA ConnectKeeps ==
  ASSUME NetInv, NEW c \in Conns, Connect(c)
  PROVE  NetInv'
<1> DEFINE w == IF c \in Proxied THEN Bytes(c, 0) ELSE <<>>
           h == AtSize(<<>>, FALSE)
<1>1. NetType /\ ConnInv(c) /\ peer[c] = "new"
  BY DEF NetInv, Connect
<1>2. /\ peer' = [peer EXCEPT ![c] = "alive"]
      /\ wire' = [wire EXCEPT ![c] = w]
      /\ handler' = [handler EXCEPT ![c] = h]
      /\ phase' = [phase EXCEPT ![c] = "anonymous"]
      /\ sent' = sent /\ cut' = cut /\ got' = got
  BY DEF Connect
<1>3. /\ w \in Seq(Places)
      /\ IF c \in Proxied THEN Runs(c, w, 0, FALSE, 0, 1) ELSE Runs(c, w, 0, FALSE, 1, 1)
  BY Begins DEF Runs
<1>4. h \in HandlerType /\ h # Ended /\ h.at = "size" /\ h.buffer = <<>>
  BY EmptySeq DEF AtSize, HandlerType, Running, Ended
<1>5. sent[c] = 0 /\ got[c] = <<>> /\ Len(got[c]) = 0 /\ cut[c] = FALSE
  BY <1>1, EmptySeq DEF ConnInv, PeerInv, NetType
<1> HIDE DEF w, h
<1>6. /\ peer'[c] = "alive" /\ wire'[c] = w /\ handler'[c] = h /\ phase'[c] = "anonymous"
      /\ \A d \in Conns \ {c} : SameNet(d)
  BY <1>1, <1>2 DEF NetType, SameNet
<1>7. NetType'
  BY <1>1, <1>2, <1>3, <1>4 DEF NetType, Inactive
<1>8. ReadsInv(c)'
  <2>1. h.buffer \o w = w /\ Len(h.buffer) < SizeBytes
    BY <1>3, <1>4, ConcatEmptySeq, EmptySeq, ConnectionAssumption
  <2>2. \/ Runs(c, h.buffer \o w, 0, FALSE, 0 + 1, 1)
        \/ c \in Proxied /\ Runs(c, h.buffer \o w, 0, FALSE, 0, 1)
    <3>1. 0 + 1 = 1
      OBVIOUS
    <3>2. QED
      BY <1>3, <2>1, <3>1, Zenon
  <2>3. Reads(c, h, w, 0, 0, FALSE)
    BY <1>4, <2>1, <2>2, Zenon DEF Reads
  <2>4. QED
    BY <1>2, <1>5, <1>6, <2>3 DEF ReadsInv
<1>9. PacketsInv(c)'
  BY <1>1, <1>2 DEF ConnInv, PacketsInv
<1>10. PeerInv(c)'
  BY <1>1, <1>2, <1>4, <1>5, <1>6 DEF PeerInv
<1>11. QED
  BY <1>6, <1>7, <1>8, <1>9, <1>10, OneConn DEF ConnInv

\* A packet is sent.
LEMMA SendPacketKeeps ==
  ASSUME NetInv, NEW c \in Conns, SendPacket(c)
  PROVE  NetInv'
<1> DEFINE n == sent[c]
           w == wire[c] \o Bytes(c, n + 1)
<1>1. NetType /\ ConnInv(c) /\ peer[c] = "alive" /\ ~cut[c]
  BY DEF NetInv, SendPacket, ConnInv, PeerInv
<1>2. /\ sent' = [sent EXCEPT ![c] = n + 1]
      /\ wire' = [wire EXCEPT ![c] = w]
      /\ peer' = peer /\ cut' = cut /\ handler' = handler /\ got' = got /\ phase' = phase
      /\ sent[c] < Len(Sizes[c])
  BY DEF SendPacket
<1>3. /\ n \in Nat /\ Len(got[c]) \in Nat /\ wire[c] \in Seq(Places) /\ handler[c] \in HandlerType
      /\ Len(Sizes[c]) \in Nat /\ n + 1 <= Len(Sizes[c])
  <2>1. n \in Nat /\ Len(got[c]) \in Nat /\ wire[c] \in Seq(Places) /\ handler[c] \in HandlerType
    BY <1>1, ConnTypes
  <2>2. Len(Sizes[c]) \in Nat
    BY LengthType, ConnectionAssumption
  <2>3. n < Len(Sizes[c])
    BY <1>2
  <2> HIDE DEF n
  <2>4. QED
    BY <2>1, <2>2, <2>3
<1>4. w \in Seq(Places)
  <2> DEFINE m == n + 1
  <2>1. m \in Nat /\ m <= Len(Sizes[c])
    BY <1>3
  <2> HIDE DEF m
  <2>2. Bytes(c, m) \in Seq(Places)
    BY <2>1, BytesAre
  <2>3. wire[c] \o Bytes(c, m) \in Seq(Places)
    BY <1>3, <2>2, ConcatProperties
  <2>4. QED
    BY <2>3 DEF m
<1>5. Reads(c, handler[c], w, Len(got[c]), n + 1, cut[c])
  <2>1. Reads(c, handler[c], wire[c], Len(got[c]), n, cut[c])
    BY <1>1 DEF ConnInv, ReadsInv
  <2> HIDE DEF n
  <2>2. QED
    BY <1>1, <1>3, <2>1, ReadsGrow
<1>6. sent'[c] = n + 1 /\ wire'[c] = w /\ \A d \in Conns \ {c} : SameNet(d)
  BY <1>1, <1>2 DEF NetType, SameNet
<1> HIDE DEF w, n
<1>7. NetType'
  BY <1>1, <1>2, <1>3, <1>4 DEF NetType
<1>8. ReadsInv(c)'
  BY <1>2, <1>5, <1>6 DEF ReadsInv
<1>9. PacketsInv(c)'
  BY <1>1, <1>2, <1>3, <1>6 DEF ConnInv, PacketsInv, n
<1>10. PeerInv(c)'
  BY <1>1, <1>2, <1>6 DEF ConnInv, PeerInv
<1>11. QED
  BY <1>6, <1>7, <1>8, <1>9, <1>10, OneConn DEF ConnInv

\* A connection that is shut down, with what is not received cut off somewhere.
LEMMA ShutdownKeeps ==
  ASSUME NetInv, NEW c \in Conns, peer[c] \in {"alive", "silent"}, Shutdown(c),
         UNCHANGED <<handler, got>>,
         phase' \in [Conns -> Inactive \cup Connecting \cup {"named", "leave"}],
         \A d \in Conns : phase'[d] = "new" <=> phase[d] = "new"
  PROVE  NetInv'
<1>1. NetType /\ ConnInv(c) /\ ~cut[c]
  BY DEF NetInv, ConnInv, PeerInv
<1>2. PICK x \in 0 .. Len(wire[c]) :
        /\ wire' = [wire EXCEPT ![c] = SubSeq(wire[c], 1, x)]
        /\ cut' = [cut EXCEPT ![c] = cut[c] \/ x < Len(wire[c])]
  BY DEF Shutdown
<1> DEFINE w == SubSeq(wire[c], 1, x)
           broken == cut[c] \/ x < Len(wire[c])
<1>3. /\ peer' = [peer EXCEPT ![c] = "closed"] /\ sent' = sent
      /\ handler' = handler /\ got' = got
  BY DEF Shutdown
<1>4. /\ sent[c] \in Nat /\ Len(got[c]) \in Nat /\ wire[c] \in Seq(Places)
      /\ handler[c] \in HandlerType /\ Len(wire[c]) \in Nat /\ cut[c] \in BOOLEAN
  BY <1>1, ConnTypes
<1>5. w \in Seq(Places)
  BY <1>4, Moves
<1>6. Reads(c, handler[c], w, Len(got[c]), sent[c], broken)
  <2>1. Reads(c, handler[c], wire[c], Len(got[c]), sent[c], cut[c])
    BY <1>1 DEF ConnInv, ReadsInv
  <2>2. CASE x = Len(wire[c])
    <3>1. w = wire[c]
      BY <1>4, <2>2, SubSeqFull
    <3>2. broken = cut[c]
      BY <1>4, <2>2
    <3>3. QED
      BY <2>1, <3>1, <3>2
  <2>3. CASE x # Len(wire[c])
    <3>1. broken = TRUE
      BY <1>4, <2>3
    <3> HIDE DEF broken
    <3>2. Reads(c, handler[c], w, Len(got[c]), sent[c], TRUE)
      BY <1>4, <2>1, ReadsBreak
    <3>3. QED
      BY <3>1, <3>2
  <2>4. QED
    BY <2>2, <2>3
<1>7. /\ peer'[c] = "closed" /\ wire'[c] = w /\ cut'[c] = broken
      /\ \A d \in Conns \ {c} : SameNet(d)
  BY <1>1, <1>2, <1>3 DEF NetType, SameNet
<1>8. broken \in BOOLEAN
  BY <1>4
<1> HIDE DEF w, broken
<1>9. NetType'
  BY <1>1, <1>2, <1>3, <1>5, <1>8 DEF NetType, w, broken
<1>10. ReadsInv(c)'
  BY <1>3, <1>6, <1>7 DEF ReadsInv
<1>11. PacketsInv(c)'
  BY <1>1, <1>3 DEF ConnInv, PacketsInv
<1>12. PeerInv(c)'
  BY <1>1, <1>3, <1>7 DEF ConnInv, PeerInv
<1>13. QED
  BY <1>7, <1>9, <1>10, <1>11, <1>12, OneConn DEF ConnInv

\* A connection is closed, or falls silent.
LEMMA CloseKeeps ==
  ASSUME NetInv, NEW c \in Conns, Close(c)
  PROVE  NetInv'
<1>1. /\ peer[c] \in {"alive", "silent"} /\ Shutdown(c)
      /\ handler' = handler /\ got' = got /\ phase' = phase
  BY DEF Close
<1>2. phase \in [Conns -> Inactive \cup Connecting \cup {"named", "leave"}]
  BY DEF NetInv, NetType
<1>3. QED
  BY <1>1, <1>2, ShutdownKeeps

\* A judge dies without a word.
LEMMA SilenceKeeps ==
  ASSUME NetInv, NEW c \in Conns, Silence(c)
  PROVE  NetInv'
<1>1. NetType /\ ConnInv(c) /\ peer[c] = "alive"
  BY DEF NetInv, Silence
<1>2. /\ peer' = [peer EXCEPT ![c] = "silent"]
      /\ sent' = sent /\ cut' = cut /\ wire' = wire /\ handler' = handler
      /\ got' = got /\ phase' = phase
  BY DEF Silence
<1>3. NetType' /\ peer'[c] = "silent" /\ \A d \in Conns \ {c} : SameNet(d)
  BY <1>1, <1>2 DEF NetType, SameNet
<1>4. ReadsInv(c)'
  BY <1>1, <1>2 DEF ConnInv, ReadsInv
<1>5. PacketsInv(c)'
  BY <1>1, <1>2 DEF ConnInv, PacketsInv
<1>6. PeerInv(c)'
  BY <1>1, <1>2, <1>3 DEF ConnInv, PeerInv
<1>7. QED
  BY <1>3, <1>4, <1>5, <1>6, OneConn DEF ConnInv

\* A refused judge is closed.
LEMMA RefuseKeeps ==
  ASSUME NetInv, NEW c \in Conns, Refuse(c)
  PROVE  NetInv'
<1>1. /\ phase[c] = "refuse" /\ phase' = [phase EXCEPT ![c] = "refused"]
      /\ handler' = handler /\ got' = got
  BY DEF Refuse, Goes
<1>2. NetType /\ peer[c] \in {"alive", "silent", "closed"}
  BY <1>1 DEF NetInv, NetType, ConnInv, PeerInv
<1>3. CASE peer[c] = "closed"
  <2>1. UNCHANGED netVars
    BY <1>3 DEF Refuse
  <2>2. QED
    BY <1>1, <2>1, PhaseStep DEF Inactive
<1>4. CASE peer[c] # "closed"
  <2>1. Shutdown(c)
    BY <1>4 DEF Refuse
  <2>2. /\ phase' \in [Conns -> Inactive \cup Connecting \cup {"named", "leave"}]
        /\ \A d \in Conns : phase'[d] = "new" <=> phase[d] = "new"
    BY <1>1, <1>2 DEF NetType, Inactive
  <2>3. QED
    BY <1>1, <1>2, <1>4, <2>1, <2>2, ShutdownKeeps
<1>5. QED
  BY <1>3, <1>4

-----------------------------------------------------------------------------
(* Every step of handle() keeps it.                                        *)

\* What recv returns moves from the wire to the buffer.
LEMMA ReceivedIs ==
  ASSUME NetInv, NEW c \in Conns, NEW m \in Nat, NEW data \in Recv(c, m), Received(c, data)
  PROVE  /\ data \in Seq(Places) /\ Len(data) \in Nat /\ 1 <= Len(data) /\ Len(data) <= m
         /\ handler[c].buffer \o data \in Seq(Places)
         /\ Len(handler[c].buffer \o data) = Len(handler[c].buffer) + Len(data)
         /\ (handler[c].buffer \o data) \o wire'[c] = handler[c].buffer \o wire[c]
         /\ wire'[c] \in Seq(Places)
         /\ wire' \in [Conns -> Seq(Places)] /\ \A d \in Conns \ {c} : wire'[d] = wire[d]
         /\ UNCHANGED <<peer, sent, cut>>
<1> DEFINE b == handler[c].buffer
           v == wire[c]
<1>1. NetType /\ b \in Seq(Places) /\ v \in Seq(Places) /\ Len(v) \in Nat
  BY ConnTypes DEF NetInv
<1>2. PICK x \in 1 .. (IF m < Len(v) THEN m ELSE Len(v)) : data = SubSeq(v, 1, x)
  BY DEF Recv
<1>3. x \in 0 .. Len(v) /\ x \in Nat /\ 1 <= x /\ x <= m
  BY <1>1, <1>2
<1>4. /\ wire' = [wire EXCEPT ![c] = SubSeq(v, Len(data) + 1, Len(v))]
      /\ UNCHANGED <<peer, sent, cut>>
  BY DEF Received
<1> HIDE DEF b, v
<1>5. /\ data \in Seq(Places) /\ Len(data) = x
      /\ SubSeq(v, x + 1, Len(v)) \in Seq(Places)
      /\ b \o data \in Seq(Places) /\ Len(b \o data) = Len(b) + x
      /\ (b \o data) \o SubSeq(v, x + 1, Len(v)) = b \o v
  BY <1>1, <1>2, <1>3, Moves
<1> DEFINE u == SubSeq(v, x + 1, Len(v))
<1>6. wire' = [wire EXCEPT ![c] = u] /\ u \in Seq(Places)
  BY <1>4, <1>5
<1> HIDE DEF u
<1>7. /\ wire'[c] = u /\ wire' \in [Conns -> Seq(Places)]
      /\ \A d \in Conns \ {c} : wire'[d] = wire[d]
  BY <1>1, <1>6 DEF NetType
<1>8. /\ Len(data) \in Nat /\ 1 <= Len(data) /\ Len(data) <= m
      /\ Len(b \o data) = Len(b) + Len(data)
  BY <1>3, <1>5
<1>9. (b \o data) \o wire'[c] = b \o v
  BY <1>5, <1>7 DEF u
<1>10. QED
  BY <1>4, <1>5, <1>6, <1>7, <1>8, <1>9 DEF b, v

\* The handler only moves on in its buffer.
LEMMA BufferStep ==
  ASSUME NetInv, NEW c \in Conns, NEW h \in HandlerType, h # Ended, NEW w,
         handler' = [handler EXCEPT ![c] = h], UNCHANGED <<got, phase>>,
         Reads(c, h, w, Len(got[c]), sent[c], cut[c])
  PROVE  GoesOn(c, w)
<1>1. NetType /\ ConnInv(c)
  BY DEF NetInv
<1>2. handler'[c] = h /\ handler' \in [Conns -> HandlerType] /\ got' = got /\ phase' = phase
      /\ \A d \in Conns \ {c} : handler'[d] = handler[d]
  BY <1>1 DEF NetType
<1>3. Len(got[c]) <= sent[c] /\ \A j \in 1 .. Len(got[c]) : got[c][j] = Body(c, j)
  BY <1>1 DEF ConnInv, PacketsInv
<1>4. QED
  BY <1>1, <1>2, <1>3 DEF GoesOn, NetType

\* What the handler of a connection has in hand.
LEMMA InHand ==
  ASSUME NetInv, NEW c \in Conns
  PROVE  /\ NetType /\ ConnInv(c)
         /\ sent[c] \in Nat /\ sent[c] <= Len(Sizes[c]) /\ Len(Sizes[c]) \in Nat
         /\ got[c] \in Seq(Seq(Places)) /\ Len(got[c]) \in Nat /\ Len(got[c]) <= sent[c]
         /\ handler[c] \in HandlerType /\ handler[c].buffer \in Seq(Places)
         /\ Len(handler[c].buffer) \in Nat /\ handler[c].size \in Nat
         /\ handler[c].short \in BOOLEAN /\ wire[c] \in Seq(Places)
         /\ Reads(c, handler[c], wire[c], Len(got[c]), sent[c], cut[c])
<1>1. NetType /\ ConnInv(c)
  BY DEF NetInv
<1>2. Len(Sizes[c]) \in Nat
  BY LengthType, ConnectionAssumption
<1>3. QED
  BY <1>1, <1>2, ConnTypes DEF ConnInv, PacketsInv, ReadsInv

\* read_size.
LEMMA ReadSizeKeeps ==
  ASSUME NetInv, NEW c \in Conns, ReadSize(c)
  PROVE  NetInv'
<1> DEFINE b == handler[c].buffer
           g == Len(got[c])
           n == sent[c]
           broken == cut[c]
           short == handler[c].short
<1>1. PICK data \in Recv(c, SizeBytes - Len(b)) :
        LET buffer == b \o data
        IN /\ IF Len(buffer) < SizeBytes
                THEN /\ handler' = [handler EXCEPT ![c].buffer = buffer]
                     /\ UNCHANGED <<got, phase>>
              ELSE IF c \in Proxied /\ IsTag(buffer)
                THEN /\ handler' = [handler EXCEPT ![c].buffer = buffer, ![c].at = "header"]
                     /\ UNCHANGED <<got, phase>>
              ELSE ReadSizedPacket(c, Unpack(c, buffer), <<>>, short)
           /\ Received(c, data)
  BY DEF ReadSize
<1>2. Idle(c) /\ handler[c].at = "size"
  BY DEF ReadSize
<1>3. /\ NetType /\ n \in Nat /\ n <= Len(Sizes[c]) /\ Len(Sizes[c]) \in Nat /\ g \in Nat /\ g <= n
      /\ handler[c] \in HandlerType /\ Len(b) \in Nat /\ short \in BOOLEAN
      /\ Len(b) < SizeBytes /\ SizeBytes \in Nat /\ SizeBytes > 0
      /\ HeaderLen \in Nat /\ HeaderLen > SizeBytes
      /\ \/ Runs(c, b \o wire[c], n, broken, g + 1, 1)
         \/ c \in Proxied /\ g = 0 /\ Runs(c, b \o wire[c], n, broken, 0, 1)
  <2>1. /\ NetType /\ n \in Nat /\ n <= Len(Sizes[c]) /\ Len(Sizes[c]) \in Nat /\ g \in Nat /\ g <= n
        /\ handler[c] \in HandlerType /\ Len(b) \in Nat /\ short \in BOOLEAN
        /\ Reads(c, handler[c], wire[c], g, n, broken)
    BY InHand
  <2>2. /\ Len(b) < SizeBytes
        /\ \/ Runs(c, b \o wire[c], n, broken, g + 1, 1)
           \/ c \in Proxied /\ g = 0 /\ Runs(c, b \o wire[c], n, broken, 0, 1)
    BY <1>2, <2>1, Zenon DEF Reads
  <2>3. QED
    BY <2>1, <2>2, ConnectionAssumption
<1> DEFINE buffer == b \o data
           w == wire'[c]
<1>4. Received(c, data) /\ SizeBytes - Len(b) \in Nat
  BY <1>1, <1>3
<1>5. /\ Len(data) \in Nat /\ 1 <= Len(data) /\ Len(data) <= SizeBytes - Len(b)
      /\ buffer \in Seq(Places) /\ Len(buffer) = Len(b) + Len(data)
      /\ buffer \o w = b \o wire[c] /\ w \in Seq(Places)
      /\ wire' \in [Conns -> Seq(Places)] /\ \A d \in Conns \ {c} : wire'[d] = wire[d]
      /\ UNCHANGED <<peer, sent, cut>>
  BY <1>1, <1>4, ReceivedIs
<1>6. Len(buffer) \in Nat /\ Len(buffer) <= SizeBytes /\ 1 \in 1 .. Len(buffer)
  BY <1>3, <1>5
<1>7. \/ Runs(c, buffer \o w, n, broken, g + 1, 1)
      \/ c \in Proxied /\ g = 0 /\ Runs(c, buffer \o w, n, broken, 0, 1)
  BY <1>3, <1>5
<1>8. SUFFICES GoesOn(c, w)
  BY <1>2, <1>5, HandlerStep
<1> DEFINE h1 == [handler[c] EXCEPT !.buffer = buffer]
           h2 == [handler[c] EXCEPT !.buffer = buffer, !.at = "header"]
<1>9. /\ Len(buffer) < SizeBytes => handler' = [handler EXCEPT ![c] = h1] /\ UNCHANGED <<got, phase>>
      /\ ~(Len(buffer) < SizeBytes) /\ c \in Proxied /\ IsTag(buffer) =>
           handler' = [handler EXCEPT ![c] = h2] /\ UNCHANGED <<got, phase>>
      /\ ~(Len(buffer) < SizeBytes) /\ ~(c \in Proxied /\ IsTag(buffer)) =>
           ReadSizedPacket(c, Unpack(c, buffer), <<>>, short)
  BY <1>1
<1>10. /\ h1 \in HandlerType /\ h1 # Ended /\ h1.at = "size" /\ h1.buffer = buffer
       /\ h2 \in HandlerType /\ h2 # Ended /\ h2.at = "header" /\ h2.buffer = buffer
  BY <1>2, <1>3, <1>5 DEF HandlerType, Ended, Running
<1>11. g = Len(got[c]) /\ n = sent[c] /\ broken = cut[c]
  OBVIOUS
<1>12. ~(Len(buffer) < SizeBytes) => Len(buffer) = SizeBytes
  BY <1>3, <1>6
<1>13. buffer # <<>>
  BY <1>6, EmptySeq
<1> HIDE DEF h1, h2, buffer, w, n, broken, g, short
<1>14. CASE Len(buffer) < SizeBytes
  <2>1. Reads(c, h1, w, g, n, broken)
    BY <1>7, <1>10, <1>14, Zenon DEF Reads
  <2>2. QED
    BY <1>9, <1>10, <1>11, <1>14, <2>1, BufferStep
<1>15. CASE ~(Len(buffer) < SizeBytes) /\ c \in Proxied /\ IsTag(buffer)
  <2>1. buffer[1] = Byte(0, 1)
    BY <1>15 DEF IsTag
  <2>2. g = 0 /\ Runs(c, buffer \o w, n, broken, 0, 1)
    <3>1. ASSUME Runs(c, buffer \o w, n, broken, g + 1, 1) PROVE FALSE
      <4> DEFINE k == g + 1
                 i == 1
      <4>1. Runs(c, buffer \o w, n, broken, k, i) /\ k \in Nat /\ i \in Nat /\ k # 0
        BY <1>3, <3>1
      <4> HIDE DEF k, i
      <4>2. buffer[1] = Byte(k, i)
        BY <1>5, <1>13, <4>1, StartsWith
      <4>3. QED
        BY <2>1, <4>1, <4>2 DEF Byte
    <3>2. QED
      BY <1>7, <3>1
  <2>3. ASSUME NEW j \in 1 .. Len(buffer) PROVE buffer[j] # EndOfLine
    <3> DEFINE k == 0
               i == 1
    <3>1. /\ Runs(c, buffer \o w, n, broken, k, i) /\ k \in Nat /\ i \in Nat /\ k <= Len(Sizes[c])
          /\ i + j <= Length(c, k) + 1
      BY <1>3, <1>6, <2>2 DEF Length
    <3>2. i + j - 1 # HeaderLen
      BY <1>3, <1>6
    <3> HIDE DEF k, i
    <3>3. buffer[j] = Byte(k, i + j - 1)
      BY <1>5, <3>1, BufferCounts
    <3>4. QED
      BY <3>2, <3>3 DEF Byte, EndOfLine
  <2>4. Reads(c, h2, w, g, n, broken)
    BY <1>10, <2>2, <2>3, Zenon DEF Reads
  <2>5. QED
    BY <1>9, <1>10, <1>11, <1>15, <2>4, BufferStep
<1>16. CASE ~(Len(buffer) < SizeBytes) /\ ~(c \in Proxied /\ IsTag(buffer))
  <2>1. ReadSizedPacket(c, Unpack(c, buffer), <<>>, short) /\ Len(buffer) = SizeBytes
    BY <1>9, <1>12, <1>16
  <2> DEFINE k == g + 1
  <2>2. Runs(c, buffer \o w, n, broken, k, 1)
    <3>1. ASSUME c \in Proxied, Runs(c, buffer \o w, n, broken, 0, 1) PROVE FALSE
      <4> DEFINE j == 0
                 i == 1
      <4>1. Runs(c, buffer \o w, n, broken, j, i) /\ j \in Nat /\ i \in Nat
        BY <3>1
      <4> HIDE DEF j, i
      <4>2. buffer[1] = Byte(j, i)
        BY <1>5, <1>13, <4>1, StartsWith
      <4>3. QED
        BY <1>16, <3>1, <4>2 DEF IsTag, j, i
    <3>2. QED
      BY <1>7, <3>1
  <2>3. k \in Nat \ {0} /\ k = Len(got[c]) + 1
    BY <1>3, <1>11
  <2>4. /\ SubSeq(buffer, 1, SizeBytes) = buffer
        /\ <<>> \o w = w /\ <<>> \in Seq(Places) /\ Len(<<>>) = 0
    BY <1>5, <2>1, SubSeqFull, ConcatEmptySeq, EmptySeq
  <2>5. SubSeq(buffer, SizeBytes + 1, Len(buffer)) = <<>>
    BY <1>3, <2>1, SubSeqEmpty
  <2> HIDE DEF k
  <2>6. \E z \in Nat :
           /\ k <= n /\ Length(c, k) = SizeBytes + z
           /\ Unpack(c, SubSeq(buffer, 1, SizeBytes)) = z
           /\ SubSeq(buffer, SizeBytes + 1, Len(buffer)) \in Seq(Places)
           /\ Len(SubSeq(buffer, SizeBytes + 1, Len(buffer))) = Len(buffer) - SizeBytes
           /\ z = 0 => Runs(c, SubSeq(buffer, SizeBytes + 1, Len(buffer)) \o w, n, broken, k + 1, 1)
           /\ z # 0 => Runs(c, SubSeq(buffer, SizeBytes + 1, Len(buffer)) \o w, n, broken, k, SizeBytes + 1)
    <3>1. Len(buffer) >= SizeBytes
      BY <1>3, <2>1
    <3>2. QED
      BY <1>3, <1>5, <2>2, <2>3, <3>1, SizeRead
  <2>7. PICK z \in Nat :
           /\ k <= n /\ Length(c, k) = SizeBytes + z
           /\ Unpack(c, buffer) = z
           /\ z = 0 => Runs(c, <<>> \o w, n, broken, k + 1, 1)
           /\ z # 0 => Runs(c, <<>> \o w, n, broken, k, SizeBytes + 1)
    BY <2>4, <2>5, <2>6, Zenon
  <2>8. /\ k <= sent[c] /\ ReadSizedPacket(c, z, <<>>, short) /\ Len(<<>>) <= z
        /\ z = 0 => Runs(c, <<>> \o w, sent[c], cut[c], k + 1, 1)
        /\ z # 0 => Runs(c, <<>> \o w, sent[c], cut[c], k, SizeBytes + 1)
    <3>1. Len(<<>>) <= z
      BY <2>4
    <3>2. QED
      BY <1>11, <2>1, <2>7, <3>1, Zenon
  <2>9. QED
    BY <1>3, <1>5, <2>3, <2>4, <2>7, <2>8, SizedPacket
<1>17. QED
  BY <1>14, <1>15, <1>16

\* read_proxy_header.
LEMMA ReadHeaderKeeps ==
  ASSUME NetInv, NEW c \in Conns, ReadHeader(c)
  PROVE  NetInv'
<1> DEFINE b == handler[c].buffer
           g == Len(got[c])
           n == sent[c]
           broken == cut[c]
<1>1. PICK data \in Recv(c, 107) :
        LET buffer == b \o data
        IN /\ handler' = [handler EXCEPT ![c] =
                IF Contains(buffer, EndOfLine)
                  THEN [@ EXCEPT !.at = "remainder",
                                 !.buffer = SubSeq(buffer, HeaderLen + 1, Len(buffer))]
                  ELSE [@ EXCEPT !.buffer = buffer]]
           /\ Received(c, data)
  BY DEF ReadHeader
<1>2. Idle(c) /\ handler[c].at = "header" /\ UNCHANGED <<got, phase>>
  BY DEF ReadHeader
<1>3. /\ NetType /\ n \in Nat /\ n <= Len(Sizes[c]) /\ Len(Sizes[c]) \in Nat /\ handler[c] \in HandlerType
      /\ g = 0 /\ Runs(c, b \o wire[c], n, broken, 0, 1)
      /\ HeaderLen \in Nat /\ HeaderLen > 0
  <2>1. /\ NetType /\ n \in Nat /\ n <= Len(Sizes[c]) /\ Len(Sizes[c]) \in Nat /\ handler[c] \in HandlerType
        /\ Reads(c, handler[c], wire[c], g, n, broken)
    BY InHand
  <2>2. g = 0 /\ Runs(c, b \o wire[c], n, broken, 0, 1)
    BY <1>2, <2>1, Zenon DEF Reads
  <2>3. QED
    BY <2>1, <2>2, ConnectionAssumption
<1> DEFINE buffer == b \o data
           w == wire'[c]
<1>4. /\ buffer \in Seq(Places) /\ buffer \o w = b \o wire[c] /\ w \in Seq(Places)
      /\ wire' \in [Conns -> Seq(Places)] /\ \A d \in Conns \ {c} : wire'[d] = wire[d]
      /\ UNCHANGED <<peer, sent, cut>>
  BY <1>1, ReceivedIs
<1>5. Len(buffer) \in Nat /\ Runs(c, buffer \o w, n, broken, 0, 1)
  BY <1>3, <1>4, LenProperties
<1>6. SUFFICES GoesOn(c, w)
  BY <1>2, <1>4, HandlerStep
<1> DEFINE left == SubSeq(buffer, HeaderLen + 1, Len(buffer))
           h1 == [handler[c] EXCEPT !.at = "remainder", !.buffer = left]
           h2 == [handler[c] EXCEPT !.buffer = buffer]
<1>7. /\ Contains(buffer, EndOfLine) => handler' = [handler EXCEPT ![c] = h1]
      /\ ~Contains(buffer, EndOfLine) => handler' = [handler EXCEPT ![c] = h2]
  BY <1>1
<1>8. h2 \in HandlerType /\ h2 # Ended /\ h2.at = "header" /\ h2.buffer = buffer
  BY <1>2, <1>3, <1>4 DEF HandlerType, Ended, Running
<1>9. g = Len(got[c]) /\ n = sent[c] /\ broken = cut[c]
  OBVIOUS
<1>10. left \in Seq(Places) =>
         h1 \in HandlerType /\ h1 # Ended /\ h1.at = "remainder" /\ h1.buffer = left
  BY <1>3 DEF HandlerType, Ended, Running
<1>11. left = SubSeq(buffer, HeaderLen + 1, Len(buffer))
  OBVIOUS
<1>12. Contains(buffer, EndOfLine) <=> \E j \in 1 .. Len(buffer) : buffer[j] = EndOfLine
  BY DEF Contains
<1> HIDE DEF buffer, w, n, broken, g, left, h1, h2
<1>13. CASE Contains(buffer, EndOfLine)
  <2> DEFINE k == 0
             i == 1
  <2>1. /\ Runs(c, buffer \o w, n, broken, k, i) /\ k \in Nat /\ i \in Nat \ {0} /\ k <= Len(Sizes[c])
        /\ Length(c, k) = HeaderLen /\ i <= Length(c, k) /\ i + HeaderLen = Length(c, k) + 1
        /\ i + HeaderLen <= Length(c, k) + 1 /\ HeaderLen \in Nat
    BY <1>3, <1>5 DEF Length
  <2>2. \A j \in Nat : i + j - 1 = j
    OBVIOUS
  <2>3. k + 1 = 1
    OBVIOUS
  <2> HIDE DEF k, i
  <2>4. HeaderLen <= Len(buffer)
    <3>1. SUFFICES ASSUME Len(buffer) < HeaderLen PROVE FALSE
      BY <1>3, <1>5
    <3>2. PICK j \in 1 .. Len(buffer) : buffer[j] = Byte(0, HeaderLen)
      BY <1>12, <1>13 DEF EndOfLine
    <3>3. /\ Runs(c, buffer \o w, n, broken, k, i) /\ k \in Nat /\ i \in Nat /\ k <= Len(Sizes[c])
          /\ i + j <= Length(c, k) + 1
      BY <1>3, <1>5, <2>1, <3>1
    <3>4. j \in Nat /\ j < HeaderLen
      BY <1>3, <1>5, <3>1
    <3>5. buffer[j] = Byte(k, i + j - 1)
      BY <1>4, <3>3, BufferCounts
    <3>6. QED
      BY <2>2, <3>2, <3>4, <3>5 DEF Byte
  <2> DEFINE r == buffer \o w
  <2>5. /\ left \in Seq(Places) /\ SubSeq(r, HeaderLen + 1, Len(r)) = left \o w
        /\ Len(r) \in Nat /\ HeaderLen <= Len(r) /\ Runs(c, r, n, broken, k, i)
    <3>1. HeaderLen \in 0 .. Len(buffer)
      BY <1>3, <2>4
    <3>2. /\ SubSeq(buffer, HeaderLen + 1, Len(buffer)) \in Seq(Places)
          /\ SubSeq(r, HeaderLen + 1, Len(r)) = SubSeq(buffer, HeaderLen + 1, Len(buffer)) \o w
          /\ Len(buffer) \in Nat /\ Len(w) \in Nat /\ Len(r) = Len(buffer) + Len(w)
      BY <1>4, <3>1, Drops
    <3> HIDE DEF r
    <3>3. Len(r) \in Nat /\ HeaderLen <= Len(r)
      BY <1>3, <2>4, <3>2
    <3>4. QED
      BY <1>11, <2>1, <3>2, <3>3 DEF r
  <2> HIDE DEF r
  <2>6. Runs(c, SubSeq(r, HeaderLen + 1, Len(r)), n, broken, k + 1, 1)
    BY <1>3, <2>1, <2>5, Eats
  <2>7. Runs(c, left \o w, n, broken, g + 1, 1)
    BY <1>3, <2>3, <2>5, <2>6 DEF k
  <2>8. Reads(c, h1, w, g, n, broken)
    BY <1>10, <2>5, <2>7, Zenon DEF Reads
  <2>9. QED
    BY <1>2, <1>7, <1>9, <1>10, <1>13, <2>5, <2>8, BufferStep
<1>14. CASE ~Contains(buffer, EndOfLine)
  <2>1. Reads(c, h2, w, g, n, broken)
    BY <1>3, <1>5, <1>8, <1>12, <1>14, Zenon DEF Reads
  <2>2. QED
    BY <1>2, <1>7, <1>8, <1>9, <1>14, <2>1, BufferStep
<1>15. QED
  BY <1>13, <1>14

\* read_sized_packet goes on with a body.
LEMMA ReadBodyKeeps ==
  ASSUME NetInv, NEW c \in Conns, ReadBody(c)
  PROVE  NetInv'
<1> DEFINE b == handler[c].buffer
           k == Len(got[c]) + 1
           n == sent[c]
           z == handler[c].size
           short == handler[c].short
<1>1. PICK data \in Recv(c, Need(z, b)) :
        ReadSizedPacket(c, z, b \o data, short) /\ Received(c, data)
  BY DEF ReadBody
<1>2. Idle(c) /\ handler[c].at = "body"
  BY DEF ReadBody
<1>3. /\ k \in Nat /\ k # 0 /\ k <= n /\ k <= Len(Sizes[c]) /\ z \in Nat /\ short \in BOOLEAN
      /\ Len(b) \in Nat /\ Len(b) < z
      /\ Runs(c, b \o wire[c], n, cut[c], k, SizeBytes + 1)
  <2>1. /\ n \in Nat /\ n <= Len(Sizes[c]) /\ Len(Sizes[c]) \in Nat /\ k \in Nat /\ k # 0
        /\ Reads(c, handler[c], wire[c], Len(got[c]), n, cut[c])
        /\ z \in Nat /\ short \in BOOLEAN /\ Len(b) \in Nat
    BY InHand
  <2>2. k <= n /\ Len(b) < z /\ Runs(c, b \o wire[c], n, cut[c], k, SizeBytes + 1)
    BY <1>2, <2>1, Zenon DEF Reads
  <2> HIDE DEF n, k
  <2>3. k <= Len(Sizes[c])
    BY <2>1, <2>2
  <2>4. QED
    BY <2>1, <2>2, <2>3
<1>4. z = Sizes[c][k]
  <2>1. Reads(c, handler[c], wire[c], Len(got[c]), n, cut[c])
    BY InHand
  <2>2. QED
    BY <1>2, <2>1, Zenon DEF Reads
<1>5. Length(c, k) = SizeBytes + z
  <2> HIDE DEF k, z
  <2>1. QED
    BY <1>3, <1>4, LengthType
<1> DEFINE buffer == b \o data
           w == wire'[c]
<1>6. Need(z, b) \in Nat /\ Need(z, b) = z - Len(b)
  BY <1>3 DEF Need
<1>7. /\ Len(data) \in Nat /\ Len(data) <= Need(z, b)
      /\ buffer \in Seq(Places) /\ Len(buffer) = Len(b) + Len(data)
      /\ buffer \o w = b \o wire[c] /\ w \in Seq(Places)
      /\ wire' \in [Conns -> Seq(Places)] /\ \A d \in Conns \ {c} : wire'[d] = wire[d]
      /\ UNCHANGED <<peer, sent, cut>>
  BY <1>1, <1>6, ReceivedIs
<1>8. Len(buffer) <= z /\ z # 0
  BY <1>3, <1>6, <1>7
<1>9. /\ ReadSizedPacket(c, z, buffer, short) /\ Runs(c, buffer \o w, sent[c], cut[c], k, SizeBytes + 1)
      /\ k = Len(got[c]) + 1 /\ k <= sent[c]
  BY <1>1, <1>3, <1>7
<1> HIDE DEF b, k, n, z, short, buffer, w
<1>10. GoesOn(c, w)
  BY <1>3, <1>5, <1>7, <1>8, <1>9, SizedPacket
<1>11. QED
  BY <1>2, <1>7, <1>10, HandlerStep DEF w

\* The size in front of a remainder, and what is behind it.
SizeOf(c) == Unpack(c, SubSeq(handler[c].buffer, 1, SizeBytes))
AfterSize(c) == SubSeq(handler[c].buffer, SizeBytes + 1, Len(handler[c].buffer))

\* What a round of the loop over the remainder finds, and does.
LEMMA RemainderIs ==
  ASSUME NetInv, NEW c \in Conns, Remainder(c)
  PROVE  LET left == handler[c].buffer
             size == SizeOf(c)
             rest == AfterSize(c)
             k == Len(got[c]) + 1
         IN
         /\ Len(left) >= SizeBytes =>
              /\ size \in Nat /\ k <= sent[c] /\ Length(c, k) = SizeBytes + size
              /\ rest \in Seq(Places) /\ Len(rest) \in Nat
              /\ size = 0 => Runs(c, rest \o wire[c], sent[c], cut[c], k + 1, 1)
              /\ size # 0 => Runs(c, rest \o wire[c], sent[c], cut[c], k, SizeBytes + 1)
         /\ \/ /\ left = <<>>
               /\ handler' = [handler EXCEPT ![c] = AtSize(<<>>, FALSE)] /\ UNCHANGED <<got, phase>>
            \/ /\ left # <<>> /\ Len(left) < SizeBytes
               /\ handler' = [handler EXCEPT ![c] = AtSize(left, TRUE)] /\ UNCHANGED <<got, phase>>
            \/ /\ Len(left) >= SizeBytes /\ Len(rest) <= size
               /\ ReadSizedPacket(c, size, rest, FALSE)
            \/ /\ Len(left) >= SizeBytes /\ Len(rest) > size
               /\ OnPacket(c, SubSeq(rest, 1, size))
               /\ handler' = [handler EXCEPT ![c].buffer = SubSeq(rest, size + 1, Len(rest))]
<1> DEFINE left == handler[c].buffer
           size == SizeOf(c)
           rest == AfterSize(c)
           w == wire[c]
           n == sent[c]
           broken == cut[c]
           k == Len(got[c]) + 1
           h1 == AtSize(<<>>, FALSE)
           h2 == AtSize(left, TRUE)
           h3 == [handler[c] EXCEPT !.buffer = SubSeq(rest, size + 1, Len(rest))]
<1>1. /\ NetType /\ n \in Nat /\ n <= Len(Sizes[c]) /\ Len(Sizes[c]) \in Nat
      /\ k \in Nat \ {0} /\ k \in Nat /\ handler[c] \in HandlerType /\ left \in Seq(Places) /\ Len(left) \in Nat
      /\ w \in Seq(Places) /\ SizeBytes \in Nat /\ SizeBytes > 0
      /\ Runs(c, left \o w, n, broken, k, 1)
  <2>1. /\ NetType /\ n \in Nat /\ n <= Len(Sizes[c]) /\ Len(Sizes[c]) \in Nat /\ k \in Nat \ {0}
        /\ handler[c] \in HandlerType /\ left \in Seq(Places) /\ Len(left) \in Nat /\ w \in Seq(Places)
        /\ Reads(c, handler[c], w, Len(got[c]), n, broken)
    BY InHand
  <2>2. handler[c].at = "remainder"
    BY DEF Remainder
  <2>3. Runs(c, left \o w, n, broken, k, 1)
    BY <2>1, <2>2, Zenon DEF Reads
  <2>4. QED
    BY <2>1, <2>3, ConnectionAssumption
<1>2. Len(left) >= SizeBytes =>
        /\ size \in Nat /\ k <= n /\ Length(c, k) = SizeBytes + size
        /\ rest \in Seq(Places) /\ Len(rest) \in Nat
        /\ size = 0 => Runs(c, rest \o w, n, broken, k + 1, 1)
        /\ size # 0 => Runs(c, rest \o w, n, broken, k, SizeBytes + 1)
  <2> SUFFICES ASSUME Len(left) >= SizeBytes
               PROVE  /\ size \in Nat /\ k <= n /\ Length(c, k) = SizeBytes + size
                      /\ rest \in Seq(Places) /\ Len(rest) \in Nat
                      /\ size = 0 => Runs(c, rest \o w, n, broken, k + 1, 1)
                      /\ size # 0 => Runs(c, rest \o w, n, broken, k, SizeBytes + 1)
    OBVIOUS
  <2> HIDE DEF left, w, n, broken, k
  <2>1. \E z \in Nat :
           /\ k <= n /\ Length(c, k) = SizeBytes + z
           /\ Unpack(c, SubSeq(left, 1, SizeBytes)) = z
           /\ SubSeq(left, SizeBytes + 1, Len(left)) \in Seq(Places)
           /\ Len(SubSeq(left, SizeBytes + 1, Len(left))) = Len(left) - SizeBytes
           /\ z = 0 => Runs(c, SubSeq(left, SizeBytes + 1, Len(left)) \o w, n, broken, k + 1, 1)
           /\ z # 0 => Runs(c, SubSeq(left, SizeBytes + 1, Len(left)) \o w, n, broken, k, SizeBytes + 1)
    BY <1>1, SizeRead
  <2>2. /\ size \in Nat /\ k <= n /\ Length(c, k) = SizeBytes + size /\ rest \in Seq(Places)
        /\ size = 0 => Runs(c, rest \o w, n, broken, k + 1, 1)
        /\ size # 0 => Runs(c, rest \o w, n, broken, k, SizeBytes + 1)
    BY <2>1, Zenon DEF SizeOf, AfterSize, left
  <2>3. QED
    BY <2>2, LenProperties
<1>3. /\ left = <<>> => handler' = [handler EXCEPT ![c] = h1] /\ UNCHANGED <<got, phase>>
      /\ left # <<>> /\ Len(left) < SizeBytes =>
           handler' = [handler EXCEPT ![c] = h2] /\ UNCHANGED <<got, phase>>
      /\ left # <<>> /\ Len(left) >= SizeBytes /\ Len(rest) <= size =>
           ReadSizedPacket(c, size, rest, FALSE)
      /\ left # <<>> /\ Len(left) >= SizeBytes /\ ~(Len(rest) <= size) /\ Len(rest) > size =>
           /\ OnPacket(c, SubSeq(rest, 1, size))
           /\ handler' = [handler EXCEPT ![c] = h3]
  <2>1. left # <<>> /\ Len(left) < SizeBytes => ~(Len(left) >= SizeBytes)
    BY <1>1
  <2>2. left # <<>> /\ Len(left) >= SizeBytes => ~(Len(left) < SizeBytes)
    BY <1>1
  <2>3. CASE left = <<>>
    <3>1. ~(Len(left) >= SizeBytes)
      BY <1>1, <2>3, EmptySeq
    <3>2. QED
      BY <2>3, <3>1 DEF Remainder, SizeOf, AfterSize
  <2>4. CASE left # <<>> /\ Len(left) < SizeBytes
    BY <2>1, <2>4 DEF Remainder, SizeOf, AfterSize
  <2>5. CASE left # <<>> /\ Len(left) >= SizeBytes
    <3>1. Len(rest) <= size => ~(Len(rest) > size)
      BY <1>2, <2>5
    <3>2. QED
      BY <2>2, <2>5, <3>1, Zenon DEF Remainder, SizeOf, AfterSize
  <2>6. QED
    BY <1>1, <2>3, <2>4, <2>5
<1>4. \/ left = <<>>
      \/ left # <<>> /\ Len(left) < SizeBytes
      \/ left # <<>> /\ Len(left) >= SizeBytes /\ Len(rest) <= size
      \/ left # <<>> /\ Len(left) >= SizeBytes /\ ~(Len(rest) <= size) /\ Len(rest) > size
  <2> HIDE DEF left, size, rest
  <2>1. QED
    BY <1>1, <1>2
<1>5. QED
  BY <1>2, <1>3, <1>4, Zenon

\* A round of the loop over what came with the line of a proxy.
LEMMA RemainderKeeps ==
  ASSUME NetInv, NEW c \in Conns, Remainder(c)
  PROVE  NetInv'
<1> DEFINE left == handler[c].buffer
           size == SizeOf(c)
           rest == AfterSize(c)
           w == wire[c]
           n == sent[c]
           broken == cut[c]
           k == Len(got[c]) + 1
           h1 == AtSize(<<>>, FALSE)
           h2 == AtSize(left, TRUE)
           h3 == [handler[c] EXCEPT !.buffer = SubSeq(rest, size + 1, Len(rest))]
<1>1. /\ NetType /\ n \in Nat /\ n <= Len(Sizes[c]) /\ Len(Sizes[c]) \in Nat
      /\ k \in Nat \ {0} /\ k \in Nat /\ handler[c] \in HandlerType /\ left \in Seq(Places) /\ Len(left) \in Nat
      /\ w \in Seq(Places) /\ SizeBytes \in Nat /\ SizeBytes > 0
      /\ Runs(c, left \o w, n, broken, k, 1)
  <2>1. /\ NetType /\ n \in Nat /\ n <= Len(Sizes[c]) /\ Len(Sizes[c]) \in Nat /\ k \in Nat \ {0}
        /\ handler[c] \in HandlerType /\ left \in Seq(Places) /\ Len(left) \in Nat /\ w \in Seq(Places)
        /\ Reads(c, handler[c], w, Len(got[c]), n, broken)
    BY InHand
  <2>2. handler[c].at = "remainder"
    BY DEF Remainder
  <2>3. Runs(c, left \o w, n, broken, k, 1)
    BY <2>1, <2>2, Zenon DEF Reads
  <2>4. QED
    BY <2>1, <2>3, ConnectionAssumption
<1>2. /\ Idle(c) /\ handler[c].at = "remainder"
      /\ UNCHANGED netVars
      /\ wire' = wire /\ UNCHANGED <<peer, sent, cut>>
  BY DEF Remainder, netVars
<1>3. Len(left) >= SizeBytes =>
        /\ size \in Nat /\ k <= n /\ Length(c, k) = SizeBytes + size
        /\ rest \in Seq(Places) /\ Len(rest) \in Nat
        /\ size = 0 => Runs(c, rest \o w, n, broken, k + 1, 1)
        /\ size # 0 => Runs(c, rest \o w, n, broken, k, SizeBytes + 1)
  BY RemainderIs
<1>4. \/ left = <<>> /\ handler' = [handler EXCEPT ![c] = h1] /\ UNCHANGED <<got, phase>>
      \/ /\ left # <<>> /\ Len(left) < SizeBytes
         /\ handler' = [handler EXCEPT ![c] = h2] /\ UNCHANGED <<got, phase>>
      \/ Len(left) >= SizeBytes /\ Len(rest) <= size /\ ReadSizedPacket(c, size, rest, FALSE)
      \/ /\ Len(left) >= SizeBytes /\ Len(rest) > size
         /\ OnPacket(c, SubSeq(rest, 1, size)) /\ handler' = [handler EXCEPT ![c] = h3]
  BY RemainderIs
<1>5. wire'[c] = w /\ wire' \in [Conns -> Seq(Places)] /\ \A d \in Conns \ {c} : wire'[d] = wire[d]
  BY <1>1, <1>2 DEF NetType
<1>6. SUFFICES GoesOn(c, w)
  BY <1>2, <1>5, HandlerStep
<1>7. /\ h1 \in HandlerType /\ h1 # Ended /\ h1.at = "size" /\ h1.buffer = <<>>
      /\ h2 \in HandlerType /\ h2 # Ended /\ h2.at = "size" /\ h2.buffer = left
  BY <1>1, EmptySeq DEF AtSize, HandlerType, Ended, Running
<1>8. SubSeq(rest, size + 1, Len(rest)) \in Seq(Places) =>
        h3 \in HandlerType /\ h3 # Ended /\ h3.at = "remainder"
        /\ h3.buffer = SubSeq(rest, size + 1, Len(rest))
  BY <1>1, <1>2 DEF HandlerType, Ended, Running
<1>9. n = sent[c] /\ broken = cut[c] /\ k = Len(got[c]) + 1 /\ Len(got[c]) \in Nat
  BY InHand
<1> HIDE DEF left, size, rest, w, n, broken, k, h1, h2, h3
<1>10. CASE left = <<>> /\ handler' = [handler EXCEPT ![c] = h1] /\ UNCHANGED <<got, phase>>
  <2>1. Runs(c, h1.buffer \o w, n, broken, Len(got[c]) + 1, 1) /\ Len(h1.buffer) < SizeBytes
    BY <1>1, <1>7, <1>9, <1>10, EmptySeq
  <2>2. Reads(c, h1, w, Len(got[c]), n, broken)
    BY <1>7, <2>1, Zenon DEF Reads
  <2>3. QED
    BY <1>7, <1>9, <1>10, <2>2, BufferStep
<1>11. CASE /\ left # <<>> /\ Len(left) < SizeBytes
            /\ handler' = [handler EXCEPT ![c] = h2] /\ UNCHANGED <<got, phase>>
  <2>1. Runs(c, h2.buffer \o w, n, broken, Len(got[c]) + 1, 1) /\ Len(h2.buffer) < SizeBytes
    BY <1>1, <1>7, <1>9, <1>11
  <2>2. Reads(c, h2, w, Len(got[c]), n, broken)
    BY <1>7, <2>1, Zenon DEF Reads
  <2>3. QED
    BY <1>7, <1>9, <1>11, <2>2, BufferStep
<1>12. CASE Len(left) >= SizeBytes /\ Len(rest) <= size /\ ReadSizedPacket(c, size, rest, FALSE)
  <2>1. /\ size \in Nat /\ k <= sent[c] /\ Length(c, k) = SizeBytes + size /\ rest \in Seq(Places)
        /\ size = 0 => Runs(c, rest \o w, sent[c], cut[c], k + 1, 1)
        /\ size # 0 => Runs(c, rest \o w, sent[c], cut[c], k, SizeBytes + 1)
    BY <1>3, <1>9, <1>12
  <2>2. FALSE \in BOOLEAN
    OBVIOUS
  <2>3. QED
    BY <1>1, <1>9, <1>12, <2>1, <2>2, SizedPacket
<1>13. CASE /\ Len(left) >= SizeBytes /\ Len(rest) > size
            /\ OnPacket(c, SubSeq(rest, 1, size)) /\ handler' = [handler EXCEPT ![c] = h3]
  <2> DEFINE p == SubSeq(rest, 1, size)
             q == SubSeq(rest, size + 1, Len(rest))
             v == q \o w
  <2>1. /\ size \in Nat /\ k <= n /\ Length(c, k) = SizeBytes + size
        /\ rest \in Seq(Places) /\ Len(rest) \in Nat
        /\ size = 0 => Runs(c, rest \o w, n, broken, k + 1, 1)
        /\ size # 0 => Runs(c, rest \o w, n, broken, k, SizeBytes + 1)
        /\ size \in 0 .. Len(rest) /\ Len(rest) > size
    BY <1>3, <1>13
  <2>2. /\ p \in Seq(Places) /\ Len(p) = size /\ q \in Seq(Places) /\ p \o q = rest
    <3> DEFINE a == <<>>
    <3>1. a \in Seq(Places)
      BY EmptySeq
    <3>2. /\ SubSeq(rest, 1, size) \in Seq(Places) /\ Len(SubSeq(rest, 1, size)) = size
          /\ SubSeq(rest, size + 1, Len(rest)) \in Seq(Places)
          /\ (a \o SubSeq(rest, 1, size)) \o SubSeq(rest, size + 1, Len(rest)) = a \o rest
      <4> HIDE DEF a
      <4>1. QED
        BY <2>1, <3>1, Moves
    <3>3. a \o p = p /\ a \o rest = rest
      BY <2>1, <3>2, ConcatEmptySeq
    <3>4. QED
      BY <3>2, <3>3
  <2> HIDE DEF p, q
  <2>3. rest \o w = p \o v /\ v \in Seq(Places)
    <3>1. (p \o q) \o w = p \o (q \o w) /\ q \o w \in Seq(Places)
      <4>1. p \in Seq(Places) /\ q \in Seq(Places) /\ w \in Seq(Places)
        BY <1>1, <2>2
      <4>2. (p \o q) \o w = p \o (q \o w)
        BY <4>1, ConcatAssociative
      <4>3. q \o w \in Seq(Places)
        BY <4>1, ConcatProperties
      <4>4. QED
        BY <4>2, <4>3
    <3>2. QED
      BY <2>2, <3>1
  <2> HIDE DEF v
  <2>4. /\ \A j \in 1 .. size : p[j] = Byte(k, SizeBytes + j)
        /\ Runs(c, v, n, broken, k + 1, 1)
    <3>1. CASE size = 0
      <4>1. p = <<>>
        BY <2>2, <3>1, EmptySeq
      <4>2. p \o v = v
        BY <2>3, <4>1, ConcatEmptySeq
      <4>3. QED
        BY <2>1, <2>3, <3>1, <4>2
    <3>2. CASE size # 0
      <4>1. size \in Nat \ {0} /\ Runs(c, p \o v, n, broken, k, SizeBytes + 1)
        BY <2>1, <2>3, <3>2
      <4>2. QED
        BY <1>1, <2>1, <2>2, <2>3, <4>1, BodyEnds
    <3>3. QED
      BY <3>1, <3>2
  <2>5. p = Body(c, k)
    <3>1. k <= Len(Sizes[c]) /\ k # 0
      BY <1>1, <2>1
    <3>2. size = Sizes[c][k]
      BY <1>1, <2>1, <3>1, LengthType
    <3>3. DOMAIN p = 1 .. size /\ p = [j \in 1 .. size |-> p[j]]
      BY <2>2, LenProperties
    <3>4. QED
      BY <2>4, <3>2, <3>3 DEF Body
  <2>6. /\ got' \in [Conns -> Seq(Seq(Places))] /\ Len(got'[c]) = k
        /\ \A j \in 1 .. Len(got'[c]) : got'[c][j] = Body(c, j)
        /\ \A d \in Conns \ {c} : got'[d] = got[d] /\ phase'[d] = phase[d]
        /\ phase' \in [Conns -> Inactive \cup Connecting \cup {"named", "leave"}]
        /\ phase'[c] = "new" <=> phase[c] = "new"
    <3>1. OnPacket(c, p) /\ k <= sent[c]
      BY <1>9, <1>13, <2>1 DEF p
    <3>2. QED
      BY <1>1, <1>9, <2>2, <2>5, <3>1, PacketGiven
  <2>7. h3 \in HandlerType /\ h3 # Ended /\ h3.at = "remainder" /\ h3.buffer = q
    BY <1>8, <2>2 DEF q
  <2>8. /\ handler'[c] = h3 /\ handler' \in [Conns -> HandlerType]
        /\ \A d \in Conns \ {c} : handler'[d] = handler[d]
    BY <1>1, <1>13, <2>7 DEF NetType
  <2>9. Runs(c, h3.buffer \o w, n, broken, k + 1, 1)
    BY <2>4, <2>7 DEF v
  <2>10. Reads(c, h3, w, k, n, broken)
    BY <2>7, <2>9, Zenon DEF Reads
  <2>11. Len(got'[c]) <= sent[c]
    BY <1>9, <2>1, <2>6
  <2>12. Reads(c, handler'[c], w, Len(got'[c]), sent[c], cut[c]) /\ handler'[c] # Ended
    BY <1>9, <2>6, <2>7, <2>8, <2>10
  <2>13. QED
    BY <2>6, <2>8, <2>11, <2>12, Zenon DEF GoesOn
<1>14. QED
  BY <1>4, <1>10, <1>11, <1>12, <1>13

\* handle() returns with nothing left to read: no packet is half in the buffer.
LEMMA HandleEndsKeeps ==
  ASSUME NetInv, NEW c \in Conns, HandleEnds(c)
  PROVE  NetInv'
<1> DEFINE h == handler[c]
           g == Len(got[c])
           n == sent[c]
           b == h.buffer
<1>1. /\ Idle(c) /\ h.at \in {"size", "header", "body"} /\ wire[c] = <<>>
      /\ peer[c] \in {"closed", "silent"}
  BY DEF HandleEnds, EndNoticed, TimedOut
<1>2. /\ handler' = [handler EXCEPT ![c] = Ended]
      /\ peer' = peer /\ sent' = sent /\ cut' = cut /\ wire' = wire /\ got' = got /\ phase' = phase
  BY DEF HandleEnds, netVars
<1>3. /\ NetType /\ ConnInv(c) /\ n \in Nat /\ n <= Len(Sizes[c]) /\ Len(Sizes[c]) \in Nat
      /\ g \in Nat /\ g <= n /\ b \in Seq(Places) /\ Len(b) \in Nat
      /\ Reads(c, h, wire[c], g, n, cut[c])
  BY InHand
<1>4. SizeBytes \in Nat /\ HeaderLen \in Nat /\ HeaderLen > 0
  BY ConnectionAssumption
<1>5. b \o wire[c] = b
  BY <1>1, <1>3, ConcatEmptySeq
<1>6. /\ h.at = "size" =>
           /\ Len(b) < SizeBytes
           /\ \/ Runs(c, b, n, cut[c], g + 1, 1)
              \/ Runs(c, b, n, cut[c], 0, 1)
      /\ h.at = "header" => /\ Runs(c, b, n, cut[c], 0, 1)
                            /\ \A j \in 1 .. Len(b) : b[j] # EndOfLine
      /\ h.at = "body" => /\ g + 1 <= n /\ Len(b) < h.size
                          /\ Runs(c, b, n, cut[c], g + 1, SizeBytes + 1)
  BY <1>3, <1>5 DEF Reads
<1>7. h.at = "body" => h.size = Sizes[c][g + 1]
  BY <1>3, Zenon DEF Reads
<1>8. ASSUME ~cut[c] PROVE g = n
  <2> DEFINE broken == cut[c]
             k == g + 1
             j == 0
             i == 1
             i2 == SizeBytes + 1
  <2>1. /\ ~broken /\ k \in Nat /\ j \in Nat /\ i \in Nat /\ i2 \in Nat /\ j <= n
        /\ k <= n => k <= Len(Sizes[c])
        /\ j <= Len(Sizes[c]) /\ k # 0 /\ Length(c, j) = HeaderLen
    BY <1>3, <1>4, <1>8 DEF Length
  <2>2. /\ h.at = "size" => Len(b) < SizeBytes /\ (Runs(c, b, n, broken, k, i) \/ Runs(c, b, n, broken, j, i))
        /\ h.at = "header" => Runs(c, b, n, broken, j, i)
        /\ h.at = "body" => k <= n /\ Runs(c, b, n, broken, k, i2)
    BY <1>6
  <2>3. g # n => k <= n
    BY <1>3
  <2>4. i + Len(b) = Len(b) + 1 /\ i2 + Len(b) = SizeBytes + Len(b) + 1
    <3> HIDE DEF b
    <3>1. QED
      BY <1>3, <1>4
  <2>5. h.at = "body" => h.size = Sizes[c][k]
    BY <1>7
  <2> HIDE DEF h, g, n, b, broken, k, j, i, i2
  <2>6. CASE h.at = "size"
    <3>1. ASSUME g # n, Runs(c, b, n, broken, k, i) PROVE FALSE
      <4>1. i + Len(b) >= Length(c, k) + 1
        BY <1>3, <2>1, <2>3, <3>1, EndsWhole
      <4>2. Length(c, k) \in Nat /\ Length(c, k) >= SizeBytes
        BY <2>1, <2>3, <3>1, LengthType
      <4>3. QED
        BY <1>3, <1>4, <2>2, <2>4, <2>6, <4>1, <4>2
    <3>2. ASSUME Runs(c, b, n, broken, j, i) PROVE FALSE
      <4>1. i + Len(b) >= Length(c, j) + 1
        BY <1>3, <2>1, <3>2, EndsWhole
      <4>2. Length(c, j) \in Nat /\ Length(c, j) >= SizeBytes
        BY <2>1, LengthType
      <4>3. QED
        BY <1>3, <1>4, <2>2, <2>4, <2>6, <4>1, <4>2
    <3>3. QED
      BY <2>2, <2>6, <3>1, <3>2
  <2>7. CASE h.at = "header"
    <3>1. b # <<>> /\ i + Len(b) >= Length(c, j) + 1
      BY <1>3, <2>1, <2>2, <2>7, EndsWhole
    <3>2. HeaderLen \in 1 .. Len(b)
      BY <1>3, <1>4, <2>1, <2>4, <3>1
    <3> DEFINE x == HeaderLen
    <3>3. x \in 1 .. Len(b) /\ i + x <= Length(c, j) + 1
      BY <1>4, <2>1, <3>2 DEF i
    <3>4. i + x - 1 = HeaderLen
      BY <1>4 DEF i
    <3> HIDE DEF x
    <3>5. b[x] = Byte(j, i + x - 1)
      BY <2>1, <2>2, <2>7, <3>3, Counts
    <3>6. b[HeaderLen] = EndOfLine
      BY <3>4, <3>5 DEF x, j, EndOfLine
    <3>7. \A y \in 1 .. Len(b) : b[y] # EndOfLine
      BY <1>6, <2>7 DEF b, h
    <3>8. QED
      BY <3>2, <3>6, <3>7
  <2>8. CASE h.at = "body"
    <3>1. i2 + Len(b) >= Length(c, k) + 1
      BY <1>3, <2>1, <2>2, <2>8, EndsWhole
    <3>2. Length(c, k) = SizeBytes + h.size /\ h.size \in Nat
      BY <2>1, <2>2, <2>5, <2>8, LengthType
    <3>3. Len(b) < h.size
      BY <1>6, <2>8 DEF b, h
    <3>4. QED
      BY <1>3, <1>4, <2>4, <3>1, <3>2, <3>3
  <2>9. QED
    BY <1>1, <2>6, <2>7, <2>8 DEF h
<1>9. Ended \in HandlerType /\ Ended.at = "done"
  BY EmptySeq DEF Ended, HandlerType
<1>10. handler'[c] = Ended /\ NetType' /\ \A d \in Conns \ {c} : SameNet(d)
  BY <1>2, <1>3, <1>9 DEF NetType, SameNet
<1>11. ReadsInv(c)'
  BY <1>2, <1>9, <1>10 DEF ReadsInv, Reads
<1>12. PacketsInv(c)'
  BY <1>2, <1>3 DEF ConnInv, PacketsInv
<1>13. PeerInv(c)'
  BY <1>1, <1>2, <1>3, <1>8, <1>9, <1>10 DEF ConnInv, PeerInv
<1>14. QED
  BY <1>10, <1>11, <1>12, <1>13, OneConn DEF ConnInv

-----------------------------------------------------------------------------
(* Crashes, and the theorem.                                               *)

\* The daemon dies, and every connection with it.
LEMMA CrashKeeps ==
  ASSUME NetInv, Crash
  PROVE  NetInv'
<1> DEFINE open == {c \in Conns : phase[c] \notin {"new", "gone"}}
<1>1. /\ peer' = [c \in Conns |-> IF c \in open THEN "closed" ELSE peer[c]]
      /\ wire' = [c \in Conns |-> IF c \in open THEN <<>> ELSE wire[c]]
      /\ cut' = [c \in Conns |-> cut[c] \/ c \in open]
      /\ handler' = [c \in Conns |-> IF c \in open THEN Ended ELSE handler[c]]
      /\ phase' = [c \in Conns |-> IF c \in open THEN "gone" ELSE phase[c]]
      /\ sent' = sent /\ got' = got
  BY DEF Crash
<1>2. NetType /\ \A c \in Conns : ConnInv(c)
  BY DEF NetInv
<1>3. Ended \in HandlerType /\ Ended.at = "done" /\ <<>> \in Seq(Places)
  BY EmptySeq DEF Ended, HandlerType
<1>4. \A c \in Conns : c \in open <=> phase[c] \notin {"new", "gone"}
  OBVIOUS
<1> HIDE DEF open
<1>5. NetType'
  <2>1. /\ peer' \in [Conns -> {"new", "alive", "silent", "closed"}]
        /\ sent' \in [Conns -> Nat] /\ got' \in [Conns -> Seq(Seq(Places))]
        /\ cut' \in [Conns -> BOOLEAN]
    BY <1>1, <1>2 DEF NetType
  <2>2. wire' \in [Conns -> Seq(Places)] /\ handler' \in [Conns -> HandlerType]
    BY <1>1, <1>2, <1>3 DEF NetType
  <2>3. phase' \in [Conns -> Inactive \cup Connecting \cup {"named", "leave"}]
    BY <1>1, <1>2 DEF NetType, Inactive
  <2>4. QED
    BY <2>1, <2>2, <2>3 DEF NetType
<1>6. ASSUME NEW c \in Conns PROVE ConnInv(c)'
  <2>1. CASE c \in open
    <3>1. /\ peer'[c] = "closed" /\ wire'[c] = <<>> /\ cut'[c] = TRUE /\ handler'[c] = Ended
          /\ phase'[c] = "gone" /\ sent'[c] = sent[c] /\ got'[c] = got[c]
      BY <1>1, <2>1
    <3>2. ReadsInv(c)'
      BY <1>3, <3>1 DEF ReadsInv, Reads
    <3>3. PacketsInv(c)'
      BY <1>1, <1>2 DEF ConnInv, PacketsInv
    <3>4. PeerInv(c)'
      BY <3>1 DEF PeerInv
    <3>5. QED
      BY <3>2, <3>3, <3>4 DEF ConnInv
  <2>2. CASE c \notin open
    <3>1. cut[c] \in BOOLEAN
      BY <1>2 DEF NetType
    <3>2. SameNet(c)
      BY <1>1, <2>2, <3>1 DEF SameNet
    <3>3. QED
      BY <1>2, <3>2, SameConn
  <2>3. QED
    BY <2>1, <2>2
<1>7. QED
  BY <1>5, <1>6 DEF NetInv

\* Initially nothing is connected.
LEMMA NetInit ==
  Init => NetInv
<1> SUFFICES ASSUME Init PROVE NetInv
  OBVIOUS
<1>1. Ended \in HandlerType /\ Ended.at = "done" /\ <<>> \in Seq(Places) /\ Len(<<>>) = 0
      /\ <<>> \in Seq(Seq(Places))
  BY EmptySeq DEF Ended, HandlerType
<1>2. NetType
  BY <1>1 DEF Init, NetType, Inactive
<1>3. ASSUME NEW c \in Conns PROVE ConnInv(c)
  <2>1. /\ peer[c] = "new" /\ sent[c] = 0 /\ cut[c] = FALSE /\ wire[c] = <<>>
        /\ handler[c] = Ended /\ got[c] = <<>> /\ phase[c] = "new"
    BY DEF Init
  <2>2. Len(Sizes[c]) \in Nat
    BY LengthType, ConnectionAssumption
  <2>3. ReadsInv(c)
    BY <1>1, <2>1 DEF ReadsInv, Reads
  <2>4. PacketsInv(c)
    BY <1>1, <2>1, <2>2 DEF PacketsInv
  <2>5. PeerInv(c)
    BY <1>1, <2>1 DEF PeerInv
  <2>6. QED
    BY <2>3, <2>4, <2>5 DEF ConnInv
<1>4. QED
  BY <1>2, <1>3 DEF NetInv

\* Every step keeps it.
LEMMA NetNext ==
  NetInv /\ [Next]_connectionVars => NetInv'
<1> SUFFICES ASSUME NetInv, [Next]_connectionVars PROVE NetInv'
  OBVIOUS
<1>1. CASE UNCHANGED connectionVars
  BY <1>1, NetSame DEF connectionVars
<1>2. ASSUME NEW c \in Conns, Connect(c) \/ SendPacket(c) \/ Close(c) \/ Silence(c)
      PROVE  NetInv'
  BY <1>2, ConnectKeeps, SendPacketKeeps, CloseKeeps, SilenceKeeps
<1>3. ASSUME NEW c \in Conns, Handle(c) PROVE NetInv'
  <2>1. CASE ReadSize(c) \/ ReadHeader(c) \/ Remainder(c) \/ ReadBody(c) \/ HandleEnds(c) \/ Refuse(c)
    BY <2>1, ReadSizeKeeps, ReadHeaderKeeps, RemainderKeeps, ReadBodyKeeps, HandleEndsKeeps,
       RefuseKeeps
  <2>2. ASSUME Load(c) \/ DeleteVersions(c) \/ CreateVersions(c) \/ SaveRow(c)
                 \/ SetOffline(c) \/ ForgetVersions(c) \/ LeaveNameless(c)
        PROVE  \E to \in Inactive \cup Connecting \cup {"named", "leave"} :
                 /\ to # "new" /\ phase[c] # "new"
                 /\ phase' = [phase EXCEPT ![c] = to] /\ UNCHANGED <<netVars, handler, got>>
    <3>1. CASE Load(c)
      BY <3>1 DEF Load, Goes, Connecting
    <3>2. CASE DeleteVersions(c)
      BY <3>2 DEF DeleteVersions, Goes, Connecting
    <3>3. CASE CreateVersions(c)
      BY <3>3 DEF CreateVersions, Goes, Connecting
    <3>4. CASE SaveRow(c)
      BY <3>4 DEF SaveRow, Goes
    <3>5. CASE SetOffline(c)
      BY <3>5 DEF SetOffline, Goes
    <3>6. CASE ForgetVersions(c)
      BY <3>6 DEF ForgetVersions, Goes, Inactive
    <3>7. CASE LeaveNameless(c)
      BY <3>7 DEF LeaveNameless, Inactive
    <3>8. QED
      BY <2>2, <3>1, <3>2, <3>3, <3>4, <3>5, <3>6, <3>7
  <2>3. QED
    BY <1>3, <2>1, <2>2, PhaseStep DEF Handle
<1>4. CASE LoadForm \/ SaveForm \/ Restart
  BY <1>4, NetSame DEF LoadForm, SaveForm, Restart
<1>5. CASE Crash
  BY <1>5, CrashKeeps
<1>6. QED
  BY <1>1, <1>2, <1>3, <1>4, <1>5 DEF Next

\* However the network cuts the stream, and whatever comes with the line of a
\* proxy, on_packet is given the packets in order and once each, and by the end
\* all of them unless bytes were lost or the remainder ended within a size.
THEOREM PacketsComeThrough == Spec => []FramesIntact
<1>1. NetInv => FramesIntact
  <2> SUFFICES ASSUME NetInv, NEW c \in Conns
               PROVE  /\ Len(got[c]) <= sent[c]
                      /\ \A k \in DOMAIN got[c] : got[c][k] = Body(c, k)
                      /\ phase[c] # "new" /\ handler[c] = Ended /\ ~cut[c] => Len(got[c]) = sent[c]
    BY DEF FramesIntact
  <2>1. ConnInv(c) /\ got[c] \in Seq(Seq(Places))
    BY InHand
  <2>2. DOMAIN got[c] = 1 .. Len(got[c])
    BY <2>1, LenProperties
  <2>3. QED
    BY <2>1, <2>2 DEF ConnInv, PacketsInv, PeerInv
<1>2. QED
  BY <1>1, NetInit, NetNext, PTL DEF Spec

-----------------------------------------------------------------------------
(* The row.                                                                *)

RowType == [online : BOOLEAN, is_blocked : BOOLEAN]

\* A connection with a name, or a row that shows the judge online without one, is on
\* its way: to its name, to its versions, or into "late".
PhaseInv ==
  /\ phase \in [Conns -> Inactive \cup Connecting \cup {"named", "leave"}]
  /\ loaded \in [Conns -> RowType \cup {None}]
  /\ \A c \in Conns : phase[c] \in Connecting => loaded[c] \in RowType /\ loaded[c].online = TRUE
  /\ ~up => \A c \in Conns : phase[c] \in {"new", "gone"}
OnlineInv ==
  /\ row \in RowType
  /\ form # None => form \in RowType
  /\ up /\ "form" \notin late /\ row.online => \E c \in Conns : phase[c] = "named"
  /\ up /\ "form" \notin late /\ "leave" \notin late => \A c \in Conns : phase[c] = "named" => row.online
VersionsInv ==
  /\ versions \subseteq Conns
  /\ \A c \in Conns : phase[c] \in {"create", "save", "named"} =>
       \A v \in versions : phase[v] \in {"save", "named", "leave"}
  /\ "leave" \notin late =>
       \A c \in Conns : phase[c] \in {"save", "named"} =>
         versions # {} \/ \E o \in Conns : phase[o] = "create"
RowInv == PhaseInv /\ OnlineInv /\ VersionsInv

\* A connection that has no name yet, or none any more.
LEMMA NamelessStep ==
  ASSUME RowInv, NEW c \in Conns, NEW to \in Inactive, phase[c] \in Inactive,
         phase[c] \in {"new", "gone"} => up,
         phase' = [phase EXCEPT ![c] = to],
         UNCHANGED <<up, row, loaded, versions, form, late>>
  PROVE  RowInv'
<1>1. /\ phase'[c] = to /\ \A d \in Conns \ {c} : phase'[d] = phase[d]
      /\ up' = up /\ row' = row /\ loaded' = loaded /\ versions' = versions
      /\ form' = form /\ late' = late
  BY DEF RowInv, PhaseInv
<1>2. /\ to \notin Connecting \cup {"named", "leave"}
      /\ phase[c] \notin Connecting \cup {"named", "leave"}
  BY DEF Inactive, Connecting
<1>3. PhaseInv'
  BY <1>1, <1>2 DEF RowInv, PhaseInv
<1>4. OnlineInv'
  BY <1>1, <1>2 DEF RowInv, OnlineInv
<1>5. VersionsInv'
  BY <1>1, <1>2 DEF RowInv, VersionsInv, Connecting
<1>6. QED
  BY <1>3, <1>4, <1>5 DEF RowInv

\* No phase and nothing of the row changes.
LEMMA RowSame ==
  ASSUME RowInv, UNCHANGED <<phase, up, row, loaded, versions, form, late>>
  PROVE  RowInv'
BY DEF RowInv, PhaseInv, OnlineInv, VersionsInv

\* on_packet gives a connection its name, or refuses it one.
LEMMA OnPacketRow ==
  ASSUME RowInv, NEW c \in Conns, NEW data, Idle(c), OnPacket(c, data) \/ UNCHANGED phase,
         UNCHANGED <<up, rowVars>>
  PROVE  RowInv'
<1>1. UNCHANGED <<up, row, loaded, versions, form, late>>
  BY DEF rowVars
<1>2. CASE UNCHANGED phase
  BY <1>1, <1>2, RowSame
<1>3. CASE OnPacket(c, data)
  <2>1. phase' = [phase EXCEPT ![c] =
          IF phase[c] # "anonymous" THEN phase[c] ELSE IF row.is_blocked THEN "refuse" ELSE "load"]
    BY <1>3 DEF OnPacket
  <2>2. CASE phase[c] # "anonymous"
    <3>1. phase' = phase
      BY <2>1, <2>2 DEF RowInv, PhaseInv
    <3>2. QED
      BY <1>1, <3>1, RowSame
  <2>3. CASE phase[c] = "anonymous"
    <3>1. PICK to \in Inactive : phase' = [phase EXCEPT ![c] = to]
      BY <2>1, <2>3 DEF Inactive
    <3>2. QED
      BY <1>1, <2>3, <3>1, NamelessStep DEF Inactive
  <2>4. QED
    BY <2>2, <2>3
<1>4. QED
  BY <1>2, <1>3

\* handle() touches the row through on_packet alone.
LEMMA ReadingRow ==
  ASSUME NetInv, RowInv, NEW c \in Conns,
         ReadSize(c) \/ ReadHeader(c) \/ Remainder(c) \/ ReadBody(c) \/ HandleEnds(c)
  PROVE  RowInv'
<1>1. \A size, b, short : ReadSizedPacket(c, size, b, short) => OnPacket(c, b) \/ UNCHANGED phase
  BY DEF ReadSizedPacket
<1>2. Idle(c) /\ UNCHANGED <<up, rowVars>>
  BY DEF ReadSize, ReadHeader, Remainder, ReadBody, HandleEnds
<1>3. (\E data : OnPacket(c, data)) \/ UNCHANGED phase
  <2>1. CASE ReadSize(c)
    BY <1>1, <2>1 DEF ReadSize
  <2>2. CASE ReadHeader(c) \/ HandleEnds(c)
    BY <2>2 DEF ReadHeader, HandleEnds
  <2>3. CASE Remainder(c)
    BY <1>1, <2>3, RemainderIs
  <2>4. CASE ReadBody(c)
    BY <1>1, <2>4 DEF ReadBody
  <2>5. QED
    BY <2>1, <2>2, <2>3, <2>4
<1>4. QED
  BY <1>2, <1>3, OnPacketRow

\* _connected reads the row.
LEMMA LoadRow ==
  ASSUME RowInv, NEW c \in Conns, Load(c)
  PROVE  RowInv'
<1> DEFINE l == [row EXCEPT !.online = TRUE]
<1>1. /\ phase[c] = "load" /\ phase' = [phase EXCEPT ![c] = "delete"]
      /\ up' = up /\ row' = row /\ versions' = versions /\ form' = form /\ late' = late
      /\ loaded' = [loaded EXCEPT ![c] = l]
  BY DEF Load, Goes
<1>2. l \in RowType /\ l.online = TRUE
  BY DEF RowInv, OnlineInv, RowType
<1> HIDE DEF l
<1>3. /\ phase'[c] = "delete" /\ \A d \in Conns \ {c} : phase'[d] = phase[d] /\ loaded'[d] = loaded[d]
      /\ loaded'[c] = l /\ loaded' \in [Conns -> RowType \cup {None}]
      /\ phase' \in [Conns -> Inactive \cup Connecting \cup {"named", "leave"}]
  BY <1>1, <1>2 DEF RowInv, PhaseInv, Connecting
<1>4. PhaseInv'
  BY <1>1, <1>2, <1>3 DEF RowInv, PhaseInv
<1>5. OnlineInv'
  BY <1>1, <1>3 DEF RowInv, OnlineInv
<1>6. VersionsInv'
  BY <1>1, <1>3 DEF RowInv, VersionsInv
<1>7. QED
  BY <1>4, <1>5, <1>6 DEF RowInv

\* The versions are deleted.
LEMMA DeleteVersionsRow ==
  ASSUME RowInv, NEW c \in Conns, DeleteVersions(c)
  PROVE  RowInv'
<1>1. /\ phase[c] = "delete" /\ phase' = [phase EXCEPT ![c] = "create"]
      /\ up' = up /\ row' = row /\ versions' = {} /\ form' = form /\ late' = late
      /\ loaded' = loaded
  BY DEF DeleteVersions, Goes
<1>2. /\ phase'[c] = "create" /\ \A d \in Conns \ {c} : phase'[d] = phase[d]
      /\ phase' \in [Conns -> Inactive \cup Connecting \cup {"named", "leave"}]
  BY <1>1 DEF RowInv, PhaseInv, Connecting
<1>3. PhaseInv'
  BY <1>1, <1>2 DEF RowInv, PhaseInv, Connecting
<1>4. OnlineInv'
  BY <1>1, <1>2 DEF RowInv, OnlineInv
<1>5. VersionsInv'
  BY <1>1, <1>2 DEF VersionsInv
<1>6. QED
  BY <1>3, <1>4, <1>5 DEF RowInv

\* The versions are stored.
LEMMA CreateVersionsRow ==
  ASSUME RowInv, NEW c \in Conns, CreateVersions(c)
  PROVE  RowInv'
<1>1. /\ phase[c] = "create" /\ phase' = [phase EXCEPT ![c] = "save"]
      /\ up' = up /\ row' = row /\ versions' = versions \cup {c} /\ form' = form /\ late' = late
      /\ loaded' = loaded
  BY DEF CreateVersions, Goes
<1>2. /\ phase'[c] = "save" /\ \A d \in Conns \ {c} : phase'[d] = phase[d]
      /\ phase' \in [Conns -> Inactive \cup Connecting \cup {"named", "leave"}]
  BY <1>1 DEF RowInv, PhaseInv, Connecting
<1>3. PhaseInv'
  BY <1>1, <1>2 DEF RowInv, PhaseInv, Connecting
<1>4. OnlineInv'
  BY <1>1, <1>2 DEF RowInv, OnlineInv
<1>5. VersionsInv'
  <2>1. \A v \in versions : phase[v] \in {"save", "named", "leave"}
    BY <1>1 DEF RowInv, VersionsInv
  <2>2. \A v \in versions' : phase'[v] \in {"save", "named", "leave"}
    BY <1>1, <1>2, <2>1 DEF RowInv, VersionsInv
  <2>3. versions' # {} /\ versions' \subseteq Conns
    BY <1>1 DEF RowInv, VersionsInv
  <2>4. QED
    BY <2>2, <2>3 DEF VersionsInv
<1>6. QED
  BY <1>3, <1>4, <1>5 DEF RowInv

\* The row is saved as it was loaded, online.
LEMMA SaveRowRow ==
  ASSUME RowInv, NEW c \in Conns, SaveRow(c)
  PROVE  RowInv'
<1>1. /\ phase[c] = "save" /\ phase' = [phase EXCEPT ![c] = "named"]
      /\ up' = up /\ row' = loaded[c] /\ versions' = versions /\ form' = form /\ late' = late
      /\ loaded' = [loaded EXCEPT ![c] = None]
  BY DEF SaveRow, Goes
<1>2. /\ phase'[c] = "named" /\ \A d \in Conns \ {c} : phase'[d] = phase[d] /\ loaded'[d] = loaded[d]
      /\ loaded' \in [Conns -> RowType \cup {None}]
      /\ phase' \in [Conns -> Inactive \cup Connecting \cup {"named", "leave"}]
  BY <1>1 DEF RowInv, PhaseInv
<1>3. PhaseInv'
  BY <1>1, <1>2 DEF RowInv, PhaseInv, Connecting
<1>4. row' \in RowType /\ row'.online = TRUE
  BY <1>1 DEF RowInv, PhaseInv, Connecting
<1>5. OnlineInv'
  BY <1>1, <1>2, <1>4 DEF RowInv, OnlineInv
<1>6. VersionsInv'
  <2>1. \A v \in versions : phase[v] \in {"save", "named", "leave"}
    BY <1>1 DEF RowInv, VersionsInv
  <2>2. \A v \in versions' : phase'[v] \in {"save", "named", "leave"}
    BY <1>1, <1>2, <2>1 DEF RowInv, VersionsInv
  <2>3. "leave" \notin late => versions # {} \/ \E o \in Conns \ {c} : phase[o] = "create"
    BY <1>1 DEF RowInv, VersionsInv
  <2>4. "leave" \notin late' => versions' # {} \/ \E o \in Conns : phase'[o] = "create"
    BY <1>1, <1>2, <2>3
  <2>5. versions' \subseteq Conns
    BY <1>1 DEF RowInv, VersionsInv
  <2>6. QED
    BY <2>2, <2>4, <2>5 DEF VersionsInv
<1>7. QED
  BY <1>3, <1>5, <1>6 DEF RowInv

\* A connection with a name ends: offline.
LEMMA SetOfflineRow ==
  ASSUME RowInv, NEW c \in Conns, SetOffline(c)
  PROVE  RowInv'
<1>1. /\ phase[c] = "named" /\ phase' = [phase EXCEPT ![c] = "leave"]
      /\ up' = up /\ row' = [row EXCEPT !.online = FALSE] /\ versions' = versions /\ form' = form
      /\ loaded' = loaded
      /\ late \subseteq late'
      /\ "leave" \notin late' => \A o \in Conns \ {c} : phase[o] \notin Connecting \cup {"named"}
      /\ "form" \notin late' => "form" \notin late
  BY DEF SetOffline, Goes, Others
<1>2. /\ phase'[c] = "leave" /\ \A d \in Conns \ {c} : phase'[d] = phase[d]
      /\ phase' \in [Conns -> Inactive \cup Connecting \cup {"named", "leave"}]
  BY <1>1 DEF RowInv, PhaseInv
<1>3. PhaseInv'
  BY <1>1, <1>2 DEF RowInv, PhaseInv, Connecting
<1>4. row' \in RowType /\ row'.online = FALSE
  BY <1>1 DEF RowInv, OnlineInv, RowType
<1>5. OnlineInv'
  BY <1>1, <1>2, <1>4 DEF RowInv, OnlineInv
<1>6. VersionsInv'
  <2>1. \A v \in versions : phase[v] \in {"save", "named", "leave"}
    BY <1>1 DEF RowInv, VersionsInv
  <2>2. \A v \in versions' : phase'[v] \in {"save", "named", "leave"}
    BY <1>1, <1>2, <2>1 DEF RowInv, VersionsInv
  <2>3. "leave" \notin late' => \A o \in Conns : phase'[o] \notin {"save", "named"}
    BY <1>1, <1>2 DEF Connecting
  <2>4. versions' \subseteq Conns
    BY <1>1 DEF RowInv, VersionsInv
  <2>5. QED
    BY <2>2, <2>3, <2>4 DEF VersionsInv
<1>7. QED
  BY <1>3, <1>5, <1>6 DEF RowInv

\* and its versions go.
LEMMA ForgetVersionsRow ==
  ASSUME RowInv, NEW c \in Conns, ForgetVersions(c)
  PROVE  RowInv'
<1>1. /\ phase[c] = "leave" /\ phase' = [phase EXCEPT ![c] = "gone"]
      /\ up' = up /\ row' = row /\ versions' = {} /\ form' = form /\ loaded' = loaded
      /\ late \subseteq late'
      /\ "leave" \notin late' => \A o \in Conns \ {c} : phase[o] \notin {"save", "named"}
      /\ "form" \notin late' => "form" \notin late
  BY DEF ForgetVersions, Goes, Others
<1>2. /\ phase'[c] = "gone" /\ \A d \in Conns \ {c} : phase'[d] = phase[d]
      /\ phase' \in [Conns -> Inactive \cup Connecting \cup {"named", "leave"}]
  BY <1>1 DEF RowInv, PhaseInv, Inactive
<1>3. PhaseInv'
  BY <1>1, <1>2 DEF RowInv, PhaseInv, Connecting
<1>4. OnlineInv'
  BY <1>1, <1>2 DEF RowInv, OnlineInv
<1>5. VersionsInv'
  <2>1. "leave" \notin late' => \A o \in Conns : phase'[o] \notin {"save", "named"}
    BY <1>1, <1>2
  <2>2. QED
    BY <1>1, <2>1 DEF VersionsInv
<1>6. QED
  BY <1>3, <1>4, <1>5 DEF RowInv

\* The form of an administrator.
LEMMA FormRow ==
  ASSUME RowInv, LoadForm \/ SaveForm
  PROVE  RowInv'
<1>1. CASE LoadForm
  <2>1. /\ form' = [row EXCEPT !.is_blocked = ~@] /\ phase' = phase /\ up' = up /\ row' = row
        /\ loaded' = loaded /\ versions' = versions /\ late' = late
    BY <1>1 DEF LoadForm
  <2>2. form' \in RowType
    BY <2>1 DEF RowInv, OnlineInv, RowType
  <2>3. OnlineInv'
    BY <2>1, <2>2 DEF RowInv, OnlineInv
  <2>4. PhaseInv' /\ VersionsInv'
    BY <2>1 DEF RowInv, PhaseInv, VersionsInv
  <2>5. QED
    BY <2>3, <2>4 DEF RowInv
<1>2. CASE SaveForm
  <2>1. /\ form \in RowType /\ row' = form /\ form' = None /\ phase' = phase /\ up' = up
        /\ loaded' = loaded /\ versions' = versions
        /\ late' = late \cup (IF row.online # form.online THEN {"form"} ELSE {})
    BY <1>2 DEF SaveForm, RowInv, OnlineInv
  <2>2. /\ "form" \notin late' => row'.online = row.online /\ "form" \notin late
        /\ "leave" \notin late' <=> "leave" \notin late
    BY <2>1
  <2>3. OnlineInv'
    BY <2>1, <2>2 DEF RowInv, OnlineInv
  <2>4. PhaseInv' /\ VersionsInv'
    BY <2>1, <2>2 DEF RowInv, PhaseInv, VersionsInv
  <2>5. QED
    BY <2>3, <2>4 DEF RowInv
<1>3. QED
  BY <1>1, <1>2

\* The daemon dies, and starts again.
LEMMA CrashRow ==
  ASSUME RowInv, Crash \/ Restart
  PROVE  RowInv'
<1>1. CASE Crash
  <2>1. /\ up' = FALSE /\ row' = row /\ versions' = versions /\ form' = form /\ late' = late
        /\ loaded' = [c \in Conns |-> None]
        /\ phase' = [c \in Conns |-> IF c \in {d \in Conns : phase[d] \notin {"new", "gone"}}
                                      THEN "gone" ELSE phase[c]]
    BY <1>1 DEF Crash
  <2>2. \A c \in Conns : phase'[c] \in {"new", "gone"}
    BY <2>1
  <2>3. phase' \in [Conns -> Inactive \cup Connecting \cup {"named", "leave"}]
    BY <2>1, <2>2 DEF Inactive
  <2>4. PhaseInv'
    BY <2>1, <2>2, <2>3 DEF PhaseInv, Connecting
  <2>5. OnlineInv'
    BY <2>1 DEF RowInv, OnlineInv
  <2>6. VersionsInv'
    BY <2>1, <2>2 DEF RowInv, VersionsInv
  <2>7. QED
    BY <2>4, <2>5, <2>6 DEF RowInv
<1>2. CASE Restart
  <2>1. /\ ~up /\ up' = TRUE /\ row' = [row EXCEPT !.online = FALSE] /\ versions' = versions
        /\ form' = form /\ late' = late /\ loaded' = loaded /\ phase' = phase
    BY <1>2 DEF Restart, ResetJudges
  <2>2. row' \in RowType /\ row'.online = FALSE /\ \A c \in Conns : phase[c] \in {"new", "gone"}
    BY <2>1 DEF RowInv, PhaseInv, OnlineInv, RowType
  <2>3. PhaseInv'
    BY <2>1 DEF RowInv, PhaseInv
  <2>4. OnlineInv'
    BY <2>1, <2>2 DEF RowInv, OnlineInv
  <2>5. VersionsInv'
    BY <2>1 DEF RowInv, VersionsInv
  <2>6. QED
    BY <2>3, <2>4, <2>5 DEF RowInv
<1>3. QED
  BY <1>1, <1>2

\* Every step keeps the row's invariant.
LEMMA RowNext ==
  NetInv /\ RowInv /\ [Next]_connectionVars => RowInv'
<1> SUFFICES ASSUME NetInv, RowInv, [Next]_connectionVars PROVE RowInv'
  OBVIOUS
<1>1. CASE UNCHANGED connectionVars
  BY <1>1, RowSame DEF connectionVars, rowVars
<1>2. ASSUME NEW c \in Conns, Connect(c) \/ SendPacket(c) \/ Close(c) \/ Silence(c)
      PROVE  RowInv'
  <2>1. CASE Connect(c)
    <3>1. /\ up /\ phase' = [phase EXCEPT ![c] = "anonymous"]
          /\ UNCHANGED <<up, row, loaded, versions, form, late>>
      BY <2>1 DEF Connect, rowVars
    <3>2. phase[c] = "new"
      BY <2>1 DEF Connect, NetInv, ConnInv, PeerInv
    <3>3. QED
      BY <3>1, <3>2, NamelessStep DEF Inactive
  <2>2. CASE SendPacket(c) \/ Close(c) \/ Silence(c)
    BY <2>2, RowSame DEF SendPacket, Close, Silence, rowVars
  <2>3. QED
    BY <1>2, <2>1, <2>2
<1>3. ASSUME NEW c \in Conns, Handle(c) PROVE RowInv'
  <2>1. CASE Refuse(c)
    <3>1. /\ phase[c] = "refuse" /\ phase' = [phase EXCEPT ![c] = "refused"]
          /\ UNCHANGED <<up, row, loaded, versions, form, late>>
      BY <2>1 DEF Refuse, Goes, rowVars
    <3>2. QED
      BY <3>1, NamelessStep DEF Inactive
  <2>2. CASE LeaveNameless(c)
    <3>1. /\ phase[c] \in {"anonymous", "refused"} /\ phase' = [phase EXCEPT ![c] = "gone"]
          /\ UNCHANGED <<up, row, loaded, versions, form, late>>
      BY <2>2 DEF LeaveNameless, rowVars
    <3>2. QED
      BY <3>1, NamelessStep DEF Inactive
  <2>3. QED
    BY <1>3, <2>1, <2>2, ReadingRow, LoadRow, DeleteVersionsRow, CreateVersionsRow, SaveRowRow,
       SetOfflineRow, ForgetVersionsRow DEF Handle
<1>4. CASE LoadForm \/ SaveForm \/ Crash \/ Restart
  BY <1>4, FormRow, CrashRow
<1>5. QED
  BY <1>1, <1>2, <1>3, <1>4 DEF Next

\* Whatever connections come, go, are refused or crash, and in whatever order their
\* threads touch the row: a judge at rest is shown online exactly while it has a
\* connection, with the versions of one, unless an old connection's end or an old
\* form came after a newer connection.
THEOREM OnlineWhileConnected == Spec => []OnlineIsConnected
<1>1. Init => RowInv
  <2> SUFFICES ASSUME Init PROVE RowInv
    OBVIOUS
  <2>1. /\ phase = [c \in Conns |-> "new"] /\ loaded = [c \in Conns |-> None]
        /\ up = TRUE /\ versions = {} /\ form = None /\ late = {}
        /\ row = [online |-> FALSE, is_blocked |-> FALSE]
    BY DEF Init
  <2>2. PhaseInv
    BY <2>1 DEF PhaseInv, Inactive, Connecting
  <2>3. OnlineInv
    BY <2>1 DEF OnlineInv, RowType
  <2>4. VersionsInv
    BY <2>1 DEF VersionsInv
  <2>5. QED
    BY <2>2, <2>3, <2>4 DEF RowInv
<1>2. RowInv => OnlineIsConnected
  <2> SUFFICES ASSUME RowInv, AtRest, "form" \notin late PROVE
         /\ row.online => Named # {}
         /\ "leave" \notin late /\ Named # {} => row.online /\ versions # {} /\ versions \subseteq Named
    BY DEF OnlineIsConnected
  <2>1. up /\ \A c \in Conns : phase[c] \notin {"create", "save", "leave"}
    BY DEF AtRest, Connecting
  <2>2. row.online => Named # {}
    BY <2>1 DEF RowInv, OnlineInv, Named
  <2>3. ASSUME "leave" \notin late, Named # {}
        PROVE  row.online /\ versions # {} /\ versions \subseteq Named
    <3>1. PICK c \in Conns : phase[c] = "named"
      BY <2>3 DEF Named
    <3>2. row.online
      BY <2>1, <2>3, <3>1 DEF RowInv, OnlineInv
    <3>3. versions # {}
      BY <2>1, <2>3, <3>1 DEF RowInv, VersionsInv
    <3>4. versions \subseteq Named
      BY <2>1, <3>1 DEF RowInv, VersionsInv, Named
    <3>5. QED
      BY <3>2, <3>3, <3>4
  <2>4. QED
    BY <2>2, <2>3
<1>3. QED
  BY <1>1, <1>2, NetInit, NetNext, RowNext, PTL DEF Spec

====
