--------------------------- MODULE ByteArrayProofs ---------------------------
(***************************************************************************)
(* A ByteArray is a vector of bytes, whatever the size of its static       *)
(* buffer and wherever the bytes are when it grows.                        *)
(***************************************************************************)
EXTENDS ByteArray, TLAPS

\* Most steps are first-order: Zenon proves them.  SMT is cited where a step
\* needs arithmetic or sequences.
USE Zenon

\* size() is the length of what getData() holds, in both representations.
LEMMA ContentIsBytes ==
  ASSUME NEW b \in ByteArrays
  PROVE  /\ content(b) \in Seq(Byte)
         /\ Len(content(b)) = size(b)
         /\ size(b) \in Nat
BY StaticSizeAssumption, SMT DEF ByteArrays, content, size

\* resize() gives a ByteArray of the size asked for, which keeps the bytes that
\* were there, also when it is the one that moves them to the heap.
LEMMA ResizeKeeps ==
  ASSUME NEW b \in ByteArrays, NEW n \in Nat
  PROVE  /\ resize(b, n) \in ByteArrays
         /\ size(resize(b, n)) = n
         /\ \A i \in 1 .. n : i <= size(b) => content(resize(b, n))[i] = content(b)[i]
<1>1. CASE b.onHeap
  <2> DEFINE d == [i \in 1 .. n |-> IF i <= Len(b.m_dynamicData) THEN b.m_dynamicData[i] ELSE 0]
  <2>0. b.m_dynamicData \in Seq(Byte)
    BY DEF ByteArrays
  <2>1. d \in Seq(Byte) /\ Len(d) = n
    <3>1. 0 \in Byte
      BY SMT DEF Byte
    <3>2. \A i \in 1 .. n : d[i] \in Byte
      BY <2>0, <3>1, SMT
    <3> QED
      BY <3>2, SMT
  <2>2. resize(b, n) = [b EXCEPT !.m_dynamicData = d]
    BY <1>1 DEF resize
  <2> HIDE DEF d
  <2>3. resize(b, n) \in ByteArrays /\ resize(b, n).onHeap /\ resize(b, n).m_dynamicData = d
    BY <1>1, <2>1, <2>2 DEF ByteArrays
  <2> QED
    BY <1>1, <2>1, <2>3 DEF size, content, d
<1>2. CASE ~b.onHeap /\ n <= StaticSize
  BY <1>2, StaticSizeAssumption, SMT DEF ByteArrays, resize, size, content
<1>3. CASE ~b.onHeap /\ ~(n <= StaticSize)
  <2> DEFINE d == [i \in 1 .. n |-> IF i <= b.m_length THEN b.m_staticData[i] ELSE 0]
  <2>1. d \in Seq(Byte) /\ Len(d) = n
    BY StaticSizeAssumption, SMT DEF ByteArrays, Byte
  <2>2. resize(b, n) = [b EXCEPT !.onHeap = TRUE, !.m_dynamicData = d]
    BY <1>3 DEF resize
  <2> HIDE DEF d
  <2>3. resize(b, n) \in ByteArrays /\ resize(b, n).onHeap /\ resize(b, n).m_dynamicData = d
    BY <2>1, <2>2 DEF ByteArrays
  <2> QED
    BY <1>3, <2>1, <2>3, StaticSizeAssumption, SMT DEF size, content, d, ByteArrays
<1> QED
  BY <1>1, <1>2, <1>3

\* memcpy into the bytes that a ByteArray has changes those and no other.
LEMMA StoreWrites ==
  ASSUME NEW b \in ByteArrays, NEW p \in Nat, NEW bytes \in Seq(Byte),
         p + Len(bytes) <= size(b)
  PROVE  /\ store(b, p, bytes) \in ByteArrays
         /\ size(store(b, p, bytes)) = size(b)
         /\ \A i \in 1 .. size(b) : content(store(b, p, bytes))[i] =
              IF i \in p + 1 .. p + Len(bytes) THEN bytes[i - p] ELSE content(b)[i]
<1> DEFINE written(data) == [i \in DOMAIN data |->
      IF i \in p + 1 .. p + Len(bytes) THEN bytes[i - p] ELSE data[i]]
<1>0. \A i \in p + 1 .. p + Len(bytes) : bytes[i - p] \in Byte
  BY SMT
<1>1. CASE b.onHeap
  <2> DEFINE d == written(b.m_dynamicData)
  <2>0. b.m_dynamicData \in Seq(Byte) /\ size(b) = Len(b.m_dynamicData)
    BY <1>1 DEF ByteArrays, size
  <2>1. DOMAIN d = 1 .. size(b) /\ \A i \in 1 .. size(b) : d[i] \in Byte
    BY <1>0, <2>0, SMT
  <2>2. d \in Seq(Byte) /\ Len(d) = size(b)
    <3>1. d = [i \in 1 .. size(b) |-> d[i]]
      BY <2>0, SMT
    <3> HIDE DEF d
    <3> QED
      BY <2>0, <2>1, <3>1, SMT
  <2>3. store(b, p, bytes) = [b EXCEPT !.m_dynamicData = d]
    BY <1>1 DEF store
  <2>4. \A i \in 1 .. size(b) : d[i] =
          IF i \in p + 1 .. p + Len(bytes) THEN bytes[i - p] ELSE b.m_dynamicData[i]
    BY <2>0, SMT
  <2> HIDE DEF d
  <2>5. /\ store(b, p, bytes) \in ByteArrays
        /\ store(b, p, bytes).onHeap
        /\ store(b, p, bytes).m_dynamicData = d
    BY <1>1, <2>2, <2>3 DEF ByteArrays
  <2> QED
    BY <1>1, <2>2, <2>4, <2>5 DEF size, content
<1>2. CASE ~b.onHeap
  <2> DEFINE d == written(b.m_staticData)
  <2>0. /\ b.m_staticData \in [1 .. StaticSize -> Byte]
        /\ size(b) = b.m_length
        /\ b.m_length \in 0 .. StaticSize
    BY <1>2 DEF ByteArrays, size
  <2>1. d \in [1 .. StaticSize -> Byte]
    BY <1>0, <2>0
  <2>2. store(b, p, bytes) = [b EXCEPT !.m_staticData = d]
    BY <1>2 DEF store
  <2>3. \A i \in 1 .. size(b) : d[i] =
          IF i \in p + 1 .. p + Len(bytes) THEN bytes[i - p] ELSE b.m_staticData[i]
    BY <2>0, StaticSizeAssumption, SMT
  <2> HIDE DEF d
  <2>4. /\ store(b, p, bytes) \in ByteArrays
        /\ ~store(b, p, bytes).onHeap
        /\ store(b, p, bytes).m_staticData = d
        /\ store(b, p, bytes).m_length = b.m_length
    BY <1>2, <2>1, <2>2 DEF ByteArrays
  <2> QED
    BY <1>2, <2>0, <2>3, <2>4 DEF size, content
<1> QED
  BY <1>1, <1>2

\* ByteArray::append: the content grows by exactly the bytes given, for every
\* size of the static buffer: in place, on the way to the heap, and on it.
THEOREM AppendIsConcatenation ==
  ASSUME NEW b \in ByteArrays, NEW bytes \in Seq(Byte)
  PROVE  /\ append(b, bytes) \in ByteArrays
         /\ content(append(b, bytes)) = content(b) \o bytes
<1> DEFINE n == size(b) + Len(bytes)
           r == resize(b, n)
<1>1. /\ content(b) \in Seq(Byte) /\ Len(content(b)) = size(b)
      /\ size(b) \in Nat /\ Len(bytes) \in Nat /\ n \in Nat
  BY ContentIsBytes, SMT
<1>2. /\ r \in ByteArrays
      /\ size(r) = n
      /\ \A i \in 1 .. n : i <= size(b) => content(r)[i] = content(b)[i]
  <2> HIDE DEF n
  <2> QED  BY <1>1, ResizeKeeps
<1>3. append(b, bytes) = store(r, size(b), bytes)
  BY DEF append
<1> HIDE DEF r
<1>4. /\ append(b, bytes) \in ByteArrays
      /\ size(append(b, bytes)) = n
      /\ \A i \in 1 .. n : content(append(b, bytes))[i] =
           IF i \in size(b) + 1 .. size(b) + Len(bytes) THEN bytes[i - size(b)]
           ELSE content(r)[i]
  BY <1>1, <1>2, <1>3, StoreWrites, SMT
<1>5. /\ content(append(b, bytes)) \in Seq(Byte)
      /\ Len(content(append(b, bytes))) = n
  BY <1>4, ContentIsBytes
<1>6. /\ content(b) \o bytes \in Seq(Byte)
      /\ Len(content(b) \o bytes) = n
      /\ \A i \in 1 .. n : (content(b) \o bytes)[i] =
           IF i <= size(b) THEN content(b)[i] ELSE bytes[i - size(b)]
  BY <1>1, SMT
<1>7. \A i \in 1 .. n : content(append(b, bytes))[i] = (content(b) \o bytes)[i]
  BY <1>1, <1>2, <1>4, <1>6, SMT
<1>8. content(append(b, bytes)) = content(b) \o bytes
  BY <1>5, <1>6, <1>7, SMT
<1> QED
  BY <1>4, <1>8

\* ByteArray::operator=: the target has the content of the source, whichever of
\* the two is on the heap and whatever the target held before.
THEOREM AssignIsCopy ==
  ASSUME NEW b \in ByteArrays, NEW right \in ByteArrays
  PROVE  /\ assign(b, right) \in ByteArrays
         /\ content(assign(b, right)) = content(right)
<1> DEFINE n == size(right)
           r == resize(b, n)
           c == content(right)
<1>1. c \in Seq(Byte) /\ Len(c) = n /\ n \in Nat
  BY ContentIsBytes
<1>2. r \in ByteArrays /\ size(r) = n
  <2> HIDE DEF n
  <2> QED  BY <1>1, ResizeKeeps
<1>3. assign(b, right) = store(r, 0, c)
  BY DEF assign
<1> HIDE DEF n, r, c
<1>4. /\ assign(b, right) \in ByteArrays
      /\ size(assign(b, right)) = n
      /\ \A i \in 1 .. n : content(assign(b, right))[i] = c[i]
  BY <1>1, <1>2, <1>3, StoreWrites, SMT
<1>5. content(assign(b, right)) \in Seq(Byte) /\ Len(content(assign(b, right))) = n
  BY <1>4, ContentIsBytes
<1>6. content(assign(b, right)) = c
  BY <1>1, <1>4, <1>5, SMT
<1> QED
  BY <1>4, <1>6 DEF c

\* z is q followed by r, said of the elements.
isConcatenation(z, q, r) ==
  /\ z \in Seq(Byte)
  /\ Len(z) = Len(q) + Len(r)
  /\ \A i \in 1 .. Len(q) + Len(r) : z[i] = IF i <= Len(q) THEN q[i] ELSE r[i - Len(q)]

\* What \o does.
LEMMA Concatenation ==
  ASSUME NEW q \in Seq(Byte), NEW r \in Seq(Byte)
  PROVE  isConcatenation(q \o r, q, r)
BY SMT DEF isConcatenation

\* z is q, r and t in a row, and r has four elements.
isRow(z, q, r, t) ==
  /\ z \in Seq(Byte)
  /\ Len(z) = Len(q) + 4 + Len(t)
  /\ \A i \in 1 .. Len(q) + 4 + Len(t) : z[i] =
       IF i <= Len(q) THEN q[i]
       ELSE IF i <= Len(q) + 4 THEN r[i - Len(q)] ELSE t[i - Len(q) - 4]

\* Two concatenations make a row.
LEMMA ThreeParts ==
  ASSUME NEW q \in Seq(Byte), NEW r \in Seq(Byte), NEW t \in Seq(Byte), Len(r) = 4,
         NEW u, isConcatenation(u, q, r), NEW z, isConcatenation(z, u, t)
  PROVE  isRow(z, q, r, t)
BY SMTT(30) DEF isConcatenation, isRow

\* x is z with four bytes, s, from position p on.
isOverwritten(x, z, p, s) ==
  /\ x \in Seq(Byte)
  /\ Len(x) = Len(z)
  /\ \A i \in 1 .. Len(z) : x[i] = IF i \in p + 1 .. p + 4 THEN s[i - p] ELSE z[i]

\* Sequences are equal if their elements are.
LEMMA SameElements ==
  ASSUME NEW x \in Seq(Byte), NEW y \in Seq(Byte), Len(x) = Len(y),
         \A i \in 1 .. Len(x) : x[i] = y[i]
  PROVE  x = y
BY SMT

\* Overwriting the second part of a row, z, with s gives the row y with s in it.
LEMMA MiddleReplaced ==
  ASSUME NEW q \in Seq(Byte), NEW r \in Seq(Byte), NEW s \in Seq(Byte), NEW t \in Seq(Byte),
         NEW z, isRow(z, q, r, t), NEW y, isRow(y, q, s, t),
         NEW x, isOverwritten(x, z, Len(q), s)
  PROVE  x = y
<1>1. /\ x \in Seq(Byte) /\ y \in Seq(Byte) /\ Len(x) = Len(y)
      /\ Len(x) = Len(q) + 4 + Len(t)
  BY DEF isRow, isOverwritten
<1>2. ASSUME NEW i \in 1 .. Len(x) PROVE x[i] = y[i]
  <2>0. Len(q) \in Nat /\ Len(t) \in Nat /\ i \in 1 .. Len(q) + 4 + Len(t)
    BY <1>1, SMT
  <2>1. x[i] = IF i \in Len(q) + 1 .. Len(q) + 4 THEN s[i - Len(q)] ELSE z[i]
    BY DEF isOverwritten
  <2>2. z[i] = IF i <= Len(q) THEN q[i]
               ELSE IF i <= Len(q) + 4 THEN r[i - Len(q)] ELSE t[i - Len(q) - 4]
    BY <2>0 DEF isRow
  <2>3. y[i] = IF i <= Len(q) THEN q[i]
               ELSE IF i <= Len(q) + 4 THEN s[i - Len(q)] ELSE t[i - Len(q) - 4]
    BY <2>0 DEF isRow
  <2> QED
    BY <2>0, <2>1, <2>2, <2>3, SMT
<1> QED
  BY <1>1, <1>2, SameElements

\* Bytes appended after four reserved ones, which are then overwritten.
LEMMA ReservedIsFilled ==
  ASSUME NEW b \in ByteArrays, NEW bytes \in Seq(Byte),
         NEW length \in Seq(Byte), Len(length) = 4
  PROVE  LET w == append(skip(b, 4), bytes) IN
         /\ size(w) - size(b) - 4 = Len(bytes)
         /\ content(store(w, size(b), length)) = (content(b) \o length) \o bytes
<1> DEFINE zeros == [i \in 1 .. 4 |-> 0]
           s == skip(b, 4)
           w == append(s, bytes)
           c == content(b)
           x == store(w, size(b), length)
<1>1. zeros \in Seq(Byte) /\ Len(zeros) = 4
  BY SMT DEF Byte
<1>2. s \in ByteArrays /\ content(s) = c \o zeros
  <2>1. s = append(b, zeros)
    BY DEF skip
  <2> HIDE DEF s, zeros
  <2> QED  BY <1>1, <2>1, AppendIsConcatenation
<1>3. w \in ByteArrays /\ content(w) = (c \o zeros) \o bytes
  <2> HIDE DEF s, zeros
  <2> QED  BY <1>2, AppendIsConcatenation
<1>4. c \in Seq(Byte) /\ Len(c) = size(b) /\ size(b) \in Nat /\ Len(bytes) \in Nat
  BY ContentIsBytes, SMT
<1>5. content(w) \in Seq(Byte) /\ Len(content(w)) = size(w)
  BY <1>3, ContentIsBytes
<1> HIDE DEF s, zeros, w, c
<1>6. isConcatenation(c \o zeros, c, zeros) /\ isConcatenation(c \o length, c, length)
  BY <1>1, <1>4, Concatenation
<1>7. /\ c \o zeros \in Seq(Byte) /\ c \o length \in Seq(Byte)
      /\ Len(c \o zeros) = size(b) + 4
  BY <1>1, <1>4, <1>6 DEF isConcatenation
<1>8. /\ isConcatenation(content(w), c \o zeros, bytes)
      /\ isConcatenation((c \o length) \o bytes, c \o length, bytes)
  BY <1>3, <1>7, Concatenation
<1>9. size(w) = size(b) + 4 + Len(bytes)
  <2>1. Len(content(w)) = Len(c \o zeros) + Len(bytes)
    BY <1>8 DEF isConcatenation
  <2> QED  BY <1>5, <1>7, <2>1
<1>10. /\ x \in ByteArrays
       /\ size(x) = size(w)
       /\ \A i \in 1 .. size(w) : content(x)[i] =
            IF i \in size(b) + 1 .. size(b) + Len(length) THEN length[i - size(b)]
            ELSE content(w)[i]
  <2>1. size(b) + Len(length) <= size(w)
    BY <1>4, <1>9, SMT
  <2> QED  BY <1>3, <1>4, <2>1, StoreWrites, ZenonT(30)
<1>11. content(x) \in Seq(Byte) /\ Len(content(x)) = size(x)
  BY <1>10, ContentIsBytes
<1> HIDE DEF x
<1>12. \A i \in 1 .. Len(content(w)) : content(x)[i] =
         IF i \in Len(c) + 1 .. Len(c) + 4 THEN length[i - Len(c)] ELSE content(w)[i]
  BY <1>4, <1>5, <1>10, SMT
<1>13. Len(content(x)) = Len(content(w))
  BY <1>5, <1>10, <1>11
<1>14. content(x) = (c \o length) \o bytes
  <2> DEFINE y == (c \o length) \o bytes
             u == c \o zeros
             v == c \o length
  <2>1. isConcatenation(u, c, zeros) /\ isConcatenation(content(w), u, bytes)
    BY <1>6, <1>8
  <2>2. isConcatenation(v, c, length) /\ isConcatenation(y, v, bytes)
    BY <1>6, <1>8
  <2> HIDE DEF y, u, v
  <2>3. isRow(content(w), c, zeros, bytes)
    BY <1>1, <1>4, <2>1, ThreeParts
  <2>4. isRow(y, c, length, bytes)
    BY <1>4, <2>2, ThreeParts
  <2>5. content(x) = y
    <3>1. isOverwritten(content(x), content(w), Len(c), length)
      BY <1>11, <1>12, <1>13 DEF isOverwritten
    <3> QED
      BY <1>1, <1>4, <2>3, <2>4, <3>1, MiddleReplaced, SMT
  <2> QED
    BY <2>5 DEF y
<1>15. size(w) - size(b) - 4 = Len(bytes)
  BY <1>4, <1>9, SMT
<1> QED
  BY <1>14, <1>15 DEF x, w, s, c

\* LengthPlaceHolder: the space that is reserved first and filled in when the
\* scope ends comes to the same as writing the length in front of the bytes,
\* which is how WireFormat writes messages, although what is written in between
\* may move the buffer to the heap.
THEOREM PlaceHolderIsPrefix ==
  ASSUME NEW b \in ByteArrays, NEW bytes \in Seq(Byte),
         NEW u32, u32[Len(bytes)] \in Seq(Byte), Len(u32[Len(bytes)]) = 4
  PROVE  content(lengthPlaceHolder(b, bytes, u32)) = (content(b) \o u32[Len(bytes)]) \o bytes
<1> DEFINE w == append(skip(b, 4), bytes)
<1>1. size(w) - size(b) - 4 = Len(bytes)
  BY ReservedIsFilled
<1>2. content(store(w, size(b), u32[Len(bytes)])) = (content(b) \o u32[Len(bytes)]) \o bytes
  BY ReservedIsFilled
<1>3. lengthPlaceHolder(b, bytes, u32) = store(w, size(b), u32[size(w) - size(b) - 4])
  BY DEF lengthPlaceHolder
<1> QED
  BY <1>1, <1>2, <1>3
=============================================================================
