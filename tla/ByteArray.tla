------------------------------ MODULE ByteArray ------------------------------
(***************************************************************************)
(* The buffer that every message is put together in: a vector of bytes     *)
(* that lives in a member of fixed size until it grows past it, and then,  *)
(* for good, on the heap.  m_length is not kept up to date on the heap.    *)
(***************************************************************************)
EXTENDS Naturals, Sequences

CONSTANT StaticSize      \* sizeof(m_staticData)

ASSUME StaticSizeAssumption == StaticSize \in Nat

Byte == 0 .. 255

\* onHeap stands for m_dynamicData being set.
ByteArrays ==
  {b \in [onHeap : BOOLEAN, m_dynamicData : Seq(Byte),
          m_staticData : [1 .. StaticSize -> Byte], m_length : 0 .. StaticSize] :
     ~b.onHeap => b.m_dynamicData = <<>>}

\* The constructor; the static buffer is cleared in this build.
emptyByteArray ==
  [onHeap |-> FALSE, m_dynamicData |-> <<>>,
   m_staticData |-> [i \in 1 .. StaticSize |-> 0], m_length |-> 0]

size(b) == IF b.onHeap THEN Len(b.m_dynamicData) ELSE b.m_length

\* getData(), as far as size().
content(b) ==
  IF b.onHeap THEN b.m_dynamicData ELSE [i \in 1 .. b.m_length |-> b.m_staticData[i]]

\* MUTANT: the bytes are not taken along to the heap.
resizeEmpty(b, n) ==
  IF b.onHeap
  THEN [b EXCEPT !.m_dynamicData = [i \in 1 .. n |-> IF i <= Len(@) THEN @[i] ELSE 0]]
  ELSE IF n <= StaticSize THEN [b EXCEPT !.m_length = n]
  ELSE [b EXCEPT !.onHeap = TRUE, !.m_dynamicData = [i \in 1 .. n |-> 0]]

\* What a buffer that grows in place gains is what it held before.
resize(b, n) ==
  IF b.onHeap
  THEN [b EXCEPT !.m_dynamicData = [i \in 1 .. n |-> IF i <= Len(@) THEN @[i] ELSE 0]]
  ELSE IF n <= StaticSize THEN [b EXCEPT !.m_length = n]
  ELSE [b EXCEPT !.onHeap = TRUE,
                 !.m_dynamicData = [i \in 1 .. n |->
                    IF i <= b.m_length THEN b.m_staticData[i] ELSE 0]]

\* memcpy of bytes to getData() + position
store(b, position, bytes) ==
  LET written(data) == [i \in DOMAIN data |->
        IF i \in position + 1 .. position + Len(bytes) THEN bytes[i - position] ELSE data[i]]
  IN IF b.onHeap THEN [b EXCEPT !.m_dynamicData = written(@)]
     ELSE [b EXCEPT !.m_staticData = written(@)]

append(b, bytes) == store(resize(b, size(b) + Len(bytes)), size(b), bytes)

\* operator=
assign(b, right) == store(resize(b, size(right)), 0, content(right))

skip(b, n) == append(b, [i \in 1 .. n |-> 0])

-----------------------------------------------------------------------------
\* LengthPlaceHolder<uint32_t>: four bytes are reserved where the buffer ends,
\* what its scope writes is appended, and writeLength stores, at the place
\* reserved, the length of what was appended since, in the encoding u32.
lengthPlaceHolder(b, bytes, u32) ==
  LET m_basePosition == size(b)
      written == append(skip(b, 4), bytes)
  IN store(written, m_basePosition, u32[size(written) - m_basePosition - 4])
=============================================================================
