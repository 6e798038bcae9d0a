--------------------------- MODULE MainLoopProofs ---------------------------
(***************************************************************************)
(* Proofs about the main loop: no callback reaches a client that has been  *)
(* disconnected or deleted, and what a client sent before it closed its    *)
(* connection is read before the client is taken for gone.                 *)
(***************************************************************************)
EXTENDS MainLoop, WellFoundedInduction, TLAPS

\* Most steps are first-order: Zenon proves them.  SMT is cited where a step
\* needs arithmetic or sequences.
USE Zenon

Hook == Watch \cup OfRun \cup {server, idle, timer}

Process ==
  [attached : Seq(Hook), ready : Seq(Hook), m_source : BOOLEAN,
   inputSourceID : [Watch -> BOOLEAN], m_isInputWatched : [Watch -> BOOLEAN],
   client : [Client -> {"none", "connecting", "connected", "disconnected", "deleted"}],
   pending : SUBSET {"SIGTERM", "SIGPIPE"}]

\* x comes before y in a sequence.
Before(seq, x, y) ==
  \E i, j \in 1 .. Len(seq) : i < j /\ seq[i] = x /\ seq[j] = y

\* The hooks know their sources.  This also holds in the middle of a callback.
Sources(p) ==
  /\ IsInjective(p.attached) /\ IsInjective(p.ready)
  /\ Range(p.ready) \subseteq Range(p.attached)
  /\ p.m_source = (idle \in Range(p.attached))
  /\ \A w \in Watch : /\ p.inputSourceID[w] = (w \in Range(p.attached))
                      /\ p.inputSourceID[w] => p.m_isInputWatched[w]

\* Only connected clients are watched, and a watch is used once.
Living(p) ==
  \A w \in Watch :
    /\ p.inputSourceID[w] => p.client[w[1]] = "connected"
    /\ p.m_isInputWatched[w] => p.client[w[1]] \notin {"none", "connecting"}

\* The data of a client is watched for before the end of its connection.
Ordered(p) ==
  \A c \in Client :
    <<c, "hup">> \in Range(p.attached) => Before(p.attached, <<c, "in">>, <<c, "hup">>)

\* A client whose end is about to be handled has closed its connection, and if
\* it has data left, this is handled before.
Served(p, left, gone) ==
  \A c \in Client :
    <<c, "hup">> \in Range(p.ready) =>
      /\ c \in gone
      /\ left[c] > 0 => Before(p.ready, <<c, "in">>, <<c, "hup">>)

\* What a call of run() attaches was not there before.
RunsKnown(p, n) ==
  \A k \in {"signal", "timeout"}, r \in 1 .. MaxRuns :
    <<k, r>> \in Range(p.attached) => r <= n

\* The process between two callbacks.
Settled(p, left, gone, n) ==
  /\ p \in Process
  /\ Sources(p)
  /\ Living(p)
  /\ Ordered(p)
  /\ Served(p, left, gone)
  /\ RunsKnown(p, n)

MainLoopInv ==
  /\ runs \in 0 .. MaxRuns
  /\ data \in [Client -> Nat]
  /\ closed \subseteq Client
  /\ due \cap Watch = {}
  /\ Settled(g, data, closed, runs)

\* The client c is taken for gone.
Loses(p, q, c) == p.client[c] = "connected" /\ q.client[c] = "disconnected"

-----------------------------------------------------------------------------
(* What is left of a sequence without some hooks.                          *)

\* The indices of a sequence.
LEMMA Indices ==
  ASSUME NEW S, NEW q \in Seq(S)
  PROVE  /\ Len(q) \in Nat /\ DOMAIN q = 1 .. Len(q)
         /\ \A i \in 1 .. Len(q) : q[i] \in S
BY SMT

\* A hook attached at the end of the list.
LEMMA Appended ==
  ASSUME NEW S, NEW q \in Seq(S), NEW v \in S
  PROVE  LET r == Append(q, v) IN
         /\ r \in Seq(S) /\ Len(r) = Len(q) + 1 /\ r[Len(q) + 1] = v
         /\ \A i \in 1 .. Len(q) : r[i] = q[i]
BY SMT

\* The first hook of the list taken away.
LEMMA Shifted ==
  ASSUME NEW S, NEW q \in Seq(S), q # << >>
  PROVE  LET r == Tail(q) IN
         /\ Len(q) # 0 /\ r \in Seq(S) /\ Len(r) = Len(q) - 1
         /\ \A i \in 1 .. Len(q) - 1 : r[i] = q[i + 1]
BY SMT

LEMMA LeastNumber ==
  ASSUME NEW T, T \subseteq Nat, T # {}
  PROVE  \E x \in T : \A y \in T : x <= y
<1> DEFINE R == OpToRel(<, Nat)
<1>1. IsWellFoundedOn(R, Nat) BY NatLessThanWellFounded
<1>2. PICK x \in T : \A y \in T : ~(<<y, x>> \in R)
  <2> HIDE DEF R
  <2> QED BY <1>1, WFMin
<1>3. \A y \in T : <<y, x>> \in R <=> y < x
  BY DEF OpToRel
<1>4. x \in Nat /\ \A y \in T : y \in Nat /\ ~(y < x) BY <1>2, <1>3
<1> QED BY <1>4, SMT

\* Induction, for a set of numbers.
LEMMA Induction ==
  ASSUME NEW T, 0 \in T, \A n \in Nat : n \in T => n + 1 \in T
  PROVE  Nat \subseteq T
<1> SUFFICES ASSUME Nat \ T # {} PROVE FALSE
  OBVIOUS
<1>1. PICK x \in Nat \ T : \A y \in Nat \ T : x <= y
  <2>1. Nat \ T \subseteq Nat OBVIOUS
  <2> QED BY <2>1, LeastNumber
<1>2. x # 0 OBVIOUS
<1>3. x - 1 \in Nat /\ ~(x <= x - 1) /\ (x - 1) + 1 = x BY <1>2, SMT
<1> QED BY <1>1, <1>3

\* The function by which without is defined.
Selection(seq, hooks, n, F) ==
  F = [i \in 0 .. n |->
         IF i = 0 THEN <<>>
         ELSE IF seq[i] \notin hooks THEN Append(F[i - 1], seq[i]) ELSE F[i - 1]]

LEMMA SelectionExists ==
  ASSUME NEW S, NEW seq \in Seq(S), NEW hooks
  PROVE  \E F \in [0 .. Len(seq) -> Seq(S)] : Selection(seq, hooks, Len(seq), F)
<1> DEFINE T == {n \in Nat : n <= Len(seq) =>
                   \E F \in [0 .. n -> Seq(S)] : Selection(seq, hooks, n, F)}
<1>0. Len(seq) \in Nat BY SMT
<1>1. 0 \in T
  <2> DEFINE F == [i \in 0 .. 0 |-> <<>>]
  <2>1. F \in [0 .. 0 -> Seq(S)] BY SMT
  <2>2. Selection(seq, hooks, 0, F) BY SMT DEF Selection
  <2> QED BY <2>1, <2>2
<1>2. ASSUME NEW n \in Nat, n \in T PROVE n + 1 \in T
  <2> SUFFICES ASSUME n + 1 <= Len(seq)
               PROVE  \E F \in [0 .. n + 1 -> Seq(S)] : Selection(seq, hooks, n + 1, F)
    BY SMT
  <2>1. PICK F \in [0 .. n -> Seq(S)] : Selection(seq, hooks, n, F) BY <1>0, <1>2, SMT
  <2> DEFINE v == IF seq[n + 1] \notin hooks THEN Append(F[n], seq[n + 1]) ELSE F[n]
             G == [i \in 0 .. n + 1 |-> IF i = n + 1 THEN v ELSE F[i]]
  <2>2. v \in Seq(S)
    <3>1. n + 1 \in 1 .. Len(seq) /\ n \in 0 .. n BY <1>0, SMT
    <3>2. F[n] \in Seq(S) /\ seq[n + 1] \in S BY <3>1, Indices
    <3> QED BY <3>2, Appended
  <2>3. G \in [0 .. n + 1 -> Seq(S)] BY <2>2, SMT
  <2>4. ASSUME NEW i \in 0 .. n + 1
        PROVE  G[i] = IF i = 0 THEN <<>>
                      ELSE IF seq[i] \notin hooks THEN Append(G[i - 1], seq[i]) ELSE G[i - 1]
    <3>1. CASE i = n + 1
      <4>1. G[i] = v /\ G[i - 1] = F[n] /\ i # 0 BY <3>1, SMT
      <4> HIDE DEF G
      <4> QED BY <3>1, <4>1
    <3>2. CASE i # n + 1
      <4>1. G[i] = F[i] /\ i \in 0 .. n BY <3>2, SMT
      <4>2. i # 0 => G[i - 1] = F[i - 1] BY <3>2, SMT
      <4> HIDE DEF G
      <4> QED BY <2>1, <4>1, <4>2 DEF Selection
    <3> QED BY <3>1, <3>2
  <2>5. G = [i \in 0 .. n + 1 |-> G[i]] OBVIOUS
  <2> HIDE DEF G
  <2>6. Selection(seq, hooks, n + 1, G) BY <2>4, <2>5 DEF Selection
  <2> QED BY <2>3, <2>6
<1> HIDE DEF T
<1>3. Nat \subseteq T BY <1>1, <1>2, Induction
<1> USE DEF T
<1> QED BY <1>0, <1>3, SMT

LEMMA WithoutIsSelection ==
  ASSUME NEW S, NEW seq \in Seq(S), NEW hooks
  PROVE  \E F : Selection(seq, hooks, Len(seq), F) /\ without(seq, hooks) = F[Len(seq)]
<1> DEFINE G == CHOOSE F : Selection(seq, hooks, Len(seq), F)
<1>1. \E F : Selection(seq, hooks, Len(seq), F) BY SelectionExists
<1>2. Selection(seq, hooks, Len(seq), G) BY <1>1
<1>3. without(seq, hooks) = G[Len(seq)] BY DEF without, Selection
<1> QED BY <1>2, <1>3

\* A sequence consists of the elements of another one that are not among the
\* hooks, in their order: f gives their places.
Places(f, out, seq, n, hooks) ==
  /\ f \in [1 .. Len(out) -> 1 .. n]
  /\ \A i, j \in 1 .. Len(out) : i < j => f[i] < f[j]
  /\ \A i \in 1 .. Len(out) : out[i] = seq[f[i]] /\ seq[f[i]] \notin hooks
  /\ \A k \in 1 .. n : seq[k] \notin hooks => \E i \in 1 .. Len(out) : f[i] = k

LEMMA SelectionPlaces ==
  ASSUME NEW S, NEW seq \in Seq(S), NEW hooks, NEW F, Selection(seq, hooks, Len(seq), F)
  PROVE  F[Len(seq)] \in Seq(S) /\ \E f : Places(f, F[Len(seq)], seq, Len(seq), hooks)
<1> DEFINE T == {n \in Nat : n <= Len(seq) =>
                   F[n] \in Seq(S) /\ \E f : Places(f, F[n], seq, n, hooks)}
<1>0. Len(seq) \in Nat BY SMT
<1>1. 0 \in T
  <2>1. F[0] = <<>> BY <1>0, SMT DEF Selection
  <2> DEFINE f == [i \in 1 .. 0 |-> i]
  <2>2. Places(f, <<>>, seq, 0, hooks) BY SMT DEF Places
  <2>3. <<>> \in Seq(S) BY SMT
  <2> HIDE DEF f
  <2> QED BY <2>1, <2>2, <2>3
<1>2. ASSUME NEW n \in Nat, n \in T PROVE n + 1 \in T
  <2> SUFFICES ASSUME n + 1 <= Len(seq)
               PROVE  F[n + 1] \in Seq(S) /\ \E f : Places(f, F[n + 1], seq, n + 1, hooks)
    BY SMT
  <2>1. n + 1 \in 0 .. Len(seq) /\ n + 1 \in 1 .. Len(seq) /\ n + 1 # 0 /\ (n + 1) - 1 = n
        /\ n <= Len(seq)
    BY <1>0, SMT
  <2>2. F[n + 1] = IF seq[n + 1] \notin hooks THEN Append(F[n], seq[n + 1]) ELSE F[n]
    BY <2>1 DEF Selection
  <2>3. F[n] \in Seq(S) BY <1>2, <2>1
  <2>4. PICK f : Places(f, F[n], seq, n, hooks) BY <1>2, <2>1
  <2>5. PICK out, e : out = F[n] /\ e = seq[n + 1] OBVIOUS
  <2>6. out \in Seq(S) /\ e \in S /\ Len(out) \in Nat /\ Places(f, out, seq, n, hooks)
    BY <2>1, <2>3, <2>4, <2>5, Indices
  <2>7. CASE e \in hooks
    <3>1. Places(f, out, seq, n + 1, hooks)
      <4>1. f \in [1 .. Len(out) -> 1 .. n + 1] BY <2>6, SMT DEF Places
      <4>2. \A k \in 1 .. n + 1 : seq[k] \notin hooks => \E i \in 1 .. Len(out) : f[i] = k
        <5>1. \A k \in 1 .. n + 1 : seq[k] \notin hooks => k \in 1 .. n BY <2>5, <2>7, SMT
        <5> QED BY <2>6, <5>1 DEF Places
      <4> QED BY <2>6, <4>1, <4>2 DEF Places
    <3> QED BY <2>2, <2>3, <2>5, <2>7, <3>1
  <2>8. CASE e \notin hooks
    <3>1. PICK new : new = Append(out, e) OBVIOUS
    <3>2. /\ new \in Seq(S) /\ Len(new) = Len(out) + 1 /\ new[Len(out) + 1] = e
          /\ \A i \in 1 .. Len(out) : new[i] = out[i]
      BY <2>6, <3>1, Appended, SMT
    <3>3. PICK h : h = [i \in 1 .. Len(out) + 1 |-> IF i = Len(out) + 1 THEN n + 1 ELSE f[i]]
      OBVIOUS
    <3>4. /\ h[Len(out) + 1] = n + 1
          /\ \A i \in 1 .. Len(out) : h[i] = f[i] /\ f[i] \in 1 .. n
          /\ DOMAIN h = 1 .. Len(out) + 1
      BY <2>6, <3>3, SMT DEF Places
    <3>5. \A i \in 1 .. Len(out) + 1 : i = Len(out) + 1 \/ i \in 1 .. Len(out)
      BY <2>6, SMT
    <3>6. h \in [1 .. Len(out) + 1 -> 1 .. n + 1]
      <4>1. \A i \in 1 .. Len(out) + 1 : h[i] \in 1 .. n + 1 BY <3>4, <3>5, SMT
      <4>2. h = [i \in 1 .. Len(out) + 1 |-> h[i]] BY <3>3
      <4> QED BY <4>1, <4>2
    <3>7. ASSUME NEW i \in 1 .. Len(out) + 1, NEW j \in 1 .. Len(out) + 1, i < j
          PROVE  h[i] < h[j]
      <4>1. i \in 1 .. Len(out) BY <2>6, <3>7, SMT
      <4>2. CASE j = Len(out) + 1 BY <3>4, <4>1, <4>2, SMT
      <4>3. CASE j \in 1 .. Len(out)
        <5>1. f[i] < f[j] BY <2>6, <3>7, <4>1, <4>3 DEF Places
        <5> QED BY <3>4, <4>1, <4>3, <5>1
      <4> QED BY <3>5, <4>2, <4>3
    <3>8. ASSUME NEW i \in 1 .. Len(out) + 1
          PROVE  new[i] = seq[h[i]] /\ seq[h[i]] \notin hooks
      <4>1. CASE i = Len(out) + 1 BY <2>5, <2>8, <3>2, <3>4, <4>1
      <4>2. CASE i \in 1 .. Len(out) BY <2>6, <3>2, <3>4, <4>2 DEF Places
      <4> QED BY <3>5, <4>1, <4>2
    <3>9. ASSUME NEW k \in 1 .. n + 1, seq[k] \notin hooks
          PROVE  \E i \in 1 .. Len(out) + 1 : h[i] = k
      <4>1. CASE k = n + 1
        <5>1. Len(out) + 1 \in 1 .. Len(out) + 1 BY <2>6, SMT
        <5> QED BY <3>4, <4>1, <5>1
      <4>2. CASE k \in 1 .. n
        <5>1. PICK i \in 1 .. Len(out) : f[i] = k BY <2>6, <3>9, <4>2 DEF Places
        <5>2. i \in 1 .. Len(out) + 1 BY <2>6, SMT
        <5> QED BY <3>4, <5>1, <5>2
      <4> QED BY <4>1, <4>2, SMT
    <3>10. Places(h, new, seq, n + 1, hooks)
      BY <3>2, <3>6, <3>7, <3>8, <3>9 DEF Places
    <3>11. F[n + 1] = new BY <2>2, <2>5, <2>8, <3>1
    <3> QED BY <3>2, <3>10, <3>11
  <2> QED BY <2>7, <2>8
<1> HIDE DEF T
<1>3. Nat \subseteq T BY <1>1, <1>2, Induction
<1> USE DEF T
<1> QED BY <1>0, <1>3, SMT

\* The elements of a sequence.
LEMMA EntriesOfSeq ==
  ASSUME NEW S, NEW seq \in Seq(S)
  PROVE  /\ Range(seq) \subseteq S
         /\ \A x : x \in Range(seq) <=> \E i \in 1 .. Len(seq) : x = seq[i]
<1>1. DOMAIN seq = 1 .. Len(seq) BY Indices
<1>2. \A i \in 1 .. Len(seq) : seq[i] \in S BY Indices
<1>3. \A x : x \in Range(seq) <=> \E i \in 1 .. Len(seq) : x = seq[i]
  BY <1>1 DEF Range
<1> QED BY <1>2, <1>3

LEMMA InjectiveSeq ==
  ASSUME NEW S, NEW seq \in Seq(S)
  PROVE  IsInjective(seq) <=> (\A i, j \in 1 .. Len(seq) : seq[i] = seq[j] => i = j)
<1>1. DOMAIN seq = 1 .. Len(seq) BY Indices
<1> QED BY <1>1 DEF IsInjective

LEMMA BeforeInRange ==
  ASSUME NEW S, NEW seq \in Seq(S), NEW x, NEW y, Before(seq, x, y)
  PROVE  x \in Range(seq) /\ y \in Range(seq)
BY EntriesOfSeq DEF Before

LEMMA Without ==
  ASSUME NEW S, NEW seq \in Seq(S), NEW hooks, NEW out, out = without(seq, hooks)
  PROVE  /\ out \in Seq(S)
         /\ Range(out) = Range(seq) \ hooks
         /\ IsInjective(seq) => IsInjective(out)
         /\ \A x, y : Before(seq, x, y) /\ x \notin hooks /\ y \notin hooks => Before(out, x, y)
<1>1. PICK F : Selection(seq, hooks, Len(seq), F) /\ out = F[Len(seq)]
  BY WithoutIsSelection
<1>2. out \in Seq(S) BY <1>1, SelectionPlaces
<1>3. PICK f : Places(f, out, seq, Len(seq), hooks) BY <1>1, SelectionPlaces
<1>4. /\ f \in [1 .. Len(out) -> 1 .. Len(seq)]
      /\ \A i, j \in 1 .. Len(out) : i < j => f[i] < f[j]
      /\ \A i \in 1 .. Len(out) : out[i] = seq[f[i]] /\ seq[f[i]] \notin hooks
      /\ \A k \in 1 .. Len(seq) : seq[k] \notin hooks => \E i \in 1 .. Len(out) : f[i] = k
  BY <1>3 DEF Places
<1>5. Len(out) \in Nat /\ Len(seq) \in Nat BY <1>2, Indices
<1>6. /\ \A x : x \in Range(seq) <=> \E i \in 1 .. Len(seq) : x = seq[i]
      /\ IsInjective(seq) <=> (\A i, j \in 1 .. Len(seq) : seq[i] = seq[j] => i = j)
  BY EntriesOfSeq, InjectiveSeq
<1>7. /\ \A x : x \in Range(out) <=> \E i \in 1 .. Len(out) : x = out[i]
      /\ IsInjective(out) <=> (\A i, j \in 1 .. Len(out) : out[i] = out[j] => i = j)
  BY <1>2, EntriesOfSeq, InjectiveSeq, SMT
<1>8. \A i, j \in 1 .. Len(out) : f[i] = f[j] => i = j
  <2> SUFFICES ASSUME NEW i \in 1 .. Len(out), NEW j \in 1 .. Len(out), f[i] = f[j], i # j
               PROVE  FALSE
    OBVIOUS
  <2>1. i < j \/ j < i BY <1>5, SMT
  <2>2. f[i] < f[j] \/ f[j] < f[i] BY <1>4, <2>1
  <2>3. f[i] \in 1 .. Len(seq) BY <1>4
  <2> QED BY <2>2, <2>3, SMT
<1>9. Range(out) = Range(seq) \ hooks
  <2>1. ASSUME NEW x \in Range(out) PROVE x \in Range(seq) /\ x \notin hooks
    <3>1. PICK i \in 1 .. Len(out) : x = out[i] BY <1>7
    <3>2. f[i] \in 1 .. Len(seq) /\ x = seq[f[i]] /\ x \notin hooks BY <1>4, <3>1
    <3> QED BY <1>6, <3>2
  <2>2. ASSUME NEW x \in Range(seq), x \notin hooks PROVE x \in Range(out)
    <3>1. PICK k \in 1 .. Len(seq) : x = seq[k] BY <1>6
    <3>2. PICK i \in 1 .. Len(out) : f[i] = k BY <1>4, <2>2, <3>1
    <3>3. x = out[i] BY <1>4, <3>1, <3>2
    <3> QED BY <1>7, <3>3
  <2> QED BY <2>1, <2>2
<1>10. ASSUME IsInjective(seq) PROVE IsInjective(out)
  <2>1. ASSUME NEW i \in 1 .. Len(out), NEW j \in 1 .. Len(out), out[i] = out[j] PROVE i = j
    <3>1. f[i] \in 1 .. Len(seq) /\ f[j] \in 1 .. Len(seq) /\ seq[f[i]] = seq[f[j]]
      BY <1>4, <2>1
    <3>2. f[i] = f[j] BY <1>6, <1>10, <3>1
    <3> QED BY <1>8, <3>2
  <2> QED BY <1>7, <2>1
<1>11. ASSUME NEW x, NEW y, Before(seq, x, y), x \notin hooks, y \notin hooks
       PROVE  Before(out, x, y)
  <2>1. PICK i \in 1 .. Len(seq), j \in 1 .. Len(seq) : i < j /\ seq[i] = x /\ seq[j] = y
    BY <1>11 DEF Before
  <2>2. PICK a \in 1 .. Len(out) : f[a] = i BY <1>4, <1>11, <2>1
  <2>3. PICK b \in 1 .. Len(out) : f[b] = j BY <1>4, <1>11, <2>1
  <2>4. a < b
    <3>1. ~(b < a)
      <4>1. b < a => j < i BY <1>4, <2>2, <2>3
      <4> QED BY <1>5, <2>1, <4>1, SMT
    <3>2. a # b BY <1>5, <2>1, <2>2, <2>3, SMT
    <3> QED BY <1>5, <3>1, <3>2, SMT
  <2>5. out[a] = x /\ out[b] = y BY <1>4, <2>1, <2>2, <2>3
  <2> QED BY <2>4, <2>5 DEF Before
<1> QED BY <1>2, <1>9, <1>10, <1>11

LEMMA Attached ==
  ASSUME NEW S, NEW seq \in Seq(S), NEW h \in S
  PROVE  /\ Append(seq, h) \in Seq(S)
         /\ Range(Append(seq, h)) = Range(seq) \cup {h}
         /\ IsInjective(seq) /\ h \notin Range(seq) => IsInjective(Append(seq, h))
         /\ \A x, y : Before(seq, x, y) => Before(Append(seq, h), x, y)
         /\ \A x \in Range(seq) : Before(Append(seq, h), x, h)
<1>0. PICK out : out = Append(seq, h) OBVIOUS
<1>1. /\ out \in Seq(S) /\ Len(out) = Len(seq) + 1 /\ out[Len(seq) + 1] = h
      /\ \A i \in 1 .. Len(seq) : out[i] = seq[i]
      /\ Len(seq) \in Nat
  BY <1>0, Appended, Indices, SMT
<1>2. /\ \A x : x \in Range(seq) <=> \E i \in 1 .. Len(seq) : x = seq[i]
      /\ IsInjective(seq) <=> (\A i, j \in 1 .. Len(seq) : seq[i] = seq[j] => i = j)
  BY EntriesOfSeq, InjectiveSeq
<1>3. /\ \A x : x \in Range(out) <=> \E i \in 1 .. Len(out) : x = out[i]
      /\ IsInjective(out) <=> (\A i, j \in 1 .. Len(out) : out[i] = out[j] => i = j)
  <2>1. out \in Seq(S) BY <1>1
  <2>2. \A x : x \in Range(out) <=> \E i \in 1 .. Len(out) : x = out[i]
    BY <2>1, EntriesOfSeq
  <2>3. IsInjective(out) <=> (\A i, j \in 1 .. Len(out) : out[i] = out[j] => i = j)
    BY <2>1, InjectiveSeq
  <2> QED BY <2>2, <2>3
<1>4. /\ Len(seq) + 1 \in 1 .. Len(out) /\ \A i \in 1 .. Len(seq) : i \in 1 .. Len(out)
      /\ \A i \in 1 .. Len(out) : i \in 1 .. Len(seq) \/ i = Len(seq) + 1
      /\ \A i \in 1 .. Len(seq) : i < Len(seq) + 1
  BY <1>1, SMT
<1>5. Range(out) = Range(seq) \cup {h}
  <2>1. ASSUME NEW x \in Range(out) PROVE x \in Range(seq) \cup {h}
    BY <1>1, <1>2, <1>3, <1>4, SMT
  <2>2. ASSUME NEW x \in Range(seq) \cup {h} PROVE x \in Range(out)
    BY <1>1, <1>2, <1>3, <1>4, SMT
  <2> QED BY <2>1, <2>2
<1>6. ASSUME IsInjective(seq), h \notin Range(seq) PROVE IsInjective(out)
  <2>1. ASSUME NEW i \in 1 .. Len(out), NEW j \in 1 .. Len(out), out[i] = out[j] PROVE i = j
    <3>1. CASE i \in 1 .. Len(seq) /\ j \in 1 .. Len(seq) BY <1>1, <1>2, <1>6, <2>1, <3>1
    <3>2. CASE i = Len(seq) + 1 /\ j \in 1 .. Len(seq) BY <1>1, <1>2, <1>6, <2>1, <3>2
    <3>3. CASE j = Len(seq) + 1 /\ i \in 1 .. Len(seq) BY <1>1, <1>2, <1>6, <2>1, <3>3
    <3> QED BY <1>4, <3>1, <3>2, <3>3
  <2> QED BY <1>3, <2>1
<1>7. ASSUME NEW x, NEW y, Before(seq, x, y) PROVE Before(out, x, y)
  <2>1. PICK i \in 1 .. Len(seq), j \in 1 .. Len(seq) : i < j /\ seq[i] = x /\ seq[j] = y
    BY <1>7 DEF Before
  <2>2. i \in 1 .. Len(out) /\ j \in 1 .. Len(out) /\ out[i] = x /\ out[j] = y
    BY <1>1, <1>4, <2>1
  <2> QED BY <2>1, <2>2 DEF Before
<1>8. ASSUME NEW x \in Range(seq) PROVE Before(out, x, h)
  <2>1. PICK i \in 1 .. Len(seq) : x = seq[i] BY <1>2
  <2>2. i \in 1 .. Len(out) /\ i < Len(seq) + 1 /\ out[i] = x /\ out[Len(seq) + 1] = h
    BY <1>1, <1>4, <2>1
  <2> QED BY <1>4, <2>2 DEF Before
<1> QED BY <1>0, <1>1, <1>5, <1>6, <1>7, <1>8

LEMMA Dispatched ==
  ASSUME NEW S, NEW seq \in Seq(S), seq # <<>>, IsInjective(seq)
  PROVE  /\ Tail(seq) \in Seq(S) /\ Head(seq) \in Range(seq)
         /\ IsInjective(Tail(seq)) /\ Range(Tail(seq)) = Range(seq) \ {Head(seq)}
         /\ \A x, y : Before(seq, x, y) /\ x # Head(seq) => Before(Tail(seq), x, y)
         /\ \A x : ~Before(seq, x, Head(seq))
<1> DEFINE out == Tail(seq)
           h == Head(seq)
<1>1. Len(seq) \in Nat /\ Len(seq) # 0 BY Indices, Shifted
<1>2. /\ out \in Seq(S) /\ Len(out) = Len(seq) - 1
      /\ \A i \in 1 .. Len(out) : out[i] = seq[i + 1]
  BY Shifted
<1>3. h = seq[1] BY SMT
<1> HIDE DEF out, h
<1>4. /\ \A x : x \in Range(seq) <=> \E i \in 1 .. Len(seq) : x = seq[i]
      /\ \A i, j \in 1 .. Len(seq) : seq[i] = seq[j] => i = j
  BY EntriesOfSeq, InjectiveSeq
<1>5. /\ \A x : x \in Range(out) <=> \E i \in 1 .. Len(out) : x = out[i]
      /\ IsInjective(out) <=> (\A i, j \in 1 .. Len(out) : out[i] = out[j] => i = j)
  BY <1>2, EntriesOfSeq, InjectiveSeq
<1>6. /\ 1 \in 1 .. Len(seq) /\ \A i \in 1 .. Len(out) : i + 1 \in 1 .. Len(seq) /\ i + 1 # 1
      /\ \A i \in 1 .. Len(seq) : i # 1 => i - 1 \in 1 .. Len(out) /\ (i - 1) + 1 = i
  BY <1>1, <1>2, SMT
<1>7. h \in Range(seq) BY <1>3, <1>4, <1>6
<1>8. IsInjective(out)
  <2>1. ASSUME NEW i \in 1 .. Len(out), NEW j \in 1 .. Len(out), out[i] = out[j] PROVE i = j
    <3>1. i + 1 = j + 1 BY <1>2, <1>4, <1>6, <2>1
    <3> QED BY <3>1, SMT
  <2> QED BY <1>5, <2>1
<1>9. Range(out) = Range(seq) \ {h}
  <2>1. ASSUME NEW x \in Range(out) PROVE x \in Range(seq) /\ x # h
    <3>1. PICK i \in 1 .. Len(out) : x = out[i] BY <1>5
    <3>2. i + 1 \in 1 .. Len(seq) /\ i + 1 # 1 /\ x = seq[i + 1] BY <1>2, <1>6, <3>1
    <3> QED BY <1>3, <1>4, <1>6, <3>2
  <2>2. ASSUME NEW x \in Range(seq), x # h PROVE x \in Range(out)
    <3>1. PICK i \in 1 .. Len(seq) : x = seq[i] BY <1>4
    <3>2. i # 1 BY <1>3, <2>2, <3>1
    <3>3. i - 1 \in 1 .. Len(out) /\ out[i - 1] = x BY <1>2, <1>6, <3>1, <3>2
    <3> QED BY <1>5, <3>3
  <2> QED BY <2>1, <2>2
<1>10. ASSUME NEW x, NEW y, Before(seq, x, y), x # h PROVE Before(out, x, y)
  <2>1. PICK i \in 1 .. Len(seq), j \in 1 .. Len(seq) : i < j /\ seq[i] = x /\ seq[j] = y
    BY <1>10 DEF Before
  <2>2. i # 1 /\ j # 1 BY <1>1, <1>3, <1>10, <2>1, SMT
  <2>3. i - 1 \in 1 .. Len(out) /\ j - 1 \in 1 .. Len(out)
        /\ out[i - 1] = x /\ out[j - 1] = y
    BY <1>2, <1>6, <2>1, <2>2
  <2>4. i - 1 < j - 1 BY <2>1, SMT
  <2> QED BY <2>3, <2>4 DEF Before
<1>11. ASSUME NEW x, Before(seq, x, h) PROVE FALSE
  <2>1. PICK i \in 1 .. Len(seq), j \in 1 .. Len(seq) : i < j /\ seq[j] = h
    BY <1>11 DEF Before
  <2>2. j = 1 BY <1>3, <1>4, <1>6, <2>1
  <2> QED BY <1>1, <2>1, <2>2, SMT
<1> QED BY <1>2, <1>7, <1>8, <1>9, <1>10, <1>11 DEF out, h

-----------------------------------------------------------------------------
(* The hooks.                                                              *)

\* What is in both sequences is in the same order in both.
KeepsOrder(s, t) ==
  \A x, y \in Range(t) : Before(s, x, y) => Before(t, x, y)

\* The hooks are different, and a watch belongs to a client.
LEMMA Hooks ==
  /\ \A c \in Client, e \in Event : <<c, e>> \in Watch
  /\ \A w \in Watch : /\ w[1] \in Client /\ w[2] \in Event /\ w = <<w[1], w[2]>>
                      /\ w \in Hook /\ w # idle /\ w # server /\ w # timer
                      /\ \A k \in {"signal", "timeout"} : \A r : w # <<k, r>>
  /\ idle \in Hook /\ server \in Hook /\ timer \in Hook
  /\ \A k \in {"signal", "timeout"}, r \in 1 .. MaxRuns : <<k, r>> \in Hook
  /\ \A k \in {"signal", "timeout"} : \A r : <<k, r>> # idle
<1>1. \A c \in Client : c \notin {"server", "idle", "timer", "signal", "timeout"}
  BY MainLoopAssumption
<1>2. \A c \in Client, e \in Event : <<c, e>> \in Watch BY DEF Watch
<1>3. \A w \in Watch : w[1] \in Client /\ w[2] \in Event /\ w = <<w[1], w[2]>>
  BY SMT DEF Watch
<1>4. \A w \in Watch : w # idle /\ w # server /\ w # timer
  BY <1>1, <1>3 DEF idle, server, timer
<1>5. \A w \in Watch : \A k \in {"signal", "timeout"} : \A r : w # <<k, r>>
  BY <1>1, <1>3
<1>6. \A w \in Watch : w \in Hook BY DEF Hook
<1>7. idle \in Hook /\ server \in Hook /\ timer \in Hook BY DEF Hook
<1>8. \A k \in {"signal", "timeout"}, r \in 1 .. MaxRuns : <<k, r>> \in Hook
  BY DEF Hook, OfRun
<1>9. \A k \in {"signal", "timeout"} : \A r : <<k, r>> # idle BY DEF idle
<1> QED BY <1>2, <1>3, <1>4, <1>5, <1>6, <1>7, <1>8, <1>9

LEMMA ProcessFields ==
  ASSUME NEW p \in Process
  PROVE  /\ p.attached \in Seq(Hook) /\ p.ready \in Seq(Hook)
         /\ p.m_source \in BOOLEAN
         /\ p.inputSourceID \in [Watch -> BOOLEAN] /\ p.m_isInputWatched \in [Watch -> BOOLEAN]
         /\ p.client \in [Client -> {"none", "connecting", "connected", "disconnected", "deleted"}]
         /\ p.pending \in SUBSET {"SIGTERM", "SIGPIPE"}
BY DEF Process

LEMMA SameOrder == \A s : KeepsOrder(s, s)
BY DEF KeepsOrder

LEMMA KeepsOrderTwice ==
  ASSUME NEW s, NEW t, NEW u, KeepsOrder(s, t), KeepsOrder(t, u), Range(u) \subseteq Range(t)
  PROVE  KeepsOrder(s, u)
BY DEF KeepsOrder

LEMMA Destroyed ==
  ASSUME NEW p \in Process, NEW hooks, NEW q, q = destroy(p, hooks)
  PROVE  /\ q \in Process
         /\ q.m_source = p.m_source /\ q.inputSourceID = p.inputSourceID
         /\ q.m_isInputWatched = p.m_isInputWatched
         /\ q.client = p.client /\ q.pending = p.pending
         /\ Range(q.attached) = Range(p.attached) \ hooks
         /\ Range(q.ready) = Range(p.ready) \ hooks
         /\ IsInjective(p.attached) => IsInjective(q.attached)
         /\ IsInjective(p.ready) => IsInjective(q.ready)
         /\ KeepsOrder(p.attached, q.attached) /\ KeepsOrder(p.ready, q.ready)
<1>1. p.attached \in Seq(Hook) /\ p.ready \in Seq(Hook) BY ProcessFields
<1>2. PICK a, b : a = without(p.attached, hooks) /\ b = without(p.ready, hooks) OBVIOUS
<1>3. /\ a \in Seq(Hook) /\ Range(a) = Range(p.attached) \ hooks
      /\ IsInjective(p.attached) => IsInjective(a)
      /\ \A x, y : Before(p.attached, x, y) /\ x \notin hooks /\ y \notin hooks => Before(a, x, y)
  BY <1>1, <1>2, Without, SMT
<1>4. /\ b \in Seq(Hook) /\ Range(b) = Range(p.ready) \ hooks
      /\ IsInjective(p.ready) => IsInjective(b)
      /\ \A x, y : Before(p.ready, x, y) /\ x \notin hooks /\ y \notin hooks => Before(b, x, y)
  BY <1>1, <1>2, Without, SMT
<1>5. q = [p EXCEPT !.attached = a, !.ready = b] BY <1>2 DEF destroy
<1>6. /\ q \in Process /\ q.attached = a /\ q.ready = b
      /\ q.m_source = p.m_source /\ q.inputSourceID = p.inputSourceID
      /\ q.m_isInputWatched = p.m_isInputWatched
      /\ q.client = p.client /\ q.pending = p.pending
  BY <1>3, <1>4, <1>5 DEF Process
<1>7. KeepsOrder(p.attached, a) /\ KeepsOrder(p.ready, b)
  BY <1>3, <1>4 DEF KeepsOrder
<1> QED BY <1>3, <1>4, <1>6, <1>7

\* q is p with one more source.
WithSource(p, h, q) ==
  /\ q \in Process
  /\ q.m_source = p.m_source /\ q.inputSourceID = p.inputSourceID
  /\ q.m_isInputWatched = p.m_isInputWatched
  /\ q.client = p.client /\ q.pending = p.pending /\ q.ready = p.ready
  /\ Range(q.attached) = Range(p.attached) \cup {h}
  /\ IsInjective(p.attached) /\ h \notin Range(p.attached) => IsInjective(q.attached)
  /\ \A x, y : Before(p.attached, x, y) => Before(q.attached, x, y)
  /\ \A x \in Range(p.attached) : Before(q.attached, x, h)

LEMMA AttachedTo ==
  ASSUME NEW p \in Process, NEW h \in Hook
  PROVE  WithSource(p, h, attach(p, h))
<1>0. PICK q : q = attach(p, h) OBVIOUS
<1>1. p.attached \in Seq(Hook) BY ProcessFields
<1>2. PICK a : a = Append(p.attached, h) OBVIOUS
<1>3. /\ a \in Seq(Hook) /\ Range(a) = Range(p.attached) \cup {h}
      /\ IsInjective(p.attached) /\ h \notin Range(p.attached) => IsInjective(a)
      /\ \A x, y : Before(p.attached, x, y) => Before(a, x, y)
      /\ \A x \in Range(p.attached) : Before(a, x, h)
  BY <1>1, <1>2, Attached, SMT
<1>4. q = [p EXCEPT !.attached = a] BY <1>0, <1>2 DEF attach
<1>5. /\ q \in Process /\ q.attached = a /\ q.ready = p.ready
      /\ q.m_source = p.m_source /\ q.inputSourceID = p.inputSourceID
      /\ q.m_isInputWatched = p.m_isInputWatched
      /\ q.client = p.client /\ q.pending = p.pending
  BY <1>3, <1>4 DEF Process
<1>6. WithSource(p, h, q) BY <1>3, <1>5 DEF WithSource
<1> QED BY <1>0, <1>6

LEMMA Disabled ==
  ASSUME NEW p \in Process, NEW w \in Watch, Sources(p)
  PROVE  /\ disable(p, w) \in Process /\ Sources(disable(p, w))
         /\ disable(p, w).m_isInputWatched = p.m_isInputWatched
         /\ disable(p, w).client = p.client /\ disable(p, w).pending = p.pending
         /\ Range(disable(p, w).attached) = Range(p.attached) \ {w}
         /\ Range(disable(p, w).ready) = Range(p.ready) \ {w}
         /\ KeepsOrder(p.attached, disable(p, w).attached)
         /\ KeepsOrder(p.ready, disable(p, w).ready)
<1> DEFINE q == disable(p, w)
<1> HIDE DEF q
<1>0. p.inputSourceID \in [Watch -> BOOLEAN] BY ProcessFields
<1>1. /\ IsInjective(p.attached) /\ IsInjective(p.ready)
      /\ Range(p.ready) \subseteq Range(p.attached)
      /\ p.m_source = (idle \in Range(p.attached))
      /\ \A v \in Watch : /\ p.inputSourceID[v] = (v \in Range(p.attached))
                          /\ p.inputSourceID[v] => p.m_isInputWatched[v]
  BY DEF Sources
<1> DEFINE Goal == /\ q \in Process /\ Sources(q)
                   /\ q.m_isInputWatched = p.m_isInputWatched
                   /\ q.client = p.client /\ q.pending = p.pending
                   /\ Range(q.attached) = Range(p.attached) \ {w}
                   /\ Range(q.ready) = Range(p.ready) \ {w}
                   /\ KeepsOrder(p.attached, q.attached) /\ KeepsOrder(p.ready, q.ready)
<1>2. ASSUME ~p.inputSourceID[w] PROVE Goal
  <2>1. q = p BY <1>2 DEF disable, q
  <2>2. w \notin Range(p.attached) /\ w \notin Range(p.ready) BY <1>1, <1>2
  <2>3. Range(p.attached) = Range(p.attached) \ {w} /\ Range(p.ready) = Range(p.ready) \ {w}
    BY <2>2
  <2> QED BY <2>1, <2>3, SameOrder
<1>3. ASSUME p.inputSourceID[w] PROVE Goal
  <2>1. PICK d : d = destroy(p, {w}) OBVIOUS
  <2>2. /\ d \in Process
        /\ d.m_source = p.m_source /\ d.inputSourceID = p.inputSourceID
        /\ d.m_isInputWatched = p.m_isInputWatched
        /\ d.client = p.client /\ d.pending = p.pending
        /\ Range(d.attached) = Range(p.attached) \ {w}
        /\ Range(d.ready) = Range(p.ready) \ {w}
        /\ IsInjective(d.attached) /\ IsInjective(d.ready)
        /\ KeepsOrder(p.attached, d.attached) /\ KeepsOrder(p.ready, d.ready)
    <3>1. /\ d \in Process
          /\ d.m_source = p.m_source /\ d.inputSourceID = p.inputSourceID
          /\ d.m_isInputWatched = p.m_isInputWatched
          /\ d.client = p.client /\ d.pending = p.pending
          /\ Range(d.attached) = Range(p.attached) \ {w}
          /\ Range(d.ready) = Range(p.ready) \ {w}
          /\ IsInjective(p.attached) => IsInjective(d.attached)
          /\ IsInjective(p.ready) => IsInjective(d.ready)
          /\ KeepsOrder(p.attached, d.attached) /\ KeepsOrder(p.ready, d.ready)
      <4>1. /\ d \in Process
            /\ d.m_source = p.m_source /\ d.inputSourceID = p.inputSourceID
            /\ d.m_isInputWatched = p.m_isInputWatched
            /\ d.client = p.client /\ d.pending = p.pending
        BY <2>1, Destroyed, SMT
      <4>2. Range(d.attached) = Range(p.attached) \ {w} BY <2>1, Destroyed, SMT
      <4>3. Range(d.ready) = Range(p.ready) \ {w} BY <2>1, Destroyed, SMT
      <4>4. /\ IsInjective(p.attached) => IsInjective(d.attached)
            /\ IsInjective(p.ready) => IsInjective(d.ready)
            /\ KeepsOrder(p.attached, d.attached) /\ KeepsOrder(p.ready, d.ready)
        BY <2>1, Destroyed
      <4> QED BY <4>1, <4>2, <4>3, <4>4
    <3> QED BY <1>1, <3>1
  <2>3. q = [d EXCEPT !.inputSourceID[w] = FALSE] BY <1>3, <2>1 DEF disable, q
  <2>4. /\ q \in Process /\ q.attached = d.attached /\ q.ready = d.ready
        /\ q.m_source = d.m_source /\ q.m_isInputWatched = d.m_isInputWatched
        /\ q.client = d.client /\ q.pending = d.pending
        /\ q.inputSourceID = [d.inputSourceID EXCEPT ![w] = FALSE]
    <3>1. d.inputSourceID \in [Watch -> BOOLEAN] BY <1>0, <2>2
    <3>2. PICK f : f = [d.inputSourceID EXCEPT ![w] = FALSE] OBVIOUS
    <3>3. f \in [Watch -> BOOLEAN] BY <3>1, <3>2
    <3>4. q = [d EXCEPT !.inputSourceID = f] BY <2>3, <3>2
    <3> QED BY <2>2, <3>2, <3>3, <3>4 DEF Process
  <2>5. \A v \in Watch : q.inputSourceID[v] = (v # w /\ p.inputSourceID[v])
    <3> SUFFICES ASSUME NEW v \in Watch
                 PROVE  q.inputSourceID[v] = (v # w /\ p.inputSourceID[v])
      OBVIOUS
    <3>1. q.inputSourceID[v] = IF v = w THEN FALSE ELSE p.inputSourceID[v]
      BY <1>0, <2>2, <2>4
    <3>2. p.inputSourceID[v] \in BOOLEAN BY <1>0
    <3>3. CASE v = w BY <3>1, <3>3
    <3>4. CASE v # w BY <3>1, <3>2, <3>4
    <3> QED BY <3>3, <3>4
  <2>6. idle # w BY Hooks
  <2>7. Sources(q)
    <3>1. ASSUME NEW v \in Watch
          PROVE  /\ q.inputSourceID[v] = (v \in Range(q.attached))
                 /\ q.inputSourceID[v] => q.m_isInputWatched[v]
      <4>1. /\ p.inputSourceID[v] = (v \in Range(p.attached))
            /\ p.inputSourceID[v] => p.m_isInputWatched[v]
        BY <1>1
      <4>2. (v \in Range(q.attached)) = (v # w /\ v \in Range(p.attached)) BY <2>2, <2>4, SMT
      <4>3. q.inputSourceID[v] = (v # w /\ p.inputSourceID[v]) BY <2>5
      <4>4. q.m_isInputWatched[v] = p.m_isInputWatched[v] BY <2>2, <2>4
      <4> QED BY <4>1, <4>2, <4>3, <4>4
    <3>2. q.m_source = (idle \in Range(q.attached)) BY <1>1, <2>2, <2>4, <2>6, SMT
    <3>3. Range(q.ready) \subseteq Range(q.attached) BY <1>1, <2>2, <2>4
    <3>4. IsInjective(q.attached) /\ IsInjective(q.ready) BY <2>2, <2>4
    <3> QED BY <3>1, <3>2, <3>3, <3>4 DEF Sources
  <2> QED BY <2>2, <2>4, <2>7
<1>4. Goal BY <1>2, <1>3
<1> QED BY <1>4 DEF q

\* q is p with the watch w enabled.
WithWatch(p, w, q) ==
  /\ q \in Process /\ Sources(q)
  /\ \A v \in Watch : q.m_isInputWatched[v] = (v = w \/ p.m_isInputWatched[v])
  /\ q.client = p.client /\ q.pending = p.pending /\ q.ready = p.ready
  /\ Range(q.attached) = IF p.m_isInputWatched[w] THEN Range(p.attached)
                         ELSE Range(p.attached) \cup {w}
  /\ \A x, y : Before(p.attached, x, y) => Before(q.attached, x, y)
  /\ ~p.m_isInputWatched[w] => \A x \in Range(p.attached) : Before(q.attached, x, w)

LEMMA Enabled ==
  ASSUME NEW p \in Process, NEW w \in Watch, Sources(p)
  PROVE  WithWatch(p, w, enable(p, w))
<1> DEFINE q == enable(p, w)
<1> HIDE DEF q
<1>0. p.inputSourceID \in [Watch -> BOOLEAN] /\ p.m_isInputWatched \in [Watch -> BOOLEAN]
  BY ProcessFields
<1>1. /\ IsInjective(p.attached) /\ IsInjective(p.ready)
      /\ Range(p.ready) \subseteq Range(p.attached)
      /\ p.m_source = (idle \in Range(p.attached))
      /\ \A v \in Watch : /\ p.inputSourceID[v] = (v \in Range(p.attached))
                          /\ p.inputSourceID[v] => p.m_isInputWatched[v]
  BY DEF Sources
<1>2. ASSUME p.m_isInputWatched[w] PROVE WithWatch(p, w, q)
  <2>1. q = p BY <1>2 DEF enable, q
  <2>2. \A v \in Watch : p.m_isInputWatched[v] = (v = w \/ p.m_isInputWatched[v])
    BY <1>0, <1>2
  <2> QED BY <1>2, <2>1, <2>2 DEF WithWatch
<1>3. ASSUME ~p.m_isInputWatched[w] PROVE WithWatch(p, w, q)
  <2>0. w \in Hook /\ w # idle /\ w \notin Range(p.attached) BY <1>1, <1>3, Hooks
  <2>1. PICK d : d = attach(p, w) OBVIOUS
  <2>2. /\ d \in Process
        /\ d.m_source = p.m_source /\ d.inputSourceID = p.inputSourceID
        /\ d.m_isInputWatched = p.m_isInputWatched
        /\ d.client = p.client /\ d.pending = p.pending /\ d.ready = p.ready
        /\ Range(d.attached) = Range(p.attached) \cup {w}
        /\ IsInjective(d.attached)
        /\ \A x, y : Before(p.attached, x, y) => Before(d.attached, x, y)
        /\ \A x \in Range(p.attached) : Before(d.attached, x, w)
    <3>1. WithSource(p, w, d) BY <2>0, <2>1, AttachedTo
    <3> QED BY <1>1, <2>0, <3>1 DEF WithSource
  <2>3. q = [d EXCEPT !.inputSourceID[w] = TRUE, !.m_isInputWatched[w] = TRUE]
    BY <1>3, <2>1 DEF enable, q
  <2>4. /\ q \in Process /\ q.attached = d.attached /\ q.ready = d.ready
        /\ q.m_source = d.m_source
        /\ q.client = d.client /\ q.pending = d.pending
        /\ q.inputSourceID = [d.inputSourceID EXCEPT ![w] = TRUE]
        /\ q.m_isInputWatched = [d.m_isInputWatched EXCEPT ![w] = TRUE]
    <3>1. d.inputSourceID \in [Watch -> BOOLEAN] /\ d.m_isInputWatched \in [Watch -> BOOLEAN]
      BY <1>0, <2>2
    <3>2. PICK f, u : f = [d.inputSourceID EXCEPT ![w] = TRUE]
                      /\ u = [d.m_isInputWatched EXCEPT ![w] = TRUE]
      OBVIOUS
    <3>3. f \in [Watch -> BOOLEAN] /\ u \in [Watch -> BOOLEAN] BY <3>1, <3>2
    <3>4. q = [d EXCEPT !.inputSourceID = f, !.m_isInputWatched = u] BY <2>3, <3>2
    <3> QED BY <2>2, <3>2, <3>3, <3>4 DEF Process
  <2>5. \A v \in Watch : /\ q.inputSourceID[v] = (v = w \/ p.inputSourceID[v])
                         /\ q.m_isInputWatched[v] = (v = w \/ p.m_isInputWatched[v])
    <3> SUFFICES ASSUME NEW v \in Watch
                 PROVE  /\ q.inputSourceID[v] = (v = w \/ p.inputSourceID[v])
                        /\ q.m_isInputWatched[v] = (v = w \/ p.m_isInputWatched[v])
      OBVIOUS
    <3>1. /\ q.inputSourceID[v] = IF v = w THEN TRUE ELSE p.inputSourceID[v]
          /\ q.m_isInputWatched[v] = IF v = w THEN TRUE ELSE p.m_isInputWatched[v]
      BY <1>0, <2>2, <2>4, ZenonT(60)
    <3>2. p.inputSourceID[v] \in BOOLEAN /\ p.m_isInputWatched[v] \in BOOLEAN BY <1>0
    <3>3. CASE v = w BY <3>1, <3>3
    <3>4. CASE v # w BY <3>1, <3>2, <3>4
    <3> QED BY <3>3, <3>4
  <2>6. Sources(q)
    <3>1. ASSUME NEW v \in Watch
          PROVE  /\ q.inputSourceID[v] = (v \in Range(q.attached))
                 /\ q.inputSourceID[v] => q.m_isInputWatched[v]
      <4>1. /\ p.inputSourceID[v] = (v \in Range(p.attached))
            /\ p.inputSourceID[v] => p.m_isInputWatched[v]
        BY <1>1
      <4>2. (v \in Range(q.attached)) = (v = w \/ v \in Range(p.attached)) BY <2>2, <2>4, SMT
      <4>3. q.inputSourceID[v] = (v = w \/ p.inputSourceID[v])
            /\ q.m_isInputWatched[v] = (v = w \/ p.m_isInputWatched[v])
        BY <2>5
      <4> QED BY <4>1, <4>2, <4>3
    <3>2. q.m_source = (idle \in Range(q.attached)) BY <1>1, <2>0, <2>2, <2>4, SMT
    <3>3. Range(q.ready) \subseteq Range(q.attached) BY <1>1, <2>2, <2>4
    <3>4. IsInjective(q.attached) /\ IsInjective(q.ready) BY <1>1, <2>2, <2>4
    <3> QED BY <3>1, <3>2, <3>3, <3>4 DEF Sources
  <2> QED BY <1>3, <2>2, <2>4, <2>5, <2>6 DEF WithWatch
<1> QED BY <1>2, <1>3 DEF q

LEMMA Activated ==
  ASSUME NEW p \in Process, Sources(p), NEW q, q = activate(p)
  PROVE  /\ q \in Process /\ Sources(q)
         /\ q.m_isInputWatched = p.m_isInputWatched
         /\ q.client = p.client /\ q.pending = p.pending /\ q.ready = p.ready
         /\ Range(q.attached) = Range(p.attached) \cup {idle}
         /\ \A x, y : Before(p.attached, x, y) => Before(q.attached, x, y)
<1>1. /\ IsInjective(p.attached) /\ IsInjective(p.ready)
      /\ Range(p.ready) \subseteq Range(p.attached)
      /\ p.m_source = (idle \in Range(p.attached))
      /\ \A v \in Watch : /\ p.inputSourceID[v] = (v \in Range(p.attached))
                          /\ p.inputSourceID[v] => p.m_isInputWatched[v]
  BY DEF Sources
<1>2. CASE p.m_source
  <2>1. q = p BY <1>2 DEF activate
  <2>2. Range(p.attached) = Range(p.attached) \cup {idle} BY <1>1, <1>2
  <2> QED BY <2>1, <2>2
<1>3. CASE ~p.m_source
  <2>0. idle \in Hook /\ idle \notin Range(p.attached) BY <1>1, <1>3, Hooks
  <2>1. PICK d : d = attach(p, idle) OBVIOUS
  <2>2. /\ d \in Process
        /\ d.m_source = p.m_source /\ d.inputSourceID = p.inputSourceID
        /\ d.m_isInputWatched = p.m_isInputWatched
        /\ d.client = p.client /\ d.pending = p.pending /\ d.ready = p.ready
        /\ Range(d.attached) = Range(p.attached) \cup {idle}
        /\ IsInjective(d.attached)
        /\ \A x, y : Before(p.attached, x, y) => Before(d.attached, x, y)
    <3>1. WithSource(p, idle, d) BY <2>0, <2>1, AttachedTo
    <3> QED BY <1>1, <2>0, <3>1 DEF WithSource
  <2>3. q = [d EXCEPT !.m_source = TRUE] BY <1>3, <2>1 DEF activate
  <2>4. /\ q \in Process /\ q.attached = d.attached /\ q.ready = d.ready
        /\ q.m_source = TRUE /\ q.client = d.client /\ q.pending = d.pending
        /\ q.inputSourceID = d.inputSourceID /\ q.m_isInputWatched = d.m_isInputWatched
    BY <2>2, <2>3 DEF Process
  <2>5. \A v \in Watch : v \in Range(q.attached) <=> v \in Range(p.attached)
    BY <2>2, <2>4, Hooks
  <2>6. Sources(q)
    <3>1. ASSUME NEW v \in Watch
          PROVE  /\ q.inputSourceID[v] = (v \in Range(q.attached))
                 /\ q.inputSourceID[v] => q.m_isInputWatched[v]
      BY <1>1, <2>2, <2>4, <2>5, SMT
    <3>2. q.m_source = (idle \in Range(q.attached)) BY <2>2, <2>4
    <3>3. Range(q.ready) \subseteq Range(q.attached) BY <1>1, <2>2, <2>4
    <3>4. IsInjective(q.attached) /\ IsInjective(q.ready) BY <1>1, <2>2, <2>4
    <3> QED BY <3>1, <3>2, <3>3, <3>4 DEF Sources
  <2> QED BY <2>2, <2>4, <2>6
<1> QED BY <1>2, <1>3

WatchesOf(c) == {<<c, "in">>, <<c, "out">>, <<c, "hup">>}

LEMMA Disconnected ==
  ASSUME NEW p \in Process, NEW c \in Client, Sources(p), NEW q, q = onDisconnected(p, c)
  PROVE  /\ q \in Process /\ Sources(q)
         /\ q.m_isInputWatched = p.m_isInputWatched
         /\ q.client = [p.client EXCEPT ![c] = "disconnected"] /\ q.pending = p.pending
         /\ Range(q.attached) = (Range(p.attached) \cup {idle}) \ WatchesOf(c)
         /\ Range(q.ready) = Range(p.ready) \ WatchesOf(c)
         /\ KeepsOrder(p.attached, q.attached) /\ KeepsOrder(p.ready, q.ready)
<1>1. <<c, "in">> \in Watch /\ <<c, "out">> \in Watch /\ <<c, "hup">> \in Watch
  BY Hooks DEF Event
<1>2. PICK p1 : p1 = [p EXCEPT !.client[c] = "disconnected"] OBVIOUS
<1>3. /\ p1 \in Process
      /\ p1.attached = p.attached /\ p1.ready = p.ready /\ p1.m_source = p.m_source
      /\ p1.inputSourceID = p.inputSourceID /\ p1.m_isInputWatched = p.m_isInputWatched
      /\ p1.client = [p.client EXCEPT ![c] = "disconnected"] /\ p1.pending = p.pending
  <2>1. PICK f : f = [p.client EXCEPT ![c] = "disconnected"] OBVIOUS
  <2>2. f \in [Client -> {"none", "connecting", "connected", "disconnected", "deleted"}]
    BY <2>1, ProcessFields
  <2>3. p1 = [p EXCEPT !.client = f] BY <1>2, <2>1
  <2> QED BY <2>1, <2>2, <2>3 DEF Process
<1>4. Sources(p1) BY <1>3 DEF Sources
<1>5. PICK p2 : p2 = activate(p1) OBVIOUS
<1>6. /\ p2 \in Process /\ Sources(p2)
      /\ p2.m_isInputWatched = p1.m_isInputWatched
      /\ p2.client = p1.client /\ p2.pending = p1.pending /\ p2.ready = p1.ready
      /\ Range(p2.attached) = Range(p1.attached) \cup {idle}
      /\ \A x, y : Before(p1.attached, x, y) => Before(p2.attached, x, y)
  BY <1>3, <1>4, <1>5, Activated
<1>7. PICK p3 : p3 = disable(p2, <<c, "in">>) OBVIOUS
<1>8. /\ p3 \in Process /\ Sources(p3)
      /\ p3.m_isInputWatched = p2.m_isInputWatched
      /\ p3.client = p2.client /\ p3.pending = p2.pending
      /\ Range(p3.attached) = Range(p2.attached) \ {<<c, "in">>}
      /\ Range(p3.ready) = Range(p2.ready) \ {<<c, "in">>}
      /\ KeepsOrder(p2.attached, p3.attached) /\ KeepsOrder(p2.ready, p3.ready)
  <2>1. PICK w : w = <<c, "in">> OBVIOUS
  <2>2. w \in Watch /\ p3 = disable(p2, w) /\ p2 \in Process /\ Sources(p2)
    BY <1>1, <1>6, <1>7, <2>1
  <2> QED BY <2>1, <2>2, Disabled
<1>9. PICK p4 : p4 = disable(p3, <<c, "out">>) OBVIOUS
<1>10. /\ p4 \in Process /\ Sources(p4)
       /\ p4.m_isInputWatched = p3.m_isInputWatched
       /\ p4.client = p3.client /\ p4.pending = p3.pending
       /\ Range(p4.attached) = Range(p3.attached) \ {<<c, "out">>}
       /\ Range(p4.ready) = Range(p3.ready) \ {<<c, "out">>}
       /\ KeepsOrder(p3.attached, p4.attached) /\ KeepsOrder(p3.ready, p4.ready)
  <2>1. PICK w : w = <<c, "out">> OBVIOUS
  <2>2. w \in Watch /\ p4 = disable(p3, w) /\ p3 \in Process /\ Sources(p3)
    BY <1>1, <1>8, <1>9, <2>1
  <2> QED BY <2>1, <2>2, Disabled
<1>11. PICK p5 : p5 = disable(p4, <<c, "hup">>) OBVIOUS
<1>12. /\ q = p5 /\ q \in Process /\ Sources(q)
       /\ q.m_isInputWatched = p4.m_isInputWatched
       /\ q.client = p4.client /\ q.pending = p4.pending
       /\ Range(q.attached) = Range(p4.attached) \ {<<c, "hup">>}
       /\ Range(q.ready) = Range(p4.ready) \ {<<c, "hup">>}
       /\ KeepsOrder(p4.attached, q.attached) /\ KeepsOrder(p4.ready, q.ready)
  <2>1. PICK w : w = <<c, "hup">> OBVIOUS
  <2>2. w \in Watch /\ p5 = disable(p4, w) /\ p4 \in Process /\ Sources(p4)
    BY <1>1, <1>10, <1>11, <2>1
  <2>3. /\ p5 \in Process /\ Sources(p5)
        /\ p5.m_isInputWatched = p4.m_isInputWatched
        /\ p5.client = p4.client /\ p5.pending = p4.pending
        /\ Range(p5.attached) = Range(p4.attached) \ {w}
        /\ Range(p5.ready) = Range(p4.ready) \ {w}
        /\ KeepsOrder(p4.attached, p5.attached) /\ KeepsOrder(p4.ready, p5.ready)
    BY ONLY <2>2, Disabled
  <2>4. q = p5 BY <1>2, <1>5, <1>7, <1>9, <1>11 DEF onDisconnected
  <2> QED BY <2>1, <2>3, <2>4
<1>13. Range(q.attached) = (Range(p.attached) \cup {idle}) \ WatchesOf(c)
  BY <1>3, <1>6, <1>8, <1>10, <1>12 DEF WatchesOf
<1>14. Range(q.ready) = Range(p.ready) \ WatchesOf(c)
  BY <1>3, <1>6, <1>8, <1>10, <1>12 DEF WatchesOf
<1>15. KeepsOrder(p.attached, q.attached)
  <2>1. KeepsOrder(p.attached, p2.attached) BY <1>3, <1>6 DEF KeepsOrder
  <2>2. KeepsOrder(p.attached, p3.attached) BY <1>8, <2>1, KeepsOrderTwice
  <2>3. KeepsOrder(p.attached, p4.attached) BY <1>10, <2>2, KeepsOrderTwice
  <2> QED BY <1>12, <2>3, KeepsOrderTwice
<1>16. KeepsOrder(p.ready, q.ready)
  <2>1. KeepsOrder(p.ready, p3.ready) BY <1>3, <1>6, <1>8
  <2>2. KeepsOrder(p.ready, p4.ready) BY <1>10, <2>1, KeepsOrderTwice
  <2> QED BY <1>12, <2>2, KeepsOrderTwice
<1> QED BY <1>3, <1>6, <1>8, <1>10, <1>12, <1>13, <1>14, <1>15, <1>16

\* Sources are taken away, or the idle callback is added, and no client loses
\* only the watch for its data.
LEMMA SettledWithFewer ==
  ASSUME NEW left, NEW gone, NEW n, NEW p, Settled(p, left, gone, n),
         NEW q \in Process, Sources(q), Living(q),
         Range(q.attached) \subseteq Range(p.attached) \cup {idle},
         Range(q.ready) \subseteq Range(p.ready),
         KeepsOrder(p.attached, q.attached), KeepsOrder(p.ready, q.ready),
         \A c \in Client : <<c, "hup">> \in Range(q.attached) /\ <<c, "in">> \in Range(p.attached)
                             => <<c, "in">> \in Range(q.attached),
         \A c \in Client : <<c, "hup">> \in Range(q.ready) /\ <<c, "in">> \in Range(p.ready)
                             => <<c, "in">> \in Range(q.ready)
  PROVE  Settled(q, left, gone, n)
<1>1. p \in Process /\ Ordered(p) /\ Served(p, left, gone) /\ RunsKnown(p, n) BY DEF Settled
<1>2. p.attached \in Seq(Hook) /\ p.ready \in Seq(Hook) BY <1>1, ProcessFields
<1>3. ASSUME NEW c \in Client, <<c, "hup">> \in Range(q.attached)
      PROVE  Before(q.attached, <<c, "in">>, <<c, "hup">>)
  <2>1. <<c, "hup">> # idle BY Hooks DEF Event
  <2>2. <<c, "hup">> \in Range(p.attached) BY <1>3, <2>1
  <2>3. Before(p.attached, <<c, "in">>, <<c, "hup">>) BY <1>1, <2>2 DEF Ordered
  <2>4. <<c, "in">> \in Range(q.attached) BY <1>2, <1>3, <2>3, BeforeInRange
  <2> QED BY <1>3, <2>3, <2>4 DEF KeepsOrder
<1>4. ASSUME NEW c \in Client, <<c, "hup">> \in Range(q.ready)
      PROVE  c \in gone /\ (left[c] > 0 => Before(q.ready, <<c, "in">>, <<c, "hup">>))
  <2>1. /\ c \in gone
        /\ left[c] > 0 => Before(p.ready, <<c, "in">>, <<c, "hup">>)
    BY <1>1, <1>4 DEF Served
  <2>2. ASSUME left[c] > 0 PROVE Before(q.ready, <<c, "in">>, <<c, "hup">>)
    <3>1. Before(p.ready, <<c, "in">>, <<c, "hup">>) BY <2>1, <2>2
    <3>2. <<c, "in">> \in Range(q.ready) BY <1>2, <1>4, <3>1, BeforeInRange
    <3> QED BY <1>4, <3>1, <3>2 DEF KeepsOrder
  <2> QED BY <2>1, <2>2
<1>5. Ordered(q) BY <1>3 DEF Ordered
<1>6. Served(q, left, gone) BY <1>4 DEF Served
<1>7. RunsKnown(q, n)
  <2> SUFFICES ASSUME NEW k \in {"signal", "timeout"}, NEW r \in 1 .. MaxRuns,
                      <<k, r>> \in Range(q.attached)
               PROVE  r <= n
    BY DEF RunsKnown
  <2>1. <<k, r>> # idle BY Hooks
  <2>2. <<k, r>> \in Range(p.attached) BY <2>1
  <2> QED BY <1>1, <2>2 DEF RunsKnown
<1> QED BY <1>5, <1>6, <1>7 DEF Settled

LEMMA SettledDisconnected ==
  ASSUME NEW left, NEW gone, NEW n, NEW p, Settled(p, left, gone, n),
         NEW c \in Client, p.client[c] = "connected", NEW q, q = onDisconnected(p, c)
  PROVE  /\ Settled(q, left, gone, n) /\ q.pending = p.pending
         /\ \A d \in Client : d # c => ~Loses(p, q, d)
<1>1. p \in Process /\ Sources(p) /\ Living(p) BY DEF Settled
<1>2. /\ q \in Process /\ Sources(q)
      /\ q.m_isInputWatched = p.m_isInputWatched
      /\ q.client = [p.client EXCEPT ![c] = "disconnected"] /\ q.pending = p.pending
      /\ Range(q.attached) = (Range(p.attached) \cup {idle}) \ WatchesOf(c)
      /\ Range(q.ready) = Range(p.ready) \ WatchesOf(c)
      /\ KeepsOrder(p.attached, q.attached) /\ KeepsOrder(p.ready, q.ready)
  BY <1>1, Disconnected
<1>3. p.client \in [Client -> {"none", "connecting", "connected", "disconnected", "deleted"}]
  BY <1>1, ProcessFields
<1>4. Living(q)
  <2> SUFFICES ASSUME NEW w \in Watch
               PROVE  /\ q.inputSourceID[w] => q.client[w[1]] = "connected"
                      /\ q.m_isInputWatched[w] => q.client[w[1]] \notin {"none", "connecting"}
    BY DEF Living
  <2>1. w[1] \in Client /\ w[2] \in Event /\ w = <<w[1], w[2]>> /\ w # idle BY Hooks
  <2>2. q.client[w[1]] = IF w[1] = c THEN "disconnected" ELSE p.client[w[1]]
    BY <1>2, <1>3, <2>1
  <2>3. ASSUME q.inputSourceID[w] PROVE q.client[w[1]] = "connected"
    <3>1. w \in Range(q.attached) BY <1>2, <2>3 DEF Sources
    <3>2. w \notin WatchesOf(c) /\ w \in Range(p.attached) BY <1>2, <2>1, <3>1
    <3>3. w[1] # c BY <2>1, <3>2 DEF WatchesOf, Event
    <3>4. p.client[w[1]] = "connected" BY <1>1, <3>2 DEF Sources, Living
    <3> QED BY <2>2, <3>3, <3>4
  <2>4. ASSUME q.m_isInputWatched[w] PROVE q.client[w[1]] \notin {"none", "connecting"}
    <3>1. p.client[w[1]] \notin {"none", "connecting"} BY <1>1, <1>2, <2>4 DEF Living
    <3> QED BY <2>2, <3>1
  <2> QED BY <2>3, <2>4
<1>5. ASSUME NEW d \in Client, <<d, "hup">> \in Range(q.attached) \/ <<d, "hup">> \in Range(q.ready)
      PROVE  <<d, "in">> \notin WatchesOf(c)
  <2>1. <<d, "hup">> \notin WatchesOf(c) BY <1>2, <1>5
  <2>2. d # c BY <2>1 DEF WatchesOf
  <2> QED BY <2>2 DEF WatchesOf
<1>6. /\ \A d \in Client : <<d, "hup">> \in Range(q.attached) /\ <<d, "in">> \in Range(p.attached)
                             => <<d, "in">> \in Range(q.attached)
      /\ \A d \in Client : <<d, "hup">> \in Range(q.ready) /\ <<d, "in">> \in Range(p.ready)
                             => <<d, "in">> \in Range(q.ready)
  BY <1>2, <1>5
<1>7. /\ Range(q.attached) \subseteq Range(p.attached) \cup {idle}
      /\ Range(q.ready) \subseteq Range(p.ready)
  BY <1>2
<1>8. Settled(q, left, gone, n)
  BY <1>2, <1>4, <1>6, <1>7, SettledWithFewer
<1>9. \A d \in Client : d # c => q.client[d] = p.client[d] BY <1>2, <1>3
<1> QED BY <1>2, <1>8, <1>9 DEF Loses

\* Sources are added, and the data of a client is watched for before its end.
LEMMA SettledWithMore ==
  ASSUME NEW left, NEW gone, NEW n, NEW m, NEW p, Settled(p, left, gone, n),
         NEW q \in Process, Sources(q), Living(q), q.ready = p.ready,
         \A x, y : Before(p.attached, x, y) => Before(q.attached, x, y),
         \A c \in Client : <<c, "hup">> \in Range(q.attached) =>
           <<c, "hup">> \in Range(p.attached) \/ Before(q.attached, <<c, "in">>, <<c, "hup">>),
         RunsKnown(q, m)
  PROVE  Settled(q, left, gone, m)
<1>1. Ordered(p) /\ Served(p, left, gone) BY DEF Settled
<1>2. Ordered(q) BY <1>1 DEF Ordered
<1>3. Served(q, left, gone) BY <1>1 DEF Served
<1> QED BY <1>2, <1>3 DEF Settled

LEMMA SettledDisconnect ==
  ASSUME NEW left, NEW gone, NEW n, NEW p, Settled(p, left, gone, n), NEW c \in Client
  PROVE  /\ Settled(disconnect(p, c), left, gone, n) /\ disconnect(p, c).pending = p.pending
         /\ \A d \in Client : d # c => ~Loses(p, disconnect(p, c), d)
<1>1. CASE p.client[c] = "connected"
  <2>1. PICK q : q = onDisconnected(p, c) OBVIOUS
  <2>2. /\ Settled(q, left, gone, n) /\ q.pending = p.pending
        /\ \A d \in Client : d # c => ~Loses(p, q, d)
    BY <1>1, <2>1, SettledDisconnected, SMT
  <2> QED BY <1>1, <2>1, <2>2 DEF disconnect
<1>2. CASE p.client[c] # "connected" BY <1>2 DEF disconnect, Loses
<1> QED BY <1>1, <1>2

LEMMA SettledPending ==
  ASSUME NEW left, NEW gone, NEW n, NEW p, Settled(p, left, gone, n),
         NEW sigs, sigs \subseteq {"SIGTERM", "SIGPIPE"},
         NEW q, q = [p EXCEPT !.pending = sigs]
  PROVE  Settled(q, left, gone, n) /\ q.client = p.client /\ q.pending = sigs
<1>1. p \in Process BY DEF Settled
<1>2. /\ q \in Process
      /\ q.attached = p.attached /\ q.ready = p.ready /\ q.m_source = p.m_source
      /\ q.inputSourceID = p.inputSourceID /\ q.m_isInputWatched = p.m_isInputWatched
      /\ q.client = p.client /\ q.pending = sigs
  BY <1>1 DEF Process
<1> QED BY <1>2 DEF Settled, Sources, Living, Ordered, Served, RunsKnown

\* GLibFileDescriptorWatch::enable of the watch for output.
LEMMA SettledOutput ==
  ASSUME NEW left, NEW gone, NEW n, NEW p, Settled(p, left, gone, n),
         NEW c \in Client, p.client[c] = "connected", NEW q, q = enable(p, <<c, "out">>)
  PROVE  Settled(q, left, gone, n) /\ q.client = p.client
<1>1. p \in Process /\ Sources(p) /\ Living(p) /\ RunsKnown(p, n) BY DEF Settled
<1>2. PICK w : w = <<c, "out">> OBVIOUS
<1>3. w \in Watch /\ q = enable(p, w) /\ p \in Process /\ Sources(p)
  BY <1>1, <1>2, Hooks DEF Event
<1>4. /\ q \in Process /\ Sources(q)
      /\ \A v \in Watch : q.m_isInputWatched[v] = (v = w \/ p.m_isInputWatched[v])
      /\ q.client = p.client /\ q.ready = p.ready
      /\ Range(q.attached) = IF p.m_isInputWatched[w] THEN Range(p.attached)
                             ELSE Range(p.attached) \cup {w}
      /\ \A x, y : Before(p.attached, x, y) => Before(q.attached, x, y)
  <2>1. WithWatch(p, w, q) BY <1>3, Enabled
  <2> QED BY <2>1 DEF WithWatch
<1>5. Range(q.attached) \subseteq Range(p.attached) \cup {w} BY <1>4
<1>6. Living(q)
  <2> SUFFICES ASSUME NEW v \in Watch
               PROVE  /\ q.inputSourceID[v] => q.client[v[1]] = "connected"
                      /\ q.m_isInputWatched[v] => q.client[v[1]] \notin {"none", "connecting"}
    BY DEF Living
  <2>1. w[1] = c BY <1>2
  <2>2. ASSUME q.inputSourceID[v] PROVE q.client[v[1]] = "connected"
    <3>1. v \in Range(q.attached) BY <1>4, <2>2 DEF Sources
    <3>2. v = w \/ v \in Range(p.attached) BY <1>5, <3>1
    <3>3. v # w => p.client[v[1]] = "connected" BY <1>1, <3>2 DEF Sources, Living
    <3> QED BY <1>4, <2>1, <3>3
  <2>3. ASSUME q.m_isInputWatched[v] PROVE q.client[v[1]] \notin {"none", "connecting"}
    <3>1. v = w \/ p.m_isInputWatched[v] BY <1>4, <2>3
    <3>2. v # w => p.client[v[1]] \notin {"none", "connecting"} BY <1>1, <3>1 DEF Living
    <3> QED BY <1>4, <2>1, <3>2
  <2> QED BY <2>2, <2>3
<1>7. \A d \in Client : <<d, "hup">> \in Range(q.attached) => <<d, "hup">> \in Range(p.attached)
  BY <1>2, <1>5
<1>8. RunsKnown(q, n)
  <2>1. \A k \in {"signal", "timeout"} : \A r : w # <<k, r>> BY <1>3, Hooks
  <2> QED BY <1>1, <1>5, <2>1 DEF RunsKnown
<1> QED BY <1>4, <1>6, <1>7, <1>8, SettledWithMore

LEMMA SettledWritten ==
  ASSUME NEW left, NEW n, NEW p, Settled(p, left, closed, n),
         NEW c \in Client, p.client[c] = "connected", NEW full \in BOOLEAN,
         NEW q, q = writeNonBlocking(p, c, full)
  PROVE  /\ Settled(q, left, closed, n)
         /\ \A d \in Client : Loses(p, q, d) => "SIGPIPE" \in q.pending
<1>1. CASE p.m_isInputWatched[<<c, "out">>] \/ (full /\ c \notin closed)
  <2>1. q = enable(p, <<c, "out">>) BY <1>1 DEF writeNonBlocking
  <2> QED BY <2>1, SettledOutput, SMT DEF Loses
<1>2. CASE ~(p.m_isInputWatched[<<c, "out">>] \/ (full /\ c \notin closed)) /\ c \in closed
  <2>1. PICK d : d = disconnect(p, c) OBVIOUS
  <2>2. Settled(d, left, closed, n) BY <2>1, SettledDisconnect
  <2>3. PICK sigs : sigs = d.pending \cup {"SIGPIPE"} OBVIOUS
  <2>4. q = [d EXCEPT !.pending = sigs] BY <1>2, <2>1, <2>3 DEF writeNonBlocking
  <2>5. d \in Process BY <2>2 DEF Settled
  <2>6. sigs \subseteq {"SIGTERM", "SIGPIPE"} BY <2>3, <2>5, ProcessFields
  <2> QED BY <2>2, <2>3, <2>4, <2>6, SettledPending, SMTT(30)
<1>3. CASE ~(p.m_isInputWatched[<<c, "out">>] \/ (full /\ c \notin closed)) /\ c \notin closed
  BY <1>3 DEF writeNonBlocking, Loses
<1> QED BY <1>1, <1>2, <1>3

\* LocalClient::initConnection: the client was not watched before.
LEMMA SettledConnection ==
  ASSUME NEW left, NEW gone, NEW n, NEW p, Settled(p, left, gone, n),
         NEW c \in Client, p.client[c] = "connecting", NEW q, q = initConnection(p, c)
  PROVE  Settled(q, left, gone, n) /\ \A d \in Client : ~Loses(p, q, d)
<1>1. p \in Process /\ Sources(p) /\ Living(p) /\ RunsKnown(p, n) BY DEF Settled
<1>2. PICK in, hup : in = <<c, "in">> /\ hup = <<c, "hup">> OBVIOUS
<1>3. in \in Watch /\ hup \in Watch /\ in # hup /\ in[1] = c /\ hup[1] = c
  BY <1>2, Hooks DEF Event
<1>4. PICK p1 : p1 = [p EXCEPT !.client[c] = "connected"] OBVIOUS
<1>5. /\ p1 \in Process
      /\ p1.attached = p.attached /\ p1.ready = p.ready /\ p1.m_source = p.m_source
      /\ p1.inputSourceID = p.inputSourceID /\ p1.m_isInputWatched = p.m_isInputWatched
      /\ p1.client = [p.client EXCEPT ![c] = "connected"]
  <2>1. PICK f : f = [p.client EXCEPT ![c] = "connected"] OBVIOUS
  <2>2. f \in [Client -> {"none", "connecting", "connected", "disconnected", "deleted"}]
    BY <1>1, <2>1, ProcessFields
  <2>3. p1 = [p EXCEPT !.client = f] BY <1>4, <2>1
  <2> QED BY <1>1, <2>1, <2>2, <2>3 DEF Process
<1>6. Sources(p1) BY <1>1, <1>5 DEF Sources
<1>7. ~p1.m_isInputWatched[in] /\ ~p1.m_isInputWatched[hup]
  BY <1>1, <1>3, <1>5 DEF Living
<1>8. PICK p2 : p2 = enable(p1, in) OBVIOUS
<1>9. /\ p2 \in Process /\ Sources(p2)
      /\ \A v \in Watch : p2.m_isInputWatched[v] = (v = in \/ p1.m_isInputWatched[v])
      /\ p2.client = p1.client /\ p2.ready = p1.ready
      /\ Range(p2.attached) = IF p1.m_isInputWatched[in] THEN Range(p1.attached)
                              ELSE Range(p1.attached) \cup {in}
      /\ \A x, y : Before(p1.attached, x, y) => Before(p2.attached, x, y)
  <2>1. WithWatch(p1, in, p2) BY <1>3, <1>5, <1>6, <1>8, Enabled
  <2> QED BY <2>1 DEF WithWatch
<1>10. ~p2.m_isInputWatched[hup] BY <1>3, <1>7, <1>9
<1>11. q = enable(p2, hup) BY <1>2, <1>4, <1>8 DEF initConnection
<1>12. /\ q \in Process /\ Sources(q)
       /\ \A v \in Watch : q.m_isInputWatched[v] = (v = hup \/ p2.m_isInputWatched[v])
       /\ q.client = p2.client /\ q.ready = p2.ready
       /\ Range(q.attached) = IF p2.m_isInputWatched[hup] THEN Range(p2.attached)
                              ELSE Range(p2.attached) \cup {hup}
       /\ \A x, y : Before(p2.attached, x, y) => Before(q.attached, x, y)
       /\ ~p2.m_isInputWatched[hup] => \A x \in Range(p2.attached) : Before(q.attached, x, hup)
  <2>1. WithWatch(p2, hup, q) BY <1>3, <1>9, <1>11, Enabled
  <2> QED BY <2>1 DEF WithWatch
<1>13. Range(q.attached) = Range(p.attached) \cup {in, hup}
  BY <1>5, <1>7, <1>9, <1>10, <1>12
<1>14. Before(q.attached, in, hup) BY <1>7, <1>9, <1>10, <1>12
<1>15. \A x, y : Before(p.attached, x, y) => Before(q.attached, x, y)
  BY <1>5, <1>9, <1>12
<1>16. Living(q)
  <2> SUFFICES ASSUME NEW v \in Watch
               PROVE  /\ q.inputSourceID[v] => q.client[v[1]] = "connected"
                      /\ q.m_isInputWatched[v] => q.client[v[1]] \notin {"none", "connecting"}
    BY DEF Living
  <2>1. v[1] \in Client BY Hooks
  <2>2. q.client[v[1]] = IF v[1] = c THEN "connected" ELSE p.client[v[1]]
    BY <1>1, <1>5, <1>9, <1>12, <2>1, ProcessFields, SMT
  <2>3. ASSUME q.inputSourceID[v] PROVE q.client[v[1]] = "connected"
    <3>1. v \in Range(q.attached) BY <1>12, <2>3 DEF Sources
    <3>2. v[1] = c \/ v \in Range(p.attached) BY <1>3, <1>13, <3>1
    <3>3. v[1] # c => p.client[v[1]] = "connected" BY <1>1, <3>2 DEF Sources, Living
    <3> QED BY <2>2, <3>3
  <2>4. ASSUME q.m_isInputWatched[v] PROVE q.client[v[1]] \notin {"none", "connecting"}
    <3>1. v[1] = c \/ p.m_isInputWatched[v] BY <1>3, <1>5, <1>9, <1>12, <2>4
    <3>2. v[1] # c => p.client[v[1]] \notin {"none", "connecting"} BY <1>1, <3>1 DEF Living
    <3> QED BY <2>2, <3>2
  <2> QED BY <2>3, <2>4
<1>17. ASSUME NEW d \in Client, <<d, "hup">> \in Range(q.attached)
       PROVE  <<d, "hup">> \in Range(p.attached) \/ Before(q.attached, <<d, "in">>, <<d, "hup">>)
  <2>1. CASE d = c BY <1>2, <1>14, <2>1
  <2>2. CASE d # c BY <1>2, <1>13, <1>17, <2>2
  <2> QED BY <2>1, <2>2
<1>18. RunsKnown(q, n)
  <2>1. \A k \in {"signal", "timeout"} : \A r : in # <<k, r>> /\ hup # <<k, r>> BY <1>3, Hooks
  <2> QED BY <1>1, <1>13, <2>1 DEF RunsKnown
<1>19. q.ready = p.ready BY <1>5, <1>9, <1>12
<1>20. Settled(q, left, gone, n)
  BY <1>12, <1>15, <1>16, <1>17, <1>18, <1>19, SettledWithMore
<1>21. \A d \in Client : q.client[d] = IF d = c THEN "connected" ELSE p.client[d]
  BY <1>1, <1>5, <1>9, <1>12, ProcessFields, SMT
<1> QED BY <1>20, <1>21 DEF Loses

\* Dispatcher::cleanDisconnectedClients
LEMMA SettledClean ==
  ASSUME NEW left, NEW gone, NEW n, NEW p, Settled(p, left, gone, n),
         NEW q, q = cleanDisconnectedClients(p)
  PROVE  Settled(q, left, gone, n) /\ \A d \in Client : ~Loses(p, q, d)
<1>1. p \in Process /\ Sources(p) /\ Living(p) BY DEF Settled
<1>2. PICK dead : dead = {w \in Watch : p.client[w[1]] = "disconnected" /\ p.inputSourceID[w]}
  OBVIOUS
<1>3. \A w \in Watch : w \notin dead BY <1>1, <1>2 DEF Living
<1>4. dead = {} BY <1>2, <1>3
<1>5. PICK d : d = destroy(p, dead) OBVIOUS
<1>6. /\ d \in Process
      /\ d.m_source = p.m_source /\ d.inputSourceID = p.inputSourceID
      /\ d.m_isInputWatched = p.m_isInputWatched
      /\ d.client = p.client /\ d.pending = p.pending
      /\ Range(d.attached) = Range(p.attached) \ dead
      /\ Range(d.ready) = Range(p.ready) \ dead
      /\ IsInjective(p.attached) => IsInjective(d.attached)
      /\ IsInjective(p.ready) => IsInjective(d.ready)
      /\ KeepsOrder(p.attached, d.attached) /\ KeepsOrder(p.ready, d.ready)
  BY ONLY <1>1, <1>5, Destroyed
<1>7. PICK f, u : /\ f = [w \in Watch |-> d.inputSourceID[w] /\ w \notin dead]
                  /\ u = [c \in Client |-> IF d.client[c] = "disconnected" THEN "deleted"
                                           ELSE d.client[c]]
  OBVIOUS
<1>8. q = [d EXCEPT !.inputSourceID = f, !.client = u]
  BY <1>2, <1>5, <1>7 DEF cleanDisconnectedClients
<1>9. /\ f \in [Watch -> BOOLEAN]
      /\ u \in [Client -> {"none", "connecting", "connected", "disconnected", "deleted"}]
  BY <1>6, <1>7, ProcessFields
<1>10. /\ q \in Process /\ q.attached = d.attached /\ q.ready = d.ready
       /\ q.m_source = p.m_source /\ q.m_isInputWatched = p.m_isInputWatched
       /\ q.inputSourceID = f /\ q.client = u
  BY <1>6, <1>8, <1>9 DEF Process
<1>11. Range(q.attached) = Range(p.attached) /\ Range(q.ready) = Range(p.ready)
  BY <1>4, <1>6, <1>10
<1>12. \A w \in Watch : q.inputSourceID[w] = p.inputSourceID[w]
  <2> SUFFICES ASSUME NEW w \in Watch PROVE q.inputSourceID[w] = p.inputSourceID[w]
    OBVIOUS
  <2>1. p.inputSourceID[w] \in BOOLEAN BY <1>1, ProcessFields
  <2>2. f[w] = (p.inputSourceID[w] /\ w \notin dead) BY <1>6, <1>7
  <2> QED BY <1>3, <1>10, <2>1, <2>2
<1>13. Sources(q)
  BY <1>1, <1>6, <1>10, <1>11, <1>12 DEF Sources
<1>14. Living(q)
  <2> SUFFICES ASSUME NEW w \in Watch
               PROVE  /\ q.inputSourceID[w] => q.client[w[1]] = "connected"
                      /\ q.m_isInputWatched[w] => q.client[w[1]] \notin {"none", "connecting"}
    BY DEF Living
  <2>1. w[1] \in Client BY Hooks
  <2>2. q.client[w[1]] = IF p.client[w[1]] = "disconnected" THEN "deleted" ELSE p.client[w[1]]
    BY <1>6, <1>7, <1>10, <2>1, SMT
  <2>3. /\ p.inputSourceID[w] => p.client[w[1]] = "connected"
        /\ p.m_isInputWatched[w] => p.client[w[1]] \notin {"none", "connecting"}
    BY <1>1 DEF Living
  <2> QED BY <1>10, <1>12, <2>2, <2>3
<1>15. Settled(q, left, gone, n) BY <1>6, <1>10, <1>11, <1>13, <1>14, SettledWithFewer
<1>16. \A c \in Client : q.client[c] = IF p.client[c] = "disconnected" THEN "deleted"
                                       ELSE p.client[c]
  <2>1. q.client = u /\ d.client = p.client BY <1>6, <1>10
  <2> QED BY <1>7, <2>1
<1> QED BY <1>15, <1>16 DEF Loses

\* A source other than the watch of a client is destroyed, and its hook knows.
LEMMA SettledDestroyed ==
  ASSUME NEW left, NEW gone, NEW n, NEW p, Settled(p, left, gone, n),
         NEW h, h \notin Watch
  PROVE  LET q == [destroy(p, {h}) EXCEPT !.m_source = (p.m_source /\ h # idle)]
         IN  Settled(q, left, gone, n) /\ q.client = p.client
<1> DEFINE d == destroy(p, {h})
           q == [d EXCEPT !.m_source = (p.m_source /\ h # idle)]
<1> HIDE DEF d, q
<1>0. PICK known \in BOOLEAN : known = (p.m_source /\ h # idle) OBVIOUS
<1>1. p \in Process /\ Sources(p) /\ Living(p) BY DEF Settled
<1>2. /\ d \in Process
      /\ d.m_source = p.m_source /\ d.inputSourceID = p.inputSourceID
      /\ d.m_isInputWatched = p.m_isInputWatched
      /\ d.client = p.client /\ d.pending = p.pending
      /\ Range(d.attached) = Range(p.attached) \ {h}
      /\ Range(d.ready) = Range(p.ready) \ {h}
      /\ IsInjective(p.attached) => IsInjective(d.attached)
      /\ IsInjective(p.ready) => IsInjective(d.ready)
      /\ KeepsOrder(p.attached, d.attached) /\ KeepsOrder(p.ready, d.ready)
  <2>1. PICK hooks : hooks = {h} OBVIOUS
  <2>2. d = destroy(p, hooks) BY <2>1 DEF d
  <2>3. /\ d \in Process
        /\ d.m_source = p.m_source /\ d.inputSourceID = p.inputSourceID
        /\ d.m_isInputWatched = p.m_isInputWatched
        /\ d.client = p.client /\ d.pending = p.pending
        /\ Range(d.attached) = Range(p.attached) \ hooks
        /\ Range(d.ready) = Range(p.ready) \ hooks
        /\ IsInjective(p.attached) => IsInjective(d.attached)
        /\ IsInjective(p.ready) => IsInjective(d.ready)
        /\ KeepsOrder(p.attached, d.attached) /\ KeepsOrder(p.ready, d.ready)
    BY ONLY <1>1, <2>2, Destroyed
  <2> QED BY <2>1, <2>3
<1>3. /\ q \in Process /\ q.attached = d.attached /\ q.ready = d.ready
      /\ q.m_source = known /\ q.client = p.client
      /\ q.inputSourceID = p.inputSourceID /\ q.m_isInputWatched = p.m_isInputWatched
  <2>1. q = [d EXCEPT !.m_source = known] BY <1>0 DEF q
  <2> QED BY <1>2, <2>1 DEF Process
<1>4. Sources(q)
  <2>1. ASSUME NEW v \in Watch
        PROVE  /\ q.inputSourceID[v] = (v \in Range(q.attached))
               /\ q.inputSourceID[v] => q.m_isInputWatched[v]
    <3>1. (v \in Range(q.attached)) = (v \in Range(p.attached)) BY <1>2, <1>3, SMT
    <3>2. /\ p.inputSourceID[v] = (v \in Range(p.attached))
          /\ p.inputSourceID[v] => p.m_isInputWatched[v]
      BY <1>1 DEF Sources
    <3> QED BY <1>3, <3>1, <3>2
  <2>2. q.m_source = (idle \in Range(q.attached))
    <3>1. p.m_source = (idle \in Range(p.attached)) BY <1>1 DEF Sources
    <3>2. (idle \in Range(q.attached)) = (idle \in Range(p.attached) /\ h # idle)
      BY <1>2, <1>3, SMT
    <3>3. known = (idle \in Range(p.attached) /\ h # idle) BY <1>0, <3>1
    <3> QED BY <1>3, <3>2, <3>3
  <2>3. /\ Range(q.ready) \subseteq Range(q.attached)
        /\ IsInjective(q.attached) /\ IsInjective(q.ready)
    BY <1>1, <1>2, <1>3 DEF Sources
  <2> QED BY <2>1, <2>2, <2>3 DEF Sources
<1>5. Living(q) BY <1>1, <1>3 DEF Living
<1>6. \A c \in Client : <<c, "in">> # h BY Hooks DEF Event
<1>7. /\ Range(q.attached) \subseteq Range(p.attached) \cup {idle}
      /\ Range(q.ready) \subseteq Range(p.ready)
      /\ \A c \in Client : <<c, "in">> \in Range(p.attached) => <<c, "in">> \in Range(q.attached)
      /\ \A c \in Client : <<c, "in">> \in Range(p.ready) => <<c, "in">> \in Range(q.ready)
  BY <1>2, <1>3, <1>6
<1>8. KeepsOrder(p.attached, q.attached) /\ KeepsOrder(p.ready, q.ready) BY <1>2, <1>3
<1>9. Settled(q, left, gone, n)
  BY <1>3, <1>4, <1>5, <1>7, <1>8, SettledWithFewer
<1> QED BY <1>3, <1>9 DEF d, q

\* GlibIdleCallback::destroySource
LEMMA SettledIdle ==
  ASSUME NEW left, NEW gone, NEW n, NEW p, Settled(p, left, gone, n)
  PROVE  Settled(destroySource(p), left, gone, n) /\ destroySource(p).client = p.client
<1>1. CASE p.m_source
  <2>1. PICK h : h = idle OBVIOUS
  <2>2. h \notin Watch BY <2>1, Hooks
  <2>3. PICK q : q = [destroy(p, {h}) EXCEPT !.m_source = (p.m_source /\ h # idle)] OBVIOUS
  <2>4. Settled(q, left, gone, n) /\ q.client = p.client BY <2>2, <2>3, SettledDestroyed, SMT
  <2>5. (p.m_source /\ h # idle) = FALSE BY <2>1
  <2>6. q = destroySource(p) BY <1>1, <2>1, <2>3, <2>5 DEF destroySource
  <2> QED BY <2>4, <2>6
<1>2. CASE ~p.m_source BY <1>2 DEF destroySource
<1> QED BY <1>1, <1>2

\* The timeout of run() has been handled.
LEMMA SettledTimeout ==
  ASSUME NEW left, NEW gone, NEW n, NEW p, Settled(p, left, gone, n),
         NEW h, \E r : h = <<"timeout", r>>
  PROVE  Settled(destroy(p, {h}), left, gone, n) /\ destroy(p, {h}).client = p.client
<1>1. PICK d : d = destroy(p, {h}) OBVIOUS
<1>2. h \notin Watch /\ h # idle BY Hooks
<1>3. p \in Process BY DEF Settled
<1>4. p.m_source \in BOOLEAN BY <1>3, ProcessFields
<1>5. d \in Process /\ d.m_source = p.m_source
  <2>1. PICK hooks : hooks = {h} OBVIOUS
  <2>2. d = destroy(p, hooks) BY <1>1, <2>1
  <2> QED BY ONLY <1>3, <2>2, Destroyed
<1>6. p.m_source = (p.m_source /\ h # idle) BY <1>2, <1>4
<1>7. d = [d EXCEPT !.m_source = (p.m_source /\ h # idle)] BY <1>5, <1>6 DEF Process
<1>8. Settled(d, left, gone, n) /\ d.client = p.client
  BY <1>1, <1>2, <1>7, SettledDestroyed, SMT
<1> QED BY <1>1, <1>8

\* What MainLoopApplication::run attaches.
LEMMA SettledRun ==
  ASSUME NEW left, NEW gone, NEW n, NEW m \in 1 .. MaxRuns, NEW p, Settled(p, left, gone, n),
         NEW h, \E k \in {"signal", "timeout"} : h = <<k, m>>,
         h \notin Range(p.attached), n <= m, n \in Nat
  PROVE  /\ Settled(attach(p, h), left, gone, m)
         /\ attach(p, h).client = p.client
         /\ Range(attach(p, h).attached) = Range(p.attached) \cup {h}
<1>1. p \in Process /\ Sources(p) /\ Living(p) /\ RunsKnown(p, n) BY DEF Settled
<1>2. PICK q : q = attach(p, h) OBVIOUS
<1>3. h \in Hook /\ h # idle /\ h \notin Watch /\ h[2] = m BY Hooks, SMT
<1>4. WithSource(p, h, q) BY <1>1, <1>2, <1>3, AttachedTo
<1>5. /\ q \in Process
      /\ q.m_source = p.m_source /\ q.inputSourceID = p.inputSourceID
      /\ q.m_isInputWatched = p.m_isInputWatched
      /\ q.client = p.client /\ q.ready = p.ready
      /\ Range(q.attached) = Range(p.attached) \cup {h}
      /\ IsInjective(p.attached) => IsInjective(q.attached)
      /\ \A x, y : Before(p.attached, x, y) => Before(q.attached, x, y)
  BY <1>3, <1>4 DEF WithSource
<1>6. Sources(q)
  <2>1. ASSUME NEW v \in Watch
        PROVE  /\ q.inputSourceID[v] = (v \in Range(q.attached))
               /\ q.inputSourceID[v] => q.m_isInputWatched[v]
    <3>1. (v \in Range(q.attached)) = (v \in Range(p.attached)) BY <1>3, <1>5, SMT
    <3>2. /\ p.inputSourceID[v] = (v \in Range(p.attached))
          /\ p.inputSourceID[v] => p.m_isInputWatched[v]
      BY <1>1 DEF Sources
    <3> QED BY <1>5, <3>1, <3>2
  <2>2. q.m_source = (idle \in Range(q.attached))
    <3>1. p.m_source = (idle \in Range(p.attached)) BY <1>1 DEF Sources
    <3>2. (idle \in Range(q.attached)) = (idle \in Range(p.attached)) BY <1>3, <1>5, SMT
    <3> QED BY <1>5, <3>1, <3>2
  <2>3. /\ Range(q.ready) \subseteq Range(q.attached)
        /\ IsInjective(q.attached) /\ IsInjective(q.ready)
    BY <1>1, <1>5 DEF Sources
  <2> QED BY <2>1, <2>2, <2>3 DEF Sources
<1>7. Living(q) BY <1>1, <1>5 DEF Living
<1>8. RunsKnown(q, m)
  <2> SUFFICES ASSUME NEW l \in {"signal", "timeout"}, NEW r \in 1 .. MaxRuns,
                      <<l, r>> \in Range(q.attached)
               PROVE  r <= m
    BY DEF RunsKnown
  <2>1. CASE <<l, r>> = h
    <3>1. r = m BY <1>3, <2>1
    <3> QED BY <3>1, SMT
  <2>2. CASE <<l, r>> # h
    <3>1. r <= n BY <1>1, <1>5, <2>2 DEF RunsKnown
    <3>2. r \in Nat /\ m \in Nat BY SMT
    <3> QED BY <3>1, <3>2, SMT
  <2> QED BY <2>1, <2>2
<1>9. \A c \in Client : <<c, "hup">> \in Range(q.attached) => <<c, "hup">> \in Range(p.attached)
  <2>1. \A c \in Client : <<c, "hup">> # h BY <1>3, Hooks DEF Event
  <2> QED BY <1>5, <2>1
<1>10. Settled(q, left, gone, m) BY <1>5, <1>6, <1>7, <1>8, <1>9, SettledWithMore
<1> QED BY <1>2, <1>5, <1>10

\* The process in a callback: the source of the callback is not ready any
\* more; if it is the watch for data, the data has been read.
LEMMA SettledCallback ==
  ASSUME MainLoopInv, g.ready # <<>>, NEW left,
         \A c \in Client : left[c] > 0 => data[c] > 0 /\ Head(g.ready) # <<c, "in">>
  PROVE  Settled(p0, left, closed, runs) /\ p0.client = g.client /\ p0.pending = g.pending
<1>0. Settled(g, data, closed, runs) BY DEF MainLoopInv
<1>1. /\ g \in Process /\ Sources(g) /\ Living(g) /\ Ordered(g) /\ Served(g, data, closed)
      /\ RunsKnown(g, runs)
  BY <1>0 DEF Settled
<1>2. PICK q, t, h : q = p0 /\ t = Tail(g.ready) /\ h = Head(g.ready) OBVIOUS
<1>3. g.ready \in Seq(Hook) /\ IsInjective(g.ready) BY <1>1, ProcessFields DEF Sources
<1>4. /\ t \in Seq(Hook) /\ h \in Range(g.ready)
      /\ IsInjective(t) /\ Range(t) = Range(g.ready) \ {h}
      /\ \A x, y : Before(g.ready, x, y) /\ x # h => Before(t, x, y)
  BY <1>2, <1>3, Dispatched
<1>5. q = [g EXCEPT !.ready = t] BY <1>2 DEF p0
<1>6. /\ q \in Process
      /\ q.attached = g.attached /\ q.ready = t /\ q.m_source = g.m_source
      /\ q.inputSourceID = g.inputSourceID /\ q.m_isInputWatched = g.m_isInputWatched
      /\ q.client = g.client /\ q.pending = g.pending
  BY <1>1, <1>4, <1>5 DEF Process
<1>7. Sources(q) BY <1>1, <1>4, <1>6 DEF Sources
<1>8. Living(q) /\ Ordered(q) /\ RunsKnown(q, runs)
  BY <1>1, <1>6 DEF Living, Ordered, RunsKnown
<1>9. Served(q, left, closed)
  <2> SUFFICES ASSUME NEW c \in Client, <<c, "hup">> \in Range(q.ready)
               PROVE  /\ c \in closed
                      /\ left[c] > 0 => Before(q.ready, <<c, "in">>, <<c, "hup">>)
    BY DEF Served
  <2>1. /\ c \in closed
        /\ data[c] > 0 => Before(g.ready, <<c, "in">>, <<c, "hup">>)
    BY <1>1, <1>4, <1>6 DEF Served
  <2>2. ASSUME left[c] > 0 PROVE Before(q.ready, <<c, "in">>, <<c, "hup">>)
    <3>1. data[c] > 0 /\ <<c, "in">> # h BY <1>2, <2>2
    <3> QED BY <1>4, <1>6, <2>1, <3>1
  <2> QED BY <2>1, <2>2
<1> QED BY <1>2, <1>6, <1>7, <1>8, <1>9 DEF Settled

-----------------------------------------------------------------------------
(* The steps.                                                              *)

\* What one iteration takes from the context keeps its order, and a watch is
\* taken if it is ready.
LEMMA SettledPoll ==
  ASSUME MainLoopInv, NEW waiting,
         \A w \in Watch \cap Range(g.attached) : w \in waiting <=> ~isReady(w),
         NEW q, q = [g EXCEPT !.ready = without(g.attached, waiting)]
  PROVE  Settled(q, data, closed, runs) /\ q.client = g.client
<1>0. Settled(g, data, closed, runs) /\ due \cap Watch = {} BY DEF MainLoopInv
<1>1. /\ g \in Process /\ Sources(g) /\ Living(g) /\ Ordered(g) /\ RunsKnown(g, runs)
  BY <1>0 DEF Settled
<1>2. PICK t : t = without(g.attached, waiting) OBVIOUS
<1>3. g.attached \in Seq(Hook) /\ IsInjective(g.attached) BY <1>1, ProcessFields DEF Sources
<1>4. /\ t \in Seq(Hook) /\ Range(t) = Range(g.attached) \ waiting
      /\ IsInjective(g.attached) => IsInjective(t)
      /\ \A x, y : Before(g.attached, x, y) /\ x \notin waiting /\ y \notin waiting
                     => Before(t, x, y)
  BY <1>2, <1>3, Without, SMT
<1>5. /\ q \in Process
      /\ q.attached = g.attached /\ q.ready = t /\ q.m_source = g.m_source
      /\ q.inputSourceID = g.inputSourceID /\ q.m_isInputWatched = g.m_isInputWatched
      /\ q.client = g.client
  BY <1>1, <1>2, <1>4 DEF Process
<1>6. Sources(q) BY <1>1, <1>3, <1>4, <1>5 DEF Sources
<1>7. Living(q) /\ Ordered(q) /\ RunsKnown(q, runs)
  BY <1>1, <1>5 DEF Living, Ordered, RunsKnown
<1>8. ASSUME NEW w \in Watch PROVE isReady(w) <=> condition(w) \cap revents(w[1]) # {}
  <2>1. w # server /\ w # idle /\ w \notin due /\ w[1] \in Client BY <1>0, Hooks
  <2>2. w[1] # "signal" BY <2>1, MainLoopAssumption
  <2> QED BY <2>1, <2>2 DEF isReady
<1>9. Served(q, data, closed)
  <2> SUFFICES ASSUME NEW c \in Client, <<c, "hup">> \in Range(q.ready)
               PROVE  /\ c \in closed
                      /\ data[c] > 0 => Before(q.ready, <<c, "in">>, <<c, "hup">>)
    BY DEF Served
  <2>1. PICK in, hup : in = <<c, "in">> /\ hup = <<c, "hup">> OBVIOUS
  <2>2. in \in Watch /\ hup \in Watch BY <2>1, Hooks DEF Event
  <2>3. hup \in Range(g.attached) /\ hup \notin waiting BY <1>4, <1>5, <2>1
  <2>4. isReady(hup) BY <2>2, <2>3
  <2>5. condition(hup) \cap revents(c) # {} BY <1>8, <2>1, <2>2, <2>4
  <2>6. condition(hup) \subseteq {"hup"} BY <2>1 DEF condition
  <2>7. "hup" \in revents(c) BY <2>5, <2>6
  <2>8. c \in closed BY <2>7 DEF revents
  <2>9. Before(g.attached, in, hup) BY <1>1, <2>1, <2>3 DEF Ordered
  <2>10. in \in Range(g.attached) BY <1>3, <2>9, BeforeInRange
  <2>11. "in" \in revents(c) BY <2>8 DEF revents
  <2>12. "in" \in condition(in) BY <2>1 DEF condition
  <2>13. isReady(in) BY <1>8, <2>1, <2>2, <2>11, <2>12
  <2>14. in \notin waiting BY <2>2, <2>10, <2>13
  <2>15. Before(t, in, hup) BY <1>4, <2>3, <2>9, <2>14
  <2> QED BY <1>5, <2>1, <2>8, <2>15
<1> QED BY <1>5, <1>6, <1>7, <1>9 DEF Settled

Goes == \A c \in Client :
          Loses(g, g', c) /\ data'[c] > 0 => "SIGPIPE" \in g'.pending /\ Head(g.ready)[2] = "in"

LEMMA Polls ==
  ASSUME MainLoopInv, poll
  PROVE  MainLoopInv' /\ Goes
<1>1. PICK waiting : waiting = {h \in Range(g.attached) : ~isReady(h)} OBVIOUS
<1>2. /\ g' = [g EXCEPT !.ready = IF without(g.attached, waiting \cup {idle}) = <<>>
                                  THEN without(g.attached, waiting)
                                  ELSE without(g.attached, waiting \cup {idle})]
      /\ UNCHANGED <<runs, data, closed, due>>
  BY <1>1 DEF poll, peerVars, clockVars
<1>3. PICK ws : /\ ws = waiting \/ ws = waiting \cup {idle}
                /\ g' = [g EXCEPT !.ready = without(g.attached, ws)]
  BY <1>2
<1>4. \A w \in Watch \cap Range(g.attached) : w \in ws <=> ~isReady(w)
  <2>1. \A w \in Watch : w # idle BY Hooks
  <2> QED BY <1>1, <1>3, <2>1
<1>5. PICK q : q = g' OBVIOUS
<1>6. Settled(q, data, closed, runs) /\ q.client = g.client BY <1>3, <1>4, <1>5, SettledPoll
<1>7. Goes BY <1>5, <1>6 DEF Goes, Loses
<1>8. MainLoopInv' BY <1>2, <1>5, <1>6 DEF MainLoopInv
<1> QED BY <1>7, <1>8

\* Callbacks: what they do to the process has been shown to keep it settled.
LEMMA Accepts ==
  ASSUME MainLoopInv, handleNewConnection
  PROVE  MainLoopInv' /\ Goes
<1>1. /\ g.ready # <<>> /\ Head(g.ready) = server /\ UNCHANGED <<runs, data, closed, due>>
  BY DEF handleNewConnection, dispatching, peerVars, clockVars
<1>2. PICK c \in Client : g.client[c] = "connecting" /\ g' = initConnection(p0, c)
  BY DEF handleNewConnection
<1>3. \A d \in Client : Head(g.ready) # <<d, "in">> BY <1>1, Hooks DEF Event
<1>4. Settled(p0, data, closed, runs) /\ p0.client = g.client BY <1>1, <1>3, SettledCallback
<1>5. PICK p, q : p = p0 /\ q = g' OBVIOUS
<1>6. Settled(q, data, closed, runs) /\ \A d \in Client : ~Loses(p, q, d)
  BY <1>2, <1>4, <1>5, SettledConnection
<1>7. Goes BY <1>4, <1>5, <1>6 DEF Goes, Loses
<1>8. MainLoopInv' BY <1>1, <1>5, <1>6 DEF MainLoopInv
<1> QED BY <1>7, <1>8

LEMMA Reads ==
  ASSUME MainLoopInv, NEW c \in Client, onIncomingDataAvailable(c)
  PROVE  MainLoopInv' /\ Goes
<1>1. /\ g.ready # <<>> /\ Head(g.ready) = <<c, "in">> /\ UNCHANGED <<runs, closed, due>>
      /\ data' = [data EXCEPT ![c] = 0]
  BY DEF onIncomingDataAvailable, dispatching, peerVars, clockVars
<1>2. data \in [Client -> Nat] /\ Settled(g, data, closed, runs) BY DEF MainLoopInv
<1>3. data' \in [Client -> Nat] /\ \A d \in Client : data'[d] > 0 => data[d] > 0 /\ d # c
  BY <1>1, <1>2, SMT
<1>4. \A d \in Client : d # c => Head(g.ready) # <<d, "in">> BY <1>1, SMT
<1>5. PICK left : left = data' OBVIOUS
<1>6. Settled(p0, left, closed, runs) /\ p0.client = g.client
  BY <1>1, <1>3, <1>4, <1>5, SettledCallback
<1>7. PICK p, q : p = p0 /\ q = g' OBVIOUS
<1>8. Settled(q, left, closed, runs) /\ \A d \in Client : Loses(p, q, d) => "SIGPIPE" \in q.pending
  <2>1. CASE q = p BY <1>6, <1>7, <2>1 DEF Loses
  <2>2. ASSUME NEW to \in Client, NEW full \in BOOLEAN, g.client[to] = "connected",
               q = writeNonBlocking(p, to, full)
        PROVE  Settled(q, left, closed, runs)
               /\ \A d \in Client : Loses(p, q, d) => "SIGPIPE" \in q.pending
    BY <1>6, <1>7, <2>2, SettledWritten
  <2> QED BY <1>7, <2>1, <2>2 DEF onIncomingDataAvailable
<1>9. Head(g.ready)[2] = "in" BY <1>1, SMT
<1>10. Goes BY <1>6, <1>7, <1>8, <1>9 DEF Goes, Loses
<1>11. MainLoopInv' BY <1>1, <1>3, <1>5, <1>7, <1>8 DEF MainLoopInv
<1> QED BY <1>10, <1>11

\* The end of a connection is handled after its data.
LEMMA HangsUp ==
  ASSUME MainLoopInv, NEW c \in Client, onHangUp(c)
  PROVE  MainLoopInv' /\ Goes
<1>1. /\ g.ready # <<>> /\ Head(g.ready) = <<c, "hup">> /\ UNCHANGED <<runs, data, closed, due>>
      /\ g' = disconnect(p0, c)
  BY DEF onHangUp, dispatching, peerVars, clockVars
<1>2. \A d \in Client : Head(g.ready) # <<d, "in">> BY <1>1, SMT
<1>3. Settled(p0, data, closed, runs) /\ p0.client = g.client BY <1>1, <1>2, SettledCallback
<1>4. PICK p, q : p = p0 /\ q = g' OBVIOUS
<1>5. Settled(q, data, closed, runs) /\ \A d \in Client : d # c => ~Loses(p, q, d)
  BY <1>1, <1>3, <1>4, SettledDisconnect
<1>6. ~(data[c] > 0)
  <2>1. g \in Process /\ Sources(g) /\ Served(g, data, closed) BY DEF MainLoopInv, Settled
  <2>2. g.ready \in Seq(Hook) /\ IsInjective(g.ready) BY <2>1, ProcessFields DEF Sources
  <2>3. Head(g.ready) \in Range(g.ready) /\ \A x : ~Before(g.ready, x, Head(g.ready))
    BY <1>1, <2>2, Dispatched
  <2> QED BY <1>1, <2>1, <2>3 DEF Served
<1>7. Goes BY <1>1, <1>3, <1>4, <1>5, <1>6 DEF Goes, Loses
<1>8. MainLoopInv' BY <1>1, <1>4, <1>5 DEF MainLoopInv
<1> QED BY <1>7, <1>8

LEMMA Cleans ==
  ASSUME MainLoopInv, onIdle
  PROVE  MainLoopInv' /\ Goes
<1>1. /\ g.ready # <<>> /\ Head(g.ready) = idle /\ UNCHANGED <<runs, data, closed, due>>
      /\ g' = destroySource(cleanDisconnectedClients(p0))
  BY DEF onIdle, dispatching, peerVars, clockVars
<1>2. \A d \in Client : Head(g.ready) # <<d, "in">> BY <1>1, Hooks DEF Event
<1>3. Settled(p0, data, closed, runs) /\ p0.client = g.client BY <1>1, <1>2, SettledCallback
<1>4. PICK p, d, q : p = p0 /\ d = cleanDisconnectedClients(p) /\ q = g' OBVIOUS
<1>5. Settled(d, data, closed, runs) /\ \A c \in Client : ~Loses(p, d, c)
  BY <1>3, <1>4, SettledClean
<1>6. Settled(q, data, closed, runs) /\ q.client = d.client
  BY <1>1, <1>4, <1>5, SettledIdle
<1>7. Goes BY <1>3, <1>4, <1>5, <1>6 DEF Goes, Loses
<1>8. MainLoopInv' BY <1>1, <1>4, <1>6 DEF MainLoopInv
<1> QED BY <1>7, <1>8

LEMMA Ticks ==
  ASSUME MainLoopInv, onTimerCallback
  PROVE  MainLoopInv' /\ Goes
<1>1. /\ g.ready # <<>> /\ Head(g.ready) = timer /\ UNCHANGED <<runs, data, closed>>
      /\ g' = p0 /\ due' \subseteq due
  BY DEF onTimerCallback, dispatching, peerVars
<1>2. \A d \in Client : Head(g.ready) # <<d, "in">> BY <1>1, Hooks DEF Event
<1>3. Settled(p0, data, closed, runs) /\ p0.client = g.client BY <1>1, <1>2, SettledCallback
<1>4. PICK q : q = g' OBVIOUS
<1>5. Goes BY <1>1, <1>3, <1>4 DEF Goes, Loses
<1>6. MainLoopInv' BY <1>1, <1>3, <1>4 DEF MainLoopInv
<1> QED BY <1>5, <1>6

LEMMA TimesOut ==
  ASSUME MainLoopInv, NEW r, timeout_callback(r)
  PROVE  MainLoopInv' /\ Goes
<1>1. /\ g.ready # <<>> /\ Head(g.ready) = <<"timeout", r>> /\ UNCHANGED <<runs, data, closed>>
      /\ g' = destroy(p0, {<<"timeout", r>>}) /\ due' \subseteq due
  BY DEF timeout_callback, dispatching, peerVars
<1>2. \A d \in Client : Head(g.ready) # <<d, "in">> BY <1>1, Hooks DEF Event
<1>3. Settled(p0, data, closed, runs) /\ p0.client = g.client BY <1>1, <1>2, SettledCallback
<1>4. PICK p, q : p = p0 /\ q = g' OBVIOUS
<1>5. Settled(q, data, closed, runs) /\ q.client = p.client
  <2>1. PICK h : h = <<"timeout", r>> OBVIOUS
  <2>2. Settled(p, data, closed, runs) /\ \E t : h = <<"timeout", t>> BY <1>3, <1>4, <2>1
  <2>3. Settled(destroy(p, {h}), data, closed, runs) /\ destroy(p, {h}).client = p.client
    BY ONLY <2>2, SettledTimeout
  <2> QED BY <1>1, <1>4, <2>1, <2>3
<1>6. Goes BY <1>3, <1>4, <1>5 DEF Goes, Loses
<1>7. MainLoopInv' BY <1>1, <1>4, <1>5 DEF MainLoopInv
<1> QED BY <1>6, <1>7

LEMMA ReadsSignal ==
  ASSUME MainLoopInv, NEW r, onUnixSignalReceived(r)
  PROVE  MainLoopInv' /\ Goes
<1>1. /\ g.ready # <<>> /\ Head(g.ready) = <<"signal", r>>
      /\ UNCHANGED <<runs, data, closed, due>>
  BY DEF onUnixSignalReceived, dispatching, peerVars, clockVars
<1>2. \A d \in Client : Head(g.ready) # <<d, "in">> BY <1>1, Hooks DEF Event
<1>3. Settled(p0, data, closed, runs) /\ p0.client = g.client BY <1>1, <1>2, SettledCallback
<1>4. PICK p, q : p = p0 /\ q = g' OBVIOUS
<1>5. PICK sig : q = [p EXCEPT !.pending = @ \ {sig}] BY <1>4 DEF onUnixSignalReceived
<1>6. PICK sigs : sigs = p.pending \ {sig} OBVIOUS
<1>7. p \in Process BY <1>3, <1>4 DEF Settled
<1>8. sigs \subseteq {"SIGTERM", "SIGPIPE"} BY <1>6, <1>7, ProcessFields
<1>9. q = [p EXCEPT !.pending = sigs] BY <1>5, <1>6
<1>10. Settled(q, data, closed, runs) /\ q.client = p.client
  BY <1>3, <1>4, <1>8, <1>9, SettledPending, SMT
<1>11. Goes BY <1>3, <1>4, <1>10 DEF Goes, Loses
<1>12. MainLoopInv' BY <1>1, <1>4, <1>10 DEF MainLoopInv
<1> QED BY <1>11, <1>12

\* MainLoopApplication::run
LEMMA Runs ==
  ASSUME MainLoopInv, NEW timed \in BOOLEAN, run(timed)
  PROVE  MainLoopInv' /\ Goes
<1>0. runs \in 0 .. MaxRuns /\ MaxRuns \in Nat /\ Settled(g, data, closed, runs)
  BY MainLoopAssumption DEF MainLoopInv
<1>1. /\ runs < MaxRuns /\ runs' = runs + 1 /\ UNCHANGED <<data, closed, due>>
      /\ g' = IF timed THEN attach(setupSignalHandling(g), <<"timeout", runs + 1>>)
              ELSE setupSignalHandling(g)
  BY DEF run, peerVars, clockVars
<1>2. PICK n, m : n = runs /\ m = runs + 1 OBVIOUS
<1>3. n \in Nat /\ m \in 1 .. MaxRuns /\ m \in 0 .. MaxRuns /\ n <= m /\ m <= m /\ m \in Nat /\ ~(m <= n)
  BY <1>0, <1>1, <1>2, SMT
<1>4. RunsKnown(g, n) BY <1>0, <1>2 DEF Settled
<1>5. <<"signal", m>> \notin Range(g.attached) /\ <<"timeout", m>> \notin Range(g.attached)
  BY <1>3, <1>4 DEF RunsKnown
<1>6. PICK h, p : h = <<"signal", m>> /\ p = attach(g, h) OBVIOUS
<1>7. Settled(p, data, closed, m) /\ p.client = g.client
      /\ Range(p.attached) = Range(g.attached) \cup {h}
  <2>1. /\ Settled(g, data, closed, n) /\ h \notin Range(g.attached)
        /\ \E k \in {"signal", "timeout"} : h = <<k, m>>
    BY <1>0, <1>2, <1>5, <1>6
  <2>2. /\ Settled(attach(g, h), data, closed, m) /\ attach(g, h).client = g.client
        /\ Range(attach(g, h).attached) = Range(g.attached) \cup {h}
    BY ONLY <1>3, <2>1, SettledRun
  <2> QED BY <1>6, <2>2
<1>8. PICK t, q : t = <<"timeout", m>> /\ q = attach(p, t) OBVIOUS
<1>9. Settled(q, data, closed, m) /\ q.client = p.client
  <2>1. t \notin Range(p.attached) /\ \E k \in {"signal", "timeout"} : t = <<k, m>>
    BY <1>5, <1>6, <1>7, <1>8
  <2>2. Settled(attach(p, t), data, closed, m) /\ attach(p, t).client = p.client
    BY ONLY <1>3, <1>7, <2>1, SettledRun
  <2> QED BY <1>8, <2>2
<1>10. g' = p \/ g' = q BY <1>1, <1>2, <1>6, <1>8 DEF setupSignalHandling
<1>11. g'.client = g.client BY <1>7, <1>9, <1>10
<1>12. PICK u : u = g' OBVIOUS
<1>13. Settled(u, data, closed, m) BY <1>7, <1>9, <1>10, <1>12
<1>14. Goes BY <1>11 DEF Goes, Loses
<1>15. MainLoopInv' BY <1>1, <1>2, <1>3, <1>12, <1>13 DEF MainLoopInv
<1> QED BY <1>14, <1>15

\* The peers, the clock and the kernel.
LEMMA Connects ==
  ASSUME MainLoopInv, NEW c \in Client, connect(c)
  PROVE  MainLoopInv' /\ Goes
<1>1. /\ g.client[c] = "none" /\ UNCHANGED <<runs, data, closed, due>>
      /\ g' = [g EXCEPT !.client[c] = "connecting"]
  BY DEF connect, peerVars, clockVars
<1>2. Settled(g, data, closed, runs) BY DEF MainLoopInv
<1>3. g \in Process /\ Sources(g) /\ Living(g) BY <1>2 DEF Settled
<1>4. PICK f, q : f = [g.client EXCEPT ![c] = "connecting"] /\ q = g' OBVIOUS
<1>5. f \in [Client -> {"none", "connecting", "connected", "disconnected", "deleted"}]
  BY <1>3, <1>4, ProcessFields
<1>6. q = [g EXCEPT !.client = f] BY <1>1, <1>4
<1>7. /\ q \in Process
      /\ q.attached = g.attached /\ q.ready = g.ready /\ q.m_source = g.m_source
      /\ q.inputSourceID = g.inputSourceID /\ q.m_isInputWatched = g.m_isInputWatched
      /\ q.client = f /\ q.pending = g.pending
  BY <1>3, <1>5, <1>6 DEF Process
<1>8. \A d \in Client : q.client[d] = IF d = c THEN "connecting" ELSE g.client[d]
  BY <1>3, <1>4, <1>7, ProcessFields, SMT
<1>9. Living(q)
  <2> SUFFICES ASSUME NEW w \in Watch
               PROVE  /\ q.inputSourceID[w] => q.client[w[1]] = "connected"
                      /\ q.m_isInputWatched[w] => q.client[w[1]] \notin {"none", "connecting"}
    BY DEF Living
  <2>1. w[1] \in Client BY Hooks
  <2>2. /\ g.inputSourceID[w] => g.client[w[1]] = "connected"
        /\ g.m_isInputWatched[w] => g.client[w[1]] \notin {"none", "connecting"}
        /\ g.inputSourceID[w] => g.m_isInputWatched[w]
    BY <1>3 DEF Living, Sources
  <2>3. CASE w[1] = c BY <1>1, <1>7, <2>2, <2>3
  <2>4. CASE w[1] # c BY <1>7, <1>8, <2>1, <2>2, <2>4
  <2> QED BY <2>3, <2>4
<1>10. Settled(q, data, closed, runs)
  BY <1>2, <1>7, <1>9 DEF Settled, Sources, Ordered, Served, RunsKnown
<1>11. Goes BY <1>1, <1>4, <1>8 DEF Goes, Loses
<1>12. MainLoopInv' BY <1>1, <1>4, <1>10 DEF MainLoopInv
<1> QED BY <1>11, <1>12

LEMMA Sends ==
  ASSUME MainLoopInv, NEW c \in Client, peerSends(c)
  PROVE  MainLoopInv' /\ Goes
<1>1. /\ UNCHANGED <<g, runs, closed, due>> /\ data' = [data EXCEPT ![c] = @ + 1]
      /\ c \notin closed
  BY DEF peerSends, clockVars
<1>2. Settled(g, data, closed, runs) /\ data \in [Client -> Nat] BY DEF MainLoopInv
<1>3. PICK left : left = data' OBVIOUS
<1>4. left \in [Client -> Nat] /\ \A d \in Client : d # c => left[d] = data[d] BY <1>1, <1>2, <1>3, SMT
<1>5. Served(g, left, closed)
  <2>1. Served(g, data, closed) BY <1>2 DEF Settled
  <2> QED BY <1>1, <1>4, <2>1 DEF Served
<1>6. Settled(g, left, closed, runs) BY <1>2, <1>5 DEF Settled
<1>7. Goes BY <1>1 DEF Goes, Loses
<1>8. MainLoopInv' BY <1>1, <1>3, <1>4, <1>6 DEF MainLoopInv
<1> QED BY <1>7, <1>8

LEMMA Closes ==
  ASSUME MainLoopInv, NEW c \in Client, peerCloses(c)
  PROVE  MainLoopInv' /\ Goes
<1>1. UNCHANGED <<g, runs, data, due>> /\ closed' = closed \cup {c} BY DEF peerCloses, clockVars
<1>2. Settled(g, data, closed, runs) BY DEF MainLoopInv
<1>3. PICK gone : gone = closed' OBVIOUS
<1>4. Settled(g, data, gone, runs)
  <2>1. Served(g, data, closed) BY <1>2 DEF Settled
  <2>2. Served(g, data, gone) BY <1>1, <1>3, <2>1 DEF Served
  <2> QED BY <1>2, <2>2 DEF Settled
<1>5. Goes BY <1>1 DEF Goes, Loses
<1>6. MainLoopInv' BY <1>1, <1>3, <1>4 DEF MainLoopInv
<1> QED BY <1>5, <1>6

LEMMA Expires ==
  ASSUME MainLoopInv, timerExpires \/ \E r \in 1 .. MaxRuns : timeoutExpires(r)
  PROVE  MainLoopInv' /\ Goes
<1>1. UNCHANGED <<g, runs, data, closed>>
      /\ \E h : h \notin Watch /\ due' = due \cup {h}
  <2>1. timer \notin Watch /\ \A r : <<"timeout", r>> \notin Watch BY Hooks
  <2> QED BY <2>1 DEF timerExpires, timeoutExpires, peerVars
<1>2. due' \cap Watch = {} BY <1>1 DEF MainLoopInv
<1>3. Goes BY <1>1 DEF Goes, Loses
<1>4. MainLoopInv' BY <1>1, <1>2 DEF MainLoopInv
<1> QED BY <1>3, <1>4

LEMMA Signalled ==
  ASSUME MainLoopInv, NEW sig \in {"SIGTERM", "SIGPIPE"}, signalArrives(sig)
  PROVE  MainLoopInv' /\ Goes
<1>1. UNCHANGED <<runs, data, closed, due>> /\ g' = [g EXCEPT !.pending = @ \cup {sig}]
  BY DEF signalArrives, peerVars, clockVars
<1>2. Settled(g, data, closed, runs) BY DEF MainLoopInv
<1>3. g \in Process BY <1>2 DEF Settled
<1>4. PICK sigs, q : sigs = g.pending \cup {sig} /\ q = g' OBVIOUS
<1>5. sigs \subseteq {"SIGTERM", "SIGPIPE"} BY <1>3, <1>4, ProcessFields
<1>6. q = [g EXCEPT !.pending = sigs] BY <1>1, <1>4
<1>7. Settled(q, data, closed, runs) /\ q.client = g.client BY <1>2, <1>5, <1>6, SettledPending, SMT
<1>8. Goes BY <1>4, <1>7 DEF Goes, Loses
<1>9. MainLoopInv' BY <1>1, <1>4, <1>7 DEF MainLoopInv
<1> QED BY <1>8, <1>9

LEMMA Initially == Init => MainLoopInv
<1> SUFFICES ASSUME Init PROVE MainLoopInv
  OBVIOUS
<1>0. /\ g.attached = <<timer, server>> /\ g.ready = <<>> /\ g.m_source = FALSE
      /\ g.inputSourceID = [w \in Watch |-> FALSE] /\ g.m_isInputWatched = [w \in Watch |-> FALSE]
      /\ g.client = [c \in Client |-> "none"] /\ g.pending = {}
  BY DEF Init
<1>1. <<timer, server>> \in Seq(Hook) /\ <<>> \in Seq(Hook) BY Hooks, SMT
<1>2. g \in Process BY <1>1 DEF Init, Process
<1>seq. g.attached \in Seq(Hook) /\ g.ready \in Seq(Hook) BY <1>0, <1>1
<1>3. /\ \A x : x \in Range(g.attached) <=> x = timer \/ x = server
      /\ \A x : x \notin Range(g.ready)
      /\ IsInjective(g.attached) /\ IsInjective(g.ready)
  <2>1. timer # server BY DEF timer, server
  <2>2. \A x : x \in Range(g.attached) <=> \E i \in 1 .. Len(g.attached) : x = g.attached[i]
    BY <1>seq, EntriesOfSeq
  <2>3. Len(g.attached) = 2 /\ g.attached[1] = timer /\ g.attached[2] = server BY <1>0, SMT
  <2>4. \A x : x \in Range(g.attached) <=> x = timer \/ x = server BY <2>2, <2>3, SMT
  <2>5. \A x : x \in Range(g.ready) <=> \E i \in 1 .. Len(g.ready) : x = g.ready[i]
    BY <1>seq, EntriesOfSeq
  <2>6. Len(g.ready) = 0 BY <1>0, SMT
  <2>7. \A x : x \notin Range(g.ready) BY <2>5, <2>6, SMT
  <2>8. IsInjective(g.attached) <=>
          (\A i, j \in 1 .. Len(g.attached) : g.attached[i] = g.attached[j] => i = j)
    BY <1>seq, InjectiveSeq
  <2>9. IsInjective(g.attached) BY <2>1, <2>3, <2>8, SMT
  <2>10. IsInjective(g.ready) <=>
           (\A i, j \in 1 .. Len(g.ready) : g.ready[i] = g.ready[j] => i = j)
    BY <1>seq, InjectiveSeq
  <2>11. IsInjective(g.ready) BY <2>6, <2>10, SMT
  <2> QED BY <2>4, <2>7, <2>9, <2>11
<1>4. timer # idle /\ server # idle BY DEF timer, server, idle
<1>5. \A w \in Watch : ~g.inputSourceID[w] /\ ~g.m_isInputWatched[w] /\ w \notin Range(g.attached)
  BY <1>0, <1>3, Hooks, SMT
<1>6. Sources(g)
  <2>1. g.m_source = (idle \in Range(g.attached))
    <3>1. idle \notin Range(g.attached) BY <1>3, <1>4
    <3>2. (idle \in Range(g.attached)) = FALSE BY <3>1, SMT
    <3> QED BY <1>0, <3>2
  <2>2. \A w \in Watch : g.inputSourceID[w] = (w \in Range(g.attached))
    <3>1. \A w \in Watch : g.inputSourceID[w] = FALSE BY <1>0
    <3>2. \A w \in Watch : (w \in Range(g.attached)) = FALSE BY <1>5, SMT
    <3> QED BY <3>1, <3>2
  <2> QED BY <1>3, <1>5, <2>1, <2>2 DEF Sources
<1>7. Living(g) BY <1>5 DEF Living
<1>8. \A c \in Client : <<c, "hup">> \in Watch BY Hooks DEF Event
<1>9. Ordered(g) /\ Served(g, data, closed) BY <1>3, <1>5, <1>8 DEF Ordered, Served
<1>10. RunsKnown(g, runs)
  <2>1. \A k \in {"signal", "timeout"}, r \in 1 .. MaxRuns : <<k, r>> # timer /\ <<k, r>> # server
    BY DEF timer, server
  <2> QED BY <1>3, <2>1, SMT DEF RunsKnown
<1>11. /\ runs \in 0 .. MaxRuns /\ data \in [Client -> Nat] /\ closed \subseteq Client
       /\ due \cap Watch = {}
  BY MainLoopAssumption, SMT DEF Init
<1> QED BY <1>2, <1>6, <1>7, <1>9, <1>10, <1>11 DEF MainLoopInv, Settled

\* MainLoopInv is an inductive invariant, and a client that is taken for gone
\* while it has data left is one to which a message could not be written.
LEMMA Step ==
  ASSUME MainLoopInv, [Next]_vars
  PROVE  MainLoopInv' /\ Goes
<1>1. CASE UNCHANGED vars
  <2>1. UNCHANGED <<g, runs, data, closed, due>> BY <1>1 DEF vars, peerVars, clockVars
  <2> QED BY <2>1 DEF MainLoopInv, Goes, Loses
<1>2. CASE \E c \in Client : connect(c) \/ peerSends(c) \/ peerCloses(c)
  BY <1>2, Connects, Sends, Closes
<1>3. CASE timerExpires \/ \E r \in 1 .. MaxRuns : timeoutExpires(r) BY <1>3, Expires
<1>4. CASE \E sig \in {"SIGTERM", "SIGPIPE"} : signalArrives(sig) BY <1>4, Signalled
<1>5. CASE \E timed \in BOOLEAN : run(timed) BY <1>5, Runs
<1>6. CASE poll BY <1>6, Polls
<1>7. CASE handleNewConnection \/ onIdle \/ onTimerCallback BY <1>7, Accepts, Cleans, Ticks
<1>8. CASE \E c \in Client : onIncomingDataAvailable(c) \/ onHangUp(c) BY <1>8, Reads, HangsUp
<1>9. CASE \E r \in 1 .. MaxRuns : timeout_callback(r) \/ onUnixSignalReceived(r)
  BY <1>9, TimesOut, ReadsSignal
<1>10. CASE runReturns
  <2>1. UNCHANGED <<g, runs, data, closed, due>> BY <1>10 DEF runReturns, peerVars, clockVars
  <2> QED BY <2>1 DEF MainLoopInv, Goes, Loses
<1> QED
  BY <1>1, <1>2, <1>3, <1>4, <1>5, <1>6, <1>7, <1>8, <1>9, <1>10 DEF Next, Outside, Callback

-----------------------------------------------------------------------------
\* The hooks know their sources, only connected clients are watched, and what
\* is ready is still attached, in every state of the main loop.
THEOREM Invariance == Spec => []MainLoopInv
<1>1. MainLoopInv /\ [Next]_vars => MainLoopInv' BY Step
<1> QED BY <1>1, Initially, PTL DEF Spec

\* No callback reaches a client that has been disconnected or deleted, even if
\* its sources were ready in the iteration in which that happened
\* (LocalClient::onDisconnected disables the watches before
\* Dispatcher::cleanDisconnectedClients deletes the client).
THEOREM LivingReached == Spec => []CallbacksReachTheLiving
<1>1. MainLoopInv => CallbacksReachTheLiving
  BY DEF MainLoopInv, Settled, Sources, Living, CallbacksReachTheLiving
<1> QED BY <1>1, Invariance, PTL

\* What a client sent before it closed its connection is read before the
\* client is taken for gone, unless a message could not be written to it
\* (LocalClient::initConnection enables the watch for data first).
THEOREM LastWordsRead == Spec => LastWordsAreRead
<1>1. MainLoopInv /\ [Next]_vars =>
        [\A c \in Client :
           g.client[c] = "connected" /\ g'.client[c] = "disconnected" /\ data'[c] > 0
             => "SIGPIPE" \in g'.pending /\ Head(g.ready)[2] = "in"]_vars
  BY Step DEF Goes, Loses
<1> QED BY <1>1, Invariance, PTL DEF Spec, LastWordsAreRead
=============================================================================
