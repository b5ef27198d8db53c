---------------------------- MODULE UsbHidProofs ----------------------------
(***************************************************************************)
(* Theorems about UsbHid, for any size of the line and of the reports, any *)
(* key codes and any number of bytes.                                      *)
(*                                                                         *)
(* A byte moves in three ways: it is put into the line, the line is moved  *)
(* to what was sent, or there was no room for it.  The lemmas say of each  *)
(* invariant what these moves do to it, for any two sequences S of chunks  *)
(* and L, the line; t says which bytes are newlines.                       *)
(***************************************************************************)
EXTENDS UsbHid, FiniteSetTheorems, SequenceTheorems, TLAPS

CutIn(t, chunk)   == chunk # <<>> /\ ~t[chunk[Len(chunk)]]

FramingOf(t, S, L) ==
  /\ \A i \in 1..Len(S) :
       /\ \A j \in 1..Len(S[i]) - 1 : ~t[S[i][j]]
       /\ CutIn(t, S[i]) => Len(S[i]) = LineSize - 1
       /\ S[i] = <<>> => i > 1 /\ CutIn(t, S[i - 1])
  /\ \A j \in 1..Len(L) : ~t[L[j]]

OrderOf(S, L) ==
  /\ Ascending(L)
  /\ \A i \in 1..Len(S) :
       /\ Ascending(S[i])
       /\ \A a \in 1..Len(S[i]) :
            /\ \A j \in i + 1..Len(S) : \A b \in 1..Len(S[j]) : S[i][a] < S[j][b]
            /\ \A b \in 1..Len(L) : S[i][a] < L[b]

KeptIn(S, L, n) ==
  \/ \E i \in 1..Len(S) : \E j \in 1..Len(S[i]) : S[i][j] = n
  \/ \E j \in 1..Len(L) : L[j] = n

CutsOf(t, S) == {i \in 1..Len(S) : CutIn(t, S[i])}

LEMMA Named ==
  /\ Framing <=> FramingOf(typed, sent, internal_buffer)
  /\ TypedOrder <=> OrderOf(sent, internal_buffer)
  /\ \A n : Kept(n) <=> KeptIn(sent, internal_buffer, n)
  /\ {i \in 1..Len(sent) : WasCut(sent[i])} = CutsOf(typed, sent)
<1>1. Framing <=> FramingOf(typed, sent, internal_buffer)
  BY DEF Framing, FramingOf, WasCut, CutIn, buf_index
<1>2. TypedOrder <=> OrderOf(sent, internal_buffer)
  BY DEF TypedOrder, OrderOf, buf_index
<1>3. \A n : Kept(n) <=> KeptIn(sent, internal_buffer, n)
  BY DEF Kept, KeptIn, buf_index
<1>4. {i \in 1..Len(sent) : WasCut(sent[i])} = CutsOf(typed, sent)
  BY DEF CutsOf, CutIn, WasCut
<1> QED
  BY <1>1, <1>2, <1>3, <1>4

-----------------------------------------------------------------------------
LEMMA UpTo ==
  ASSUME NEW n \in Nat, NEW i \in Nat, NEW j \in i + 1..n + 1
  PROVE  j \in 1..n \/ j = n + 1
OBVIOUS

(* What was sent is longer by a chunk.                                     *)
LEMMA OneMore ==
  ASSUME NEW D, NEW S \in Seq(D), NEW c \in D
  PROVE  /\ Append(S, c) \in Seq(D)
         /\ Len(Append(S, c)) = Len(S) + 1
         /\ Len(S) \in Nat
         /\ \A i \in 1..Len(S) : Append(S, c)[i] = S[i]
         /\ Append(S, c)[Len(S) + 1] = c
OBVIOUS

(* Moving the line to what was sent keeps the order ...                    *)
LEMMA OrderMoves ==
  ASSUME NEW N \in Nat, NEW S \in Seq(Seq(1..N)), NEW L \in Seq(1..N),
         OrderOf(S, L)
  PROVE  OrderOf(Append(S, L), <<>>)
<1> DEFINE T == Append(S, L)
<1>1. /\ Len(T) = Len(S) + 1 /\ Len(S) \in Nat
      /\ \A i \in 1..Len(S) : T[i] = S[i]
      /\ T[Len(S) + 1] = L
  BY OneMore
<1> HIDE DEF T
<1>0. /\ Ascending(L)
      /\ \A i \in 1..Len(S) : Ascending(S[i])
      /\ \A i \in 1..Len(S) : \A a \in 1..Len(S[i]) :
           \A j \in i + 1..Len(S) : \A b \in 1..Len(S[j]) : S[i][a] < S[j][b]
      /\ \A i \in 1..Len(S) : \A a \in 1..Len(S[i]) :
           \A b \in 1..Len(L) : S[i][a] < L[b]
  BY DEF OrderOf
<1>2. ASSUME NEW i \in 1..Len(T) PROVE Ascending(T[i])
  <2>1. i \in 1..Len(S) \/ i = Len(S) + 1
    BY <1>1
  <2> QED
    BY <1>0, <1>1, <2>1
<1>3. ASSUME NEW i \in 1..Len(T), NEW a \in 1..Len(T[i]),
             NEW j \in i + 1..Len(T), NEW b \in 1..Len(T[j])
      PROVE  T[i][a] < T[j][b]
  <2>1. i \in 1..Len(S) /\ T[i] = S[i]
    BY <1>1, <1>3
  <2>2. CASE j \in 1..Len(S)
    <3>1. T[j] = S[j]
      BY <1>1, <2>2
    <3>2. j \in i + 1..Len(S)
      <4>1. i \in Nat /\ Len(S) \in Nat
        BY <1>1, <2>1
      <4> QED
        BY <2>2, <4>1
    <3> QED
      BY <1>0, <2>1, <3>1, <3>2
  <2>3. CASE j = Len(S) + 1
    <3>1. T[j] = L
      BY <1>1, <2>3
    <3> QED
      BY <1>0, <2>1, <3>1
  <2>4. j \in 1..Len(S) \/ j = Len(S) + 1
    <3>1. Len(T) = Len(S) + 1 /\ Len(S) \in Nat
      BY <1>1
    <3>2. i \in Nat
      BY <2>1
    <3>3. j \in i + 1..Len(S) + 1
      BY <3>1
    <3> QED
      BY <3>1, <3>2, <3>3, UpTo, Zenon
  <2> QED
    BY <2>2, <2>3, <2>4
<1>4. Ascending(<<>>)
  BY DEF Ascending
<1>5. Len(<<>>) = 0
  OBVIOUS
<1>6. OrderOf(T, <<>>)
  BY <1>2, <1>3, <1>4, <1>5 DEF OrderOf
<1> QED
  BY <1>6 DEF T

(* ... and so does a byte later than all of them at the end of the line.   *)
LEMMA OrderGrows ==
  ASSUME NEW N \in Nat, NEW S \in Seq(Seq(1..N)), NEW L \in Seq(1..N),
         OrderOf(S, L)
  PROVE  OrderOf(S, Append(L, N + 1))
<1> DEFINE M == Append(L, N + 1)
<1>1. /\ Len(M) = Len(L) + 1 /\ Len(L) \in Nat
      /\ \A i \in 1..Len(L) : M[i] = L[i] /\ L[i] \in 1..N
      /\ M[Len(L) + 1] = N + 1
  <2>1. L \in Seq(1..N + 1)
    OBVIOUS
  <2> QED
    BY <2>1, OneMore
<1> HIDE DEF M
<1>2. Ascending(M)
  <2> SUFFICES ASSUME NEW i \in 1..Len(M), NEW j \in 1..Len(M), i < j
               PROVE  M[i] < M[j]
    BY DEF Ascending
  <2>1. i \in 1..Len(L)
    BY <1>1
  <2>2. CASE j \in 1..Len(L)
    BY <1>1, <2>1, <2>2 DEF OrderOf, Ascending
  <2>3. CASE j = Len(L) + 1
    <3>1. M[i] \in 1..N /\ M[j] = N + 1
      BY <1>1, <2>1, <2>3
    <3> QED
      BY <3>1
  <2>4. j \in 1..Len(L) \/ j = Len(L) + 1
    BY <1>1, <2>1
  <2> QED
    BY <2>2, <2>3, <2>4
<1>3. ASSUME NEW i \in 1..Len(S), NEW a \in 1..Len(S[i]), NEW b \in 1..Len(M)
      PROVE  S[i][a] < M[b]
  <2>1. S[i][a] \in 1..N
    <3>1. S[i] \in Seq(1..N)
      OBVIOUS
    <3> QED
      BY <3>1, ElementOfSeq
  <2>2. CASE b \in 1..Len(L)
    <3>1. S[i][a] < L[b]
      BY <2>2 DEF OrderOf
    <3> QED
      BY <1>1, <2>2, <3>1
  <2>3. CASE b = Len(L) + 1
    <3>1. M[b] = N + 1
      BY <1>1, <2>3
    <3> QED
      BY <2>1, <3>1
  <2>4. b \in 1..Len(L) \/ b = Len(L) + 1
    <3>1. Len(M) = Len(L) + 1 /\ Len(L) \in Nat
      BY <1>1
    <3>2. b \in 0 + 1..Len(L) + 1
      BY <3>1
    <3> QED
      BY <3>1, <3>2, UpTo
  <2> QED
    BY <2>2, <2>3, <2>4
<1> QED
  BY <1>2, <1>3 DEF OrderOf, M

-----------------------------------------------------------------------------
(* Framing, for each of the chunks that are sent.                          *)

(* A later byte changes nothing of what is there.                          *)
LEMMA FramingLater ==
  ASSUME NEW t \in Seq(BOOLEAN), NEW x \in BOOLEAN,
         NEW S \in Seq(Seq(1..Len(t))), NEW L \in Seq(1..Len(t)),
         FramingOf(t, S, L)
  PROVE  FramingOf(Append(t, x), S, L)
<1> DEFINE u == Append(t, x)
<1>1. \A n \in 1..Len(t) : u[n] = t[n]
  OBVIOUS
<1> HIDE DEF u
<1>2. \A j \in 1..Len(L) : L[j] \in 1..Len(t)
  BY ElementOfSeq
<1>3. ASSUME NEW i \in 1..Len(S)
      PROVE  /\ \A j \in 1..Len(S[i]) : S[i][j] \in 1..Len(t)
             /\ CutIn(u, S[i]) <=> CutIn(t, S[i])
  <2>1. S[i] \in Seq(1..Len(t))
    BY ElementOfSeq
  <2>2. \A j \in 1..Len(S[i]) : S[i][j] \in 1..Len(t)
    BY <2>1, ElementOfSeq
  <2>3. S[i] # <<>> => Len(S[i]) \in 1..Len(S[i])
    BY <2>1
  <2>4. S[i] # <<>> => u[S[i][Len(S[i])]] = t[S[i][Len(S[i])]]
    BY <1>1, <2>2, <2>3
  <2> QED
    BY <2>2, <2>4 DEF CutIn
<1>4. ASSUME NEW i \in 1..Len(S), NEW j \in 1..Len(S[i]) - 1
      PROVE  ~u[S[i][j]]
  <2>1. S[i] \in Seq(1..Len(t))
    BY ElementOfSeq
  <2>2. j \in 1..Len(S[i])
    BY <2>1
  <2>3. u[S[i][j]] = t[S[i][j]]
    BY <1>1, <1>3, <2>2
  <2>4. ~t[S[i][j]]
    BY DEF FramingOf
  <2> QED
    BY <2>3, <2>4
<1>5. ASSUME NEW i \in 1..Len(S)
      PROVE  /\ CutIn(u, S[i]) => Len(S[i]) = LineSize - 1
             /\ S[i] = <<>> => i > 1 /\ CutIn(u, S[i - 1])
  <2>1. CutIn(u, S[i]) => Len(S[i]) = LineSize - 1
    BY <1>3 DEF FramingOf
  <2>2. ASSUME S[i] = <<>> PROVE i > 1 /\ CutIn(u, S[i - 1])
    <3>1. i > 1 /\ CutIn(t, S[i - 1])
      BY <2>2 DEF FramingOf
    <3>2. i - 1 \in 1..Len(S)
      BY <3>1
    <3> QED
      BY <1>3, <3>1, <3>2
  <2> QED
    BY <2>1, <2>2
<1>6. ASSUME NEW j \in 1..Len(L) PROVE ~u[L[j]]
  BY <1>1, <1>2 DEF FramingOf
<1> QED
  BY <1>4, <1>5, <1>6 DEF FramingOf, u

(* A chunk that may follow what was sent: it ends a line, or it was cut,   *)
(* or it is empty and follows one that was.                                *)
MayFollow(t, S, c) ==
  /\ \A j \in 1..Len(c) - 1 : ~t[c[j]]
  /\ CutIn(t, c) => Len(c) = LineSize - 1
  /\ c = <<>> => Len(S) > 0 /\ CutIn(t, S[Len(S)])

LEMMA FramingMoves ==
  ASSUME NEW t, NEW D, NEW S \in Seq(D), NEW L, NEW c \in D,
         FramingOf(t, S, L), MayFollow(t, S, c)
  PROVE  FramingOf(t, Append(S, c), <<>>)
<1> DEFINE T == Append(S, c)
<1>1. /\ Len(T) = Len(S) + 1 /\ Len(S) \in Nat
      /\ \A i \in 1..Len(S) : T[i] = S[i]
      /\ T[Len(S) + 1] = c
  BY OneMore
<1> HIDE DEF T
<1>2. ASSUME NEW i \in 1..Len(T)
      PROVE  /\ \A j \in 1..Len(T[i]) - 1 : ~t[T[i][j]]
             /\ CutIn(t, T[i]) => Len(T[i]) = LineSize - 1
             /\ T[i] = <<>> => i > 1 /\ CutIn(t, T[i - 1])
  <2>1. CASE i \in 1..Len(S)
    <3>1. T[i] = S[i]
      BY <1>1, <2>1
    <3>2. ASSUME T[i] = <<>> PROVE i > 1 /\ CutIn(t, T[i - 1])
      <4>1. i > 1 /\ CutIn(t, S[i - 1])
        BY <2>1, <3>1, <3>2 DEF FramingOf
      <4>2. i - 1 \in 1..Len(S)
        BY <1>1, <2>1, <4>1
      <4> QED
        BY <1>1, <4>1, <4>2
    <3> QED
      BY <2>1, <3>1, <3>2 DEF FramingOf
  <2>2. CASE i = Len(S) + 1
    <3>1. T[i] = c
      BY <1>1, <2>2
    <3>2. ASSUME T[i] = <<>> PROVE i > 1 /\ CutIn(t, T[i - 1])
      <4>1. Len(S) > 0 /\ CutIn(t, S[Len(S)])
        BY <3>1, <3>2 DEF MayFollow
      <4>2. i - 1 = Len(S) /\ Len(S) \in 1..Len(S)
        BY <1>1, <2>2, <4>1
      <4>3. T[Len(S)] = S[Len(S)]
        BY <1>1, <4>2
      <4> QED
        BY <1>1, <2>2, <4>1, <4>2, <4>3
    <3> QED
      BY <3>1, <3>2 DEF MayFollow
  <2>3. i \in 1..Len(S) \/ i = Len(S) + 1
    BY <1>1
  <2> QED
    BY <2>1, <2>2, <2>3
<1>3. Len(<<>>) = 0
  OBVIOUS
<1> QED
  BY <1>2, <1>3 DEF FramingOf, T

LEMMA FramingGrows ==
  ASSUME NEW t, NEW D, NEW S, NEW L \in Seq(D), NEW b \in D,
         FramingOf(t, S, L), ~t[b]
  PROVE  FramingOf(t, S, Append(L, b))
<1> DEFINE M == Append(L, b)
<1>1. /\ Len(M) = Len(L) + 1 /\ Len(L) \in Nat
      /\ \A i \in 1..Len(L) : M[i] = L[i]
      /\ M[Len(L) + 1] = b
  BY OneMore
<1> HIDE DEF M
<1>2. ASSUME NEW j \in 1..Len(M) PROVE ~t[M[j]]
  <2>1. j \in 1..Len(L) \/ j = Len(L) + 1
    BY <1>1
  <2> QED
    BY <1>1, <2>1 DEF FramingOf
<1> QED
  BY <1>2 DEF FramingOf, M

-----------------------------------------------------------------------------
(* Which bytes are there, and how many lines were cut.                     *)
LEMMA KeptMoves ==
  ASSUME NEW D, NEW S \in Seq(Seq(D)), NEW L \in Seq(D), NEW n
  PROVE  KeptIn(Append(S, L), <<>>, n) <=> KeptIn(S, L, n)
<1> DEFINE T == Append(S, L)
<1>1. /\ Len(T) = Len(S) + 1 /\ Len(S) \in Nat
      /\ \A i \in 1..Len(S) : T[i] = S[i]
      /\ T[Len(S) + 1] = L
  BY OneMore
<1> HIDE DEF T
<1>0. \A i \in 1..Len(T) : i \in 1..Len(S) \/ i = Len(S) + 1
  BY <1>1
<1>2. KeptIn(T, <<>>, n) <=> \E i \in 1..Len(T) : \E j \in 1..Len(T[i]) : T[i][j] = n
  <2>1. 1..Len(<<>>) = {}
    OBVIOUS
  <2> QED
    BY <2>1 DEF KeptIn
<1>3. ASSUME NEW i \in 1..Len(T), NEW j \in 1..Len(T[i]), T[i][j] = n
      PROVE  KeptIn(S, L, n)
  BY <1>0, <1>1, <1>3 DEF KeptIn
<1>4. ASSUME KeptIn(S, L, n)
      PROVE  \E i \in 1..Len(T) : \E j \in 1..Len(T[i]) : T[i][j] = n
  <2>1. Len(S) + 1 \in 1..Len(T) /\ 1..Len(S) \subseteq 1..Len(T)
    BY <1>1
  <2> QED
    BY <1>1, <1>4, <2>1 DEF KeptIn
<1> QED
  BY <1>2, <1>3, <1>4 DEF T

LEMMA KeptGrows ==
  ASSUME NEW D, NEW S, NEW L \in Seq(D), NEW b \in D, NEW n
  PROVE  KeptIn(S, Append(L, b), n) <=> KeptIn(S, L, n) \/ n = b
<1> DEFINE M == Append(L, b)
<1>1. /\ Len(M) = Len(L) + 1 /\ Len(L) \in Nat
      /\ \A i \in 1..Len(L) : M[i] = L[i]
      /\ M[Len(L) + 1] = b
  BY OneMore
<1> HIDE DEF M
<1>2. (\E j \in 1..Len(M) : M[j] = n) <=> (\E j \in 1..Len(L) : L[j] = n) \/ n = b
  <2>1. \A j \in 1..Len(M) : j \in 1..Len(L) \/ j = Len(L) + 1
    BY <1>1
  <2>2. Len(L) + 1 \in 1..Len(M) /\ 1..Len(L) \subseteq 1..Len(M)
    BY <1>1
  <2> QED
    BY <1>1, <2>1, <2>2
<1> QED
  BY <1>2 DEF KeptIn, M

LEMMA CutsMore ==
  ASSUME NEW t, NEW D, NEW S \in Seq(D), NEW c \in D
  PROVE  CutsOf(t, Append(S, c)) =
           CutsOf(t, S) \cup (IF CutIn(t, c) THEN {Len(S) + 1} ELSE {})
<1> DEFINE T == Append(S, c)
<1>1. /\ Len(T) = Len(S) + 1 /\ Len(S) \in Nat
      /\ \A i \in 1..Len(S) : T[i] = S[i]
      /\ T[Len(S) + 1] = c
  BY OneMore
<1> HIDE DEF T
<1>2. 1..Len(T) = 1..Len(S) \cup {Len(S) + 1}
  BY <1>1
<1> QED
  BY <1>1, <1>2 DEF CutsOf, T

-----------------------------------------------------------------------------
(* PutByte, as the moves that it is made of.                               *)

Byte == Len(typed) + 1

(* A byte of a line, the newline that ends it, a byte there was no room    *)
(* for, and a newline there was no room for.                               *)
Puts ==
  /\ typed' = Append(typed, FALSE) /\ ~Full
  /\ sent' = sent
  /\ internal_buffer' = Append(internal_buffer, Byte)

Closes ==
  /\ typed' = Append(typed, TRUE) /\ ~Full
  /\ sent' = Append(sent, Append(internal_buffer, Byte))
  /\ internal_buffer' = <<>>

Cuts ==
  /\ typed' = Append(typed, FALSE) /\ Full
  /\ sent' = Append(sent, internal_buffer)
  /\ internal_buffer' = <<>>

CutsAndCloses ==
  /\ typed' = Append(typed, TRUE) /\ Full
  /\ sent' = Append(Append(sent, internal_buffer), <<>>)
  /\ internal_buffer' = <<>>

LEMMA AtTheEnd ==
  ASSUME NEW D, NEW S \in Seq(D), NEW c \in D, NEW d \in D
  PROVE  /\ S \o <<>> \o <<>> = S
         /\ S \o <<>> \o <<d>> = Append(S, d)
         /\ S \o <<c>> \o <<>> = Append(S, c)
         /\ S \o <<c>> \o <<d>> = Append(Append(S, c), d)
<1>1. /\ S \o <<>> = S
      /\ \A T \in Seq(D) : T \o <<>> = T
  BY ConcatEmptySeq
<1>2. \A T \in Seq(D) : \A e \in D : T \o <<e>> = Append(T, e)
  BY AppendIsConcat
<1>3. Append(S, c) \in Seq(D)
  BY OneMore
<1> QED
  BY <1>1, <1>2, <1>3

LEMMA LineTypes ==
  ASSUME TypeOK
  PROVE  /\ Len(typed) \in Nat /\ Byte \in 1..Byte /\ Byte \in Nat
         /\ 1..Len(typed) \subseteq 1..Byte
         /\ internal_buffer \in Seq(1..Byte)
         /\ Append(internal_buffer, Byte) \in Seq(1..Byte)
         /\ <<>> \in Seq(1..Byte)
         /\ sent \in Seq(Seq(1..Byte))
<1>1. Len(typed) \in Nat /\ Byte \in 1..Byte /\ Byte \in Nat
  BY DEF TypeOK, Byte
<1>2. 1..Len(typed) \subseteq 1..Byte
  BY <1>1 DEF Byte
<1>3. internal_buffer \in Seq(1..Byte)
  BY <1>2, SeqMonotonic DEF TypeOK
<1>4. Append(internal_buffer, Byte) \in Seq(1..Byte)
  BY <1>1, <1>3, OneMore
<1>5. Seq(1..Len(typed)) \subseteq Seq(1..Byte)
  BY <1>2, SeqMonotonic
<1>6. sent \in Seq(Seq(1..Byte))
  BY <1>5, SeqMonotonic DEF TypeOK
<1> QED
  BY <1>1, <1>2, <1>3, <1>4, <1>6

LEMMA PutByteMoves ==
  ASSUME TypeOK, PutByte
  PROVE  Puts \/ Closes \/ Cuts \/ CutsAndCloses
<1> DEFINE D == Seq(1..Byte)
           L == internal_buffer
           M == Append(internal_buffer, Byte)
<1>1. sent \in Seq(D) /\ L \in D /\ M \in D /\ <<>> \in D
  BY LineTypes
<1> HIDE DEF D, L, M
<1>2. /\ sent \o <<>> \o <<>> = sent
      /\ sent \o <<>> \o <<M>> = Append(sent, M)
      /\ sent \o <<L>> \o <<>> = Append(sent, L)
      /\ sent \o <<L>> \o <<(<<>>)>> = Append(Append(sent, L), <<>>)
  BY <1>1, AtTheEnd
<1>3. CASE str = "NL" /\ Full
  BY <1>2, <1>3 DEF PutByte, cut, line, CutsAndCloses, Byte, L, M
<1>4. CASE str # "NL" /\ Full
  BY <1>2, <1>4 DEF PutByte, cut, line, Cuts, Byte, L, M
<1>5. CASE str = "NL" /\ ~Full
  BY <1>2, <1>5 DEF PutByte, cut, line, Closes, Byte, L, M
<1>6. CASE str # "NL" /\ ~Full
  BY <1>2, <1>6 DEF PutByte, cut, line, Puts, Byte, L, M
<1> QED
  BY <1>3, <1>4, <1>5, <1>6

-----------------------------------------------------------------------------
(* The four moves and the invariants.                                      *)
Move == Puts \/ Closes \/ Cuts \/ CutsAndCloses

LEMMA TypedGrows ==
  ASSUME TypeOK, Move
  PROVE  /\ typed' \in Seq(BOOLEAN) /\ Len(typed') = Byte
         /\ \A n \in 1..Len(typed) : typed'[n] = typed[n]
         /\ (Closes \/ CutsAndCloses) => typed'[Byte]
         /\ (Puts \/ Cuts) => ~typed'[Byte]
<1>1. PICK x \in BOOLEAN :
        /\ typed' = Append(typed, x)
        /\ (Closes \/ CutsAndCloses) => x
        /\ (Puts \/ Cuts) => ~x
  <2>1. CASE Puts \/ Cuts
    <3>1. ~(Closes \/ CutsAndCloses)
      <4>1. Append(typed, TRUE)[Byte] = TRUE /\ Append(typed, FALSE)[Byte] = FALSE
        BY AppendProperties DEF TypeOK, Byte
      <4> QED
        BY <2>1, <4>1 DEF Puts, Cuts, Closes, CutsAndCloses
    <3> QED
      BY <2>1, <3>1 DEF Puts, Cuts
  <2>2. CASE Closes \/ CutsAndCloses
    <3>1. ~(Puts \/ Cuts)
      <4>1. Append(typed, TRUE)[Byte] = TRUE /\ Append(typed, FALSE)[Byte] = FALSE
        BY AppendProperties DEF TypeOK, Byte
      <4> QED
        BY <2>2, <4>1 DEF Puts, Cuts, Closes, CutsAndCloses
    <3> QED
      BY <2>2, <3>1 DEF Closes, CutsAndCloses
  <2> QED
    BY <2>1, <2>2 DEF Move
<1>2. /\ typed' \in Seq(BOOLEAN) /\ Len(typed') = Byte
      /\ \A n \in 1..Len(typed) : typed'[n] = typed[n]
      /\ typed'[Byte] = x
  BY <1>1, AppendProperties DEF TypeOK, Byte
<1> QED
  BY <1>1, <1>2

LEMMA MoveTypes ==
  ASSUME TypeOK, Move
  PROVE  /\ internal_buffer' \in Seq(1..Len(typed'))
         /\ sent' \in Seq(Seq(1..Len(typed')))
         /\ typed' \in Seq(BOOLEAN)
         /\ Len(internal_buffer') < LineSize
<1> DEFINE D == Seq(1..Byte)
<1>1. /\ sent \in Seq(D) /\ internal_buffer \in D /\ <<>> \in D
      /\ Append(internal_buffer, Byte) \in D
  BY LineTypes
<1>2. \A S \in Seq(D) : \A c \in D : Append(S, c) \in Seq(D)
  BY AppendProperties
<1>3. Len(typed') = Byte /\ typed' \in Seq(BOOLEAN)
  BY TypedGrows
<1>4. internal_buffer' \in D
  BY <1>1 DEF Move, Puts, Closes, Cuts, CutsAndCloses
<1>5. sent' \in Seq(D)
  <2> HIDE DEF D
  <2> QED
    BY <1>1, <1>2 DEF Move, Puts, Closes, Cuts, CutsAndCloses
<1>6. Len(internal_buffer') < LineSize
  <2>1. LineSize \in Nat /\ LineSize > 1 /\ Len(<<>>) = 0
    BY UsbHidAssumption
  <2>2. CASE Puts
    <3>1. Len(internal_buffer') = Len(internal_buffer) + 1
      BY <2>2, LineTypes, AppendProperties DEF Puts
    <3>2. Len(internal_buffer) \in Nat /\ ~(Len(internal_buffer) >= LineSize - 1)
      BY <2>2 DEF Puts, Full, buf_index, TypeOK
    <3> QED
      BY <2>1, <3>1, <3>2
  <2>3. CASE internal_buffer' = <<>>
    BY <2>1, <2>3
  <2> QED
    BY <2>2, <2>3 DEF Move, Closes, Cuts, CutsAndCloses
<1> QED
  BY <1>3, <1>4, <1>5, <1>6

LEMMA MoveOrder ==
  ASSUME TypeOK, TypedOrder, Move PROVE TypedOrder'
<1> DEFINE N == Len(typed)
           L == internal_buffer
           M == Append(internal_buffer, Byte)
<1>1. N \in Nat /\ Byte = N + 1 /\ sent \in Seq(Seq(1..N)) /\ L \in Seq(1..N)
  BY LineTypes DEF TypeOK, Byte
<1>2. Byte \in Nat /\ sent \in Seq(Seq(1..Byte)) /\ M \in Seq(1..Byte)
      /\ L \in Seq(1..Byte)
  BY LineTypes
<1>3. OrderOf(sent, L)
  BY Named
<1> HIDE DEF N, L, M
<1>4. OrderOf(sent, M)
  BY <1>1, <1>3, OrderGrows DEF L, M
<1>5. OrderOf(Append(sent, M), <<>>)
  BY <1>2, <1>4, OrderMoves
<1>6. OrderOf(Append(sent, L), <<>>)
  BY <1>2, <1>3, OrderMoves
<1>7. OrderOf(Append(Append(sent, L), <<>>), <<>>)
  <2>1. Append(sent, L) \in Seq(Seq(1..Byte)) /\ <<>> \in Seq(1..Byte)
    BY <1>2, AppendProperties, EmptySeq
  <2> QED
    BY <1>2, <1>6, <2>1, OrderMoves
<1>8. OrderOf(sent', internal_buffer')
  BY <1>4, <1>5, <1>6, <1>7 DEF Move, Puts, Closes, Cuts, CutsAndCloses, L, M
<1>9. TypedOrder' <=> OrderOf(sent', internal_buffer')
  BY DEF TypedOrder, OrderOf, buf_index
<1> QED
  BY <1>8, <1>9

(* A full line is one that was cut, and a line with its newline is not.    *)
LEMMA LineIsCut ==
  ASSUME TypeOK, Framing, Move
  PROVE  /\ Full => CutIn(typed', internal_buffer)
         /\ Closes => ~CutIn(typed', Append(internal_buffer, Byte))
         /\ ~CutIn(typed', <<>>)
<1> DEFINE L == internal_buffer
           M == Append(internal_buffer, Byte)
<1>1. L \in Seq(1..Len(typed)) /\ Len(L) \in Nat
  BY DEF TypeOK
<1>2. ASSUME Full PROVE CutIn(typed', L)
  <2>1. LineSize \in Nat /\ LineSize > 1
    BY UsbHidAssumption
  <2>2. Len(L) >= LineSize - 1
    BY <1>2 DEF Full, buf_index
  <2>3. Len(L) \in 1..Len(L)
    BY <1>1, <2>1, <2>2
  <2>4. L # <<>>
    BY <1>1, <2>3
  <2>5. L[Len(L)] \in 1..Len(typed)
    BY <1>1, <2>3, ElementOfSeq
  <2>6. typed'[L[Len(L)]] = typed[L[Len(L)]]
    BY <2>5, TypedGrows
  <2>7. ~typed[L[Len(L)]]
    BY <2>3 DEF Framing, buf_index
  <2> QED
    BY <2>4, <2>6, <2>7 DEF CutIn
<1>3. ASSUME Closes PROVE ~CutIn(typed', M)
  <2>1. Len(M) = Len(L) + 1 /\ M[Len(L) + 1] = Byte
    BY LineTypes, AppendProperties
  <2>2. typed'[Byte]
    BY <1>3, TypedGrows
  <2> QED
    BY <2>1, <2>2 DEF CutIn
<1> QED
  BY <1>2, <1>3 DEF CutIn

LEMMA MoveFraming ==
  ASSUME TypeOK, Framing, Move PROVE Framing'
<1> DEFINE L == internal_buffer
           M == Append(internal_buffer, Byte)
           D == Seq(1..Byte)
           t == typed'
<1>1. /\ sent \in Seq(D) /\ L \in Seq(1..Byte) /\ M \in Seq(1..Byte)
      /\ <<>> \in D /\ Byte \in 1..Byte /\ Len(L) \in Nat
  BY LineTypes
<1>2. FramingOf(t, sent, L)
  <2>1. FramingOf(typed, sent, L)
    BY Named
  <2>2. \A x \in BOOLEAN : FramingOf(Append(typed, x), sent, L)
    BY <2>1, FramingLater DEF TypeOK
  <2> QED
    BY <2>2 DEF Move, Puts, Closes, Cuts, CutsAndCloses
<1>3. /\ Closes \/ CutsAndCloses => t[Byte]
      /\ Puts \/ Cuts => ~t[Byte]
  BY TypedGrows
<1>4. \A j \in 1..Len(L) : ~t[L[j]]
  BY <1>2 DEF FramingOf
<1>5. /\ Len(M) = Len(L) + 1 /\ M[Len(L) + 1] = Byte
      /\ \A j \in 1..Len(L) : M[j] = L[j]
  BY LineTypes, AppendProperties
<1>6. Full => Len(L) = LineSize - 1 /\ Len(L) > 0
  <2>1. LineSize \in Nat /\ LineSize > 1
    BY UsbHidAssumption
  <2>2. Len(L) \in Nat /\ Len(L) < LineSize
    BY <1>1 DEF TypeOK, buf_index
  <2>3. Full <=> Len(L) >= LineSize - 1
    BY DEF Full, buf_index
  <2> HIDE DEF L
  <2> QED
    BY <2>1, <2>2, <2>3
<1> HIDE DEF L, M, D, t
<1>7. CASE Puts
  <2>1. FramingOf(t, sent, M)
    BY <1>1, <1>2, <1>3, <1>7, FramingGrows DEF L, M
  <2> QED
    BY <1>7, <2>1, Named DEF Puts, M, t, Framing, FramingOf, WasCut, CutIn, buf_index
<1>8. CASE Closes
  <2>1. ~CutIn(t, M)
    BY <1>8, LineIsCut DEF t, M
  <2>2. M # <<>>
    BY <1>1, <1>5
  <2>3. \A j \in 1..Len(M) - 1 : ~t[M[j]]
    <3>1. 1..Len(M) - 1 = 1..Len(L)
      BY <1>1, <1>5
    <3> QED
      BY <1>4, <1>5, <3>1
  <2>4. MayFollow(t, sent, M)
    BY <2>1, <2>2, <2>3 DEF MayFollow
  <2>5. FramingOf(t, Append(sent, M), <<>>)
    BY <1>1, <1>2, <2>4, FramingMoves DEF D
  <2> QED
    BY <1>8, <2>5 DEF Closes, M, t, Framing, FramingOf, WasCut, CutIn, buf_index
<1>9. ASSUME Full
      PROVE  /\ CutIn(t, L)
             /\ FramingOf(t, Append(sent, L), <<>>)
  <2>1. CutIn(t, L)
    BY <1>9, LineIsCut DEF t, L
  <2>2. \A j \in 1..Len(L) - 1 : ~t[L[j]]
    <3>1. 1..Len(L) - 1 \subseteq 1..Len(L)
      <4>1. Len(L) \in Nat
        BY <1>1
      <4> QED
        BY <4>1
    <3> QED
      BY <1>4, <3>1
  <2>3. L # <<>>
    BY <1>6, <1>9
  <2>4. MayFollow(t, sent, L)
    BY <1>6, <1>9, <2>1, <2>2, <2>3 DEF MayFollow
  <2> QED
    BY <1>1, <1>2, <2>1, <2>4, FramingMoves DEF D
<1>10. CASE Cuts
  <2>1. FramingOf(t, Append(sent, L), <<>>)
    BY <1>9, <1>10 DEF Cuts
  <2> QED
    BY <1>10, <2>1 DEF Cuts, L, t, Framing, FramingOf, WasCut, CutIn, buf_index
<1>11. CASE CutsAndCloses
  <2> DEFINE T == Append(sent, L)
  <2>1. CutIn(t, L) /\ FramingOf(t, T, <<>>)
    BY <1>9, <1>11 DEF CutsAndCloses
  <2>2. T \in Seq(D) /\ Len(T) = Len(sent) + 1 /\ Len(sent) \in Nat /\ T[Len(T)] = L
    BY <1>1, AppendProperties DEF D
  <2> HIDE DEF T
  <2>3. ~CutIn(t, <<>>) /\ Len(<<>>) = 0
    BY DEF CutIn
  <2>4. MayFollow(t, T, <<>>)
    BY <2>1, <2>2, <2>3 DEF MayFollow
  <2>5. FramingOf(t, Append(T, <<>>), <<>>)
    BY <1>1, <2>1, <2>2, <2>4, FramingMoves
  <2> QED
    BY <1>11, <2>5
    DEF CutsAndCloses, T, L, t, Framing, FramingOf, WasCut, CutIn, buf_index
<1> QED
  BY <1>7, <1>8, <1>10, <1>11 DEF Move

(* A chunk that was sent was cut or not for good.                          *)
LEMMA CutsLater ==
  ASSUME TypeOK, Move
  PROVE  CutsOf(typed', sent) = CutsOf(typed, sent)
<1>1. \A n \in 1..Len(typed) : typed'[n] = typed[n]
  BY TypedGrows
<1>2. ASSUME NEW i \in 1..Len(sent)
      PROVE  CutIn(typed', sent[i]) <=> CutIn(typed, sent[i])
  <2>1. sent[i] \in Seq(1..Len(typed))
    BY ElementOfSeq DEF TypeOK
  <2>2. sent[i] # <<>> => Len(sent[i]) \in 1..Len(sent[i])
    BY <2>1
  <2>3. sent[i] # <<>> => sent[i][Len(sent[i])] \in 1..Len(typed)
    BY <2>1, <2>2, ElementOfSeq
  <2> QED
    BY <1>1, <2>3 DEF CutIn
<1> QED
  BY <1>2 DEF CutsOf

LEMMA MoveCuts ==
  ASSUME TypeOK, Framing, Move
  PROVE  CutsOf(typed', sent') =
           CutsOf(typed, sent) \cup (IF Full THEN {Len(sent) + 1} ELSE {})
<1> DEFINE L == internal_buffer
           M == Append(internal_buffer, Byte)
           D == Seq(1..Byte)
           t == typed'
           T == Append(sent, L)
<1>1. sent \in Seq(D) /\ L \in D /\ M \in D /\ <<>> \in D /\ T \in Seq(D)
  BY LineTypes, AppendProperties
<1>2. CutsOf(t, sent) = CutsOf(typed, sent)
  BY CutsLater
<1>3. /\ Full => CutIn(t, L)
      /\ Closes => ~CutIn(t, M)
      /\ ~CutIn(t, <<>>)
  BY LineIsCut
<1> HIDE DEF D, L, M, t
<1>4. /\ CutsOf(t, Append(sent, M)) =
           CutsOf(t, sent) \cup (IF CutIn(t, M) THEN {Len(sent) + 1} ELSE {})
      /\ CutsOf(t, T) =
           CutsOf(t, sent) \cup (IF CutIn(t, L) THEN {Len(sent) + 1} ELSE {})
  BY <1>1, CutsMore
<1> HIDE DEF T
<1>5. CutsOf(t, Append(T, <<>>)) =
        CutsOf(t, T) \cup (IF CutIn(t, <<>>) THEN {Len(T) + 1} ELSE {})
  BY <1>1, CutsMore
<1>6. CASE Puts
  BY <1>2, <1>6 DEF Puts, t
<1>7. CASE Closes
  BY <1>2, <1>3, <1>4, <1>7 DEF Closes, t, M
<1>8. CASE Cuts
  BY <1>2, <1>3, <1>4, <1>8 DEF Cuts, t, T, L
<1>9. CASE CutsAndCloses
  BY <1>2, <1>3, <1>4, <1>5, <1>9 DEF CutsAndCloses, t, T, L
<1> QED
  BY <1>6, <1>7, <1>8, <1>9 DEF Move

LEMMA MoveLost ==
  ASSUME TypeOK, Move
  PROVE  /\ Lost' = Lost \cup (IF Full THEN {Byte} ELSE {})
         /\ Lost \subseteq 1..Len(typed)
<1> DEFINE L == internal_buffer
           M == Append(internal_buffer, Byte)
           B == 1..Byte
           T == Append(sent, L)
<1>1. /\ sent \in Seq(Seq(B)) /\ L \in Seq(B) /\ M \in Seq(B) /\ <<>> \in Seq(B)
      /\ Byte \in B /\ T \in Seq(Seq(B))
  BY LineTypes, AppendProperties
<1>2. ~KeptIn(sent, L, Byte)
  <2>1. ASSUME NEW i \in 1..Len(sent), NEW j \in 1..Len(sent[i])
        PROVE  sent[i][j] # Byte
    <3>1. sent[i] \in Seq(1..Len(typed))
      BY ElementOfSeq DEF TypeOK
    <3>2. sent[i][j] \in 1..Len(typed)
      BY <3>1, ElementOfSeq
    <3> QED
      BY <3>2, LineTypes DEF Byte
  <2>2. ASSUME NEW j \in 1..Len(L) PROVE L[j] # Byte
    <3>1. L[j] \in 1..Len(typed)
      BY ElementOfSeq DEF TypeOK
    <3> QED
      BY <3>1, LineTypes DEF Byte
  <2> QED
    BY <2>1, <2>2 DEF KeptIn
<1> HIDE DEF B, L, M
<1>3. \A n : /\ KeptIn(sent, M, n) <=> KeptIn(sent, L, n) \/ n = Byte
             /\ KeptIn(Append(sent, M), <<>>, n) <=> KeptIn(sent, M, n)
             /\ KeptIn(T, <<>>, n) <=> KeptIn(sent, L, n)
  <2>1. \A n : KeptIn(sent, M, n) <=> KeptIn(sent, L, n) \/ n = Byte
    BY <1>1, KeptGrows DEF L, M
  <2> QED
    BY <1>1, <2>1, KeptMoves
<1> HIDE DEF T
<1>4. \A n : KeptIn(Append(T, <<>>), <<>>, n) <=> KeptIn(T, <<>>, n)
  BY <1>1, KeptMoves
<1>5. \A n : KeptIn(sent', internal_buffer', n) <=>
               KeptIn(sent, L, n) \/ (~Full /\ n = Byte)
  <2>1. CASE Puts
    BY <1>3, <2>1 DEF Puts, M
  <2>2. CASE Closes
    BY <1>3, <2>2 DEF Closes, M
  <2>3. CASE Cuts
    BY <1>3, <2>3 DEF Cuts, T, L
  <2>4. CASE CutsAndCloses
    BY <1>3, <1>4, <2>4 DEF CutsAndCloses, T, L
  <2> QED
    BY <2>1, <2>2, <2>3, <2>4 DEF Move
<1>6. \A n : Kept(n)' <=> KeptIn(sent', internal_buffer', n)
  BY DEF Kept, KeptIn, buf_index
<1>7. \A n : Kept(n) <=> KeptIn(sent, L, n)
  BY Named DEF L
<1>8. 1..Len(typed') = 1..Len(typed) \cup {Byte} /\ Byte \notin 1..Len(typed)
  BY TypedGrows, LineTypes DEF Byte
<1>9. Lost' = {n \in 1..Len(typed') : ~KeptIn(sent', internal_buffer', n)}
  BY <1>6 DEF Lost
<1> QED
  BY <1>2, <1>5, <1>7, <1>8, <1>9 DEF Lost

LEMMA MoveOneLost ==
  ASSUME TypeOK, Framing, OneLostPerCut, Move PROVE OneLostPerCut'
<1> DEFINE C == CutsOf(typed, sent)
<1>1. Lost' = Lost \cup (IF Full THEN {Byte} ELSE {}) /\ Lost \subseteq 1..Len(typed)
  BY MoveLost
<1>2. CutsOf(typed', sent') = C \cup (IF Full THEN {Len(sent) + 1} ELSE {})
  BY MoveCuts
<1>3. Cardinality(Lost) = Cardinality(C)
  BY Named DEF OneLostPerCut
<1>4. /\ IsFiniteSet(Lost) /\ IsFiniteSet(C)
      /\ Byte \notin Lost /\ Len(sent) + 1 \notin C
  <2>1. Len(typed) \in Nat /\ Len(sent) \in Nat
    BY DEF TypeOK
  <2>2. C \subseteq 1..Len(sent)
    BY DEF CutsOf
  <2>3. IsFiniteSet(1..Len(typed)) /\ IsFiniteSet(1..Len(sent))
    BY <2>1, FS_Interval
  <2>4. Byte \notin 1..Len(typed) /\ Len(sent) + 1 \notin 1..Len(sent)
    BY <2>1 DEF Byte
  <2> QED
    BY <1>1, <2>2, <2>3, <2>4, FS_Subset
<1> HIDE DEF C
<1>5. /\ Cardinality(Lost \cup {Byte}) = Cardinality(Lost) + 1
      /\ Cardinality(C \cup {Len(sent) + 1}) = Cardinality(C) + 1
  BY <1>4, FS_AddElement
<1>6. Cardinality(Lost') = Cardinality(CutsOf(typed', sent'))
  BY <1>1, <1>2, <1>3, <1>5
<1>7. CutsOf(typed', sent') = {i \in 1..Len(sent) : WasCut(sent[i])}'
  BY DEF CutsOf, CutIn, WasCut
<1> QED
  BY <1>6, <1>7 DEF OneLostPerCut

-----------------------------------------------------------------------------
IInv == TypeOK /\ Framing /\ TypedOrder /\ OneLostPerCut

LEMMA InitIInv == Init => IInv
<1> SUFFICES ASSUME Init PROVE IInv
  OBVIOUS
<1>1. internal_buffer = <<>> /\ sent = <<>> /\ typed = <<>> /\ Len(<<>>) = 0
  BY DEF Init
<1>2. TypeOK
  <2>1. 0 < LineSize /\ 0 \in 0..Slots /\ 1 \in 1..3
    BY UsbHidAssumption
  <2>2. <<>> \in Seq(1..Len(typed)) /\ <<>> \in Seq(BOOLEAN)
        /\ <<>> \in Seq(Seq(1..Len(typed)))
    BY EmptySeq
  <2> QED
    BY <1>1, <2>1, <2>2 DEF Init, TypeOK, buf_index
<1>3. 1..Len(<<>>) = {}
  BY <1>1
<1>4. Framing /\ TypedOrder
  BY <1>1, <1>3 DEF Framing, TypedOrder, Ascending, buf_index
<1>5. OneLostPerCut
  <2>1. Lost = {} /\ {i \in 1..Len(sent) : WasCut(sent[i])} = {}
    BY <1>1, <1>3 DEF Lost
  <2> QED
    BY <2>1, Zenon DEF OneLostPerCut
<1> QED
  BY <1>2, <1>4, <1>5 DEF IInv

LEMMA StepIInv == ASSUME IInv, [Next]_hidVars PROVE IInv'
<1>1. Slots \in Nat \ {0}
  BY UsbHidAssumption
<1>2. ASSUME UNCHANGED <<internal_buffer, typed, sent>>, TypeOK' PROVE IInv'
  BY <1>2
  DEF IInv, Framing, WasCut, TypedOrder, Ascending, OneLostPerCut, Lost, Kept,
      buf_index
<1>3. CASE UNCHANGED hidVars
  BY <1>2, <1>3 DEF hidVars, IInv, TypeOK, buf_index
<1>4. CASE ReadFails
  BY <1>3, <1>4 DEF ReadFails
<1>5. ASSUME NEW len \in 1..Slots + 2, NEW s \in BOOLEAN,
             NEW k \in [1..Slots -> Codes], ReadReport(len, s, k)
      PROVE  IInv'
  <2>1. keys' \in [1..Slots -> Codes]
    BY <1>5 DEF ReadReport, IInv, TypeOK
  <2>2. shift' \in BOOLEAN
    BY <1>5, Zenon DEF ReadReport, IInv, TypeOK
  <2>3. slot' \in 0..Slots /\ pos' \in 1..3
    BY <1>1, <1>5 DEF ReadReport
  <2>4. UNCHANGED <<keyboard_layout, internal_buffer, typed, sent>>
    BY <1>5, Zenon DEF ReadReport
  <2> QED
    BY <1>2, <2>1, <2>2, <2>3, <2>4, Zenon DEF IInv, TypeOK, buf_index
<1>6. CASE NextKey
  <2>1. slot' \in 0..Slots /\ pos' \in 1..3
    BY <1>1, <1>6 DEF NextKey, IInv, TypeOK
  <2>2. UNCHANGED <<keyboard_layout, shift, keys, internal_buffer, typed, sent>>
    BY <1>6, Zenon DEF NextKey, reportVars
  <2> QED
    BY <1>2, <2>1, <2>2, Zenon DEF IInv, TypeOK, buf_index
<1>7. CASE PutByte
  <2>1. Move
    BY <1>7, PutByteMoves DEF IInv, Move
  <2>2. pos' \in 1..3
    <3>1. pos \in 1..3 /\ pos <= Bytes(str) /\ pos' = pos + 1
      BY <1>7 DEF PutByte, InString, IInv, TypeOK
    <3>2. Bytes(str) \in 0..2
      BY DEF Bytes
    <3> QED
      BY <3>1, <3>2
  <2>3. UNCHANGED <<keyboard_layout, shift, keys, slot>>
    BY <1>7, Zenon DEF PutByte, reportVars
  <2>4. TypeOK'
    BY <2>1, <2>2, <2>3, MoveTypes, Zenon DEF IInv, TypeOK, buf_index
  <2> QED
    BY <2>1, <2>4, MoveFraming, MoveOrder, MoveOneLost DEF IInv
<1> QED
  BY <1>3, <1>4, <1>5, <1>6, <1>7 DEF Next

(* What is in the line and what was sent, after any number of reports.     *)
THEOREM Invariance == Spec => []IInv
<1>1. Init => IInv
  BY InitIInv
<1>2. IInv /\ [Next]_hidVars => IInv'
  BY StepIInv
<1> QED
  BY <1>1, <1>2, PTL DEF Spec

(* Every variable keeps its type; the terminator of the line is never      *)
(* written past the end of internal_buffer.                                *)
THEOREM TypeCorrect == Spec => []TypeOK
<1>1. IInv => TypeOK
  BY DEF IInv
<1> QED
  BY <1>1, Invariance, PTL

(* The forwarder is given whole lines, and pieces of a line only when the  *)
(* buffer was full.                                                        *)
THEOREM Lines == Spec => []Framing
<1>1. IInv => Framing
  BY DEF IInv
<1> QED
  BY <1>1, Invariance, PTL

(* What it is given is in the order of the keys, without repetition.       *)
THEOREM InOrder == Spec => []TypedOrder
<1>1. IInv => TypedOrder
  BY DEF IInv
<1> QED
  BY <1>1, Invariance, PTL

(* And complete, but for one byte of each line that was cut.               *)
THEOREM LossCounted == Spec => []OneLostPerCut
<1>1. IInv => OneLostPerCut
  BY DEF IInv
<1> QED
  BY <1>1, Invariance, PTL
=============================================================================
