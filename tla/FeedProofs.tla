------------------------------ MODULE FeedProofs ------------------------------
(***************************************************************************)
(* Proofs about the comment list and its pictures, for every value of the  *)
(* constants of MCDesktop: the list shows what was handed to it, and the   *)
(* cache, the slots and the requests of the pictures agree.                *)
(***************************************************************************)
EXTENDS MCDesktop, SequenceTheorems, FiniteSetTheorems, WellFoundedInduction, TLAPS

-----------------------------------------------------------------------------
(***************************************************************************)
(* The feed.  What is pending has a signal, a timer or a refresh on its    *)
(* way.  A buffer holds the last items without a gap; the list ends where  *)
(* the buffer begins, unless the buffer alone fills the list.              *)
(***************************************************************************)
Numbers == Seq(Nat)

\* A list that ascends; that goes up to item M; that ends there without a gap.
Ascends(s) == \A i, j \in DOMAIN s : i < j => s[i] < s[j]
UpTo(s, M) == \A i \in DOMAIN s : s[i] <= M
EndsAt(s, M) == \A i \in DOMAIN s : s[i] = M - Len(s) + i

\* The list r and the buffer b after N items: the buffer ends with the last
\* one, and the list ascends and ends before the buffer.
InRow(r, b, N) == EndsAt(b, N) /\ Ascends(r) /\ UpTo(r, N - Len(b))
\* No item behind the first C is missing among the last L ones.
Fewer(n, L) == IF n < L THEN n ELSE L
NoGap(r, b, N, C, L) ==
  Len(b) >= L \/ (EndsAt(r, N - Len(b)) /\ Len(r) >= Fewer(N - Len(b) - C, L))

\* The last n items of a list are the end of it, or all of it.
LEMMA LastOf ==
  ASSUME NEW s \in Numbers, NEW n \in Nat
  PROVE  /\ Feed!Last(s, n) \in Numbers /\ Len(Feed!Last(s, n)) = Fewer(Len(s), n)
         /\ \A i \in DOMAIN Feed!Last(s, n) :
              LET j == Len(s) - Fewer(Len(s), n) + i IN j \in DOMAIN s /\ Feed!Last(s, n)[i] = s[j]
         /\ Len(s) <= n => Feed!Last(s, n) = s
<1> DEFINE m == Len(s)
           a == IF m > n THEN m - n + 1 ELSE 1
           t == SubSeq(s, a, m)
<1>1. m \in Nat /\ DOMAIN s = 1 .. m
  BY LenProperties DEF Numbers
<1> HIDE DEF m
<1>2. a \in 1 .. m + 1 /\ m - a + 1 = Fewer(m, n) /\ Fewer(m, n) \in Nat
  <2>1. CASE m > n
    BY <1>1, <2>1 DEF Fewer
  <2>2. CASE ~(m > n)
    BY <1>1, <2>2 DEF Fewer
  <2> QED BY <2>1, <2>2
<1> HIDE DEF a
<1>3. t \in Numbers /\ Len(t) = m - a + 1 /\ \A i \in 1 .. m - a + 1 : t[i] = s[a + i - 1]
  BY <1>1, <1>2, SubSeqProperties DEF Numbers
<1>4. DOMAIN t = 1 .. m - a + 1
  BY <1>3, LenProperties DEF Numbers
<1>5. t = Feed!Last(s, n)
  BY DEF Feed!Last, a, m
<1> HIDE DEF t
<1>6. ASSUME NEW i \in DOMAIN t PROVE LET j == m - Fewer(m, n) + i IN j \in DOMAIN s /\ t[i] = s[j]
  <2>1. a + i - 1 = m - Fewer(m, n) + i /\ a + i - 1 \in DOMAIN s
    BY <1>1, <1>2, <1>4
  <2> QED BY <1>3, <1>4, <2>1
<1>7. ASSUME m <= n PROVE t = s
  <2>1. a = 1
    BY <1>1, <1>7 DEF a
  <2>2. Len(t) = Len(s) /\ \A i \in 1 .. Len(s) : t[i] = s[i]
    BY <1>1, <1>3, <2>1 DEF m
  <2> QED BY <1>3, <2>2, SeqEqual DEF Numbers
<1> QED BY <1>2, <1>3, <1>5, <1>6, <1>7 DEF m

\* An item of two lists joined is one of the first, or one of the second.
LEMMA JoinOf ==
  ASSUME NEW r \in Numbers, NEW b \in Numbers
  PROVE  /\ r \o b \in Numbers /\ Len(r \o b) = Len(r) + Len(b)
         /\ \A i \in DOMAIN (r \o b) :
              \/ i \in DOMAIN r /\ (r \o b)[i] = r[i]
              \/ i > Len(r) /\ i - Len(r) \in DOMAIN b /\ (r \o b)[i] = b[i - Len(r)]
<1>1. /\ r \o b \in Numbers /\ Len(r \o b) = Len(r) + Len(b)
      /\ \A i \in 1 .. Len(r) + Len(b) : (r \o b)[i] = IF i <= Len(r) THEN r[i] ELSE b[i - Len(r)]
  BY ConcatProperties DEF Numbers
<1> DEFINE u == r \o b
<1> HIDE DEF u
<1>2. /\ Len(r) \in Nat /\ Len(b) \in Nat /\ DOMAIN r = 1 .. Len(r) /\ DOMAIN b = 1 .. Len(b)
      /\ DOMAIN u = 1 .. Len(r) + Len(b)
  BY <1>1, LenProperties DEF Numbers, u
<1>3. ASSUME NEW i \in DOMAIN u
      PROVE  \/ i \in DOMAIN r /\ u[i] = r[i]
             \/ i > Len(r) /\ i - Len(r) \in DOMAIN b /\ u[i] = b[i - Len(r)]
  <2>1. CASE i <= Len(r)
    BY <1>1, <1>2, <2>1 DEF u
  <2>2. CASE ~(i <= Len(r))
    <3>1. i > Len(r) /\ i - Len(r) \in DOMAIN b
      BY <1>2, <2>2
    <3> QED BY <1>1, <1>2, <2>2, <3>1 DEF u
  <2> QED BY <2>1, <2>2
<1> QED BY <1>1, <1>3 DEF u

\* The end of a list is a list of the same kind.
LEMMA LastKeeps ==
  ASSUME NEW s \in Numbers, NEW n \in Nat, NEW M \in Int
  PROVE  /\ Ascends(s) => Ascends(Feed!Last(s, n))
         /\ UpTo(s, M) => UpTo(Feed!Last(s, n), M)
         /\ EndsAt(s, M) => EndsAt(Feed!Last(s, n), M)
<1> DEFINE t == Feed!Last(s, n)
           d == Len(s) - Fewer(Len(s), n)
<1>1. Len(s) \in Nat /\ DOMAIN s = 1 .. Len(s)
  BY LenProperties DEF Numbers
<1>2. Fewer(Len(s), n) \in Nat
  BY <1>1 DEF Fewer
<1>3. t \in Numbers /\ Len(t) = Fewer(Len(s), n) /\ DOMAIN t \subseteq Int
      /\ \A i \in DOMAIN t : d + i \in DOMAIN s /\ t[i] = s[d + i]
  <2>1. t \in Numbers /\ Len(t) = Fewer(Len(s), n)
    BY LastOf
  <2>2. \A i \in DOMAIN t : d + i \in DOMAIN s /\ t[i] = s[d + i]
    BY LastOf
  <2>3. DOMAIN t \subseteq Int
    BY <2>1, LenProperties DEF Numbers
  <2> QED BY <2>1, <2>2, <2>3
<1>4. d \in Int /\ d = Len(s) - Len(t) /\ Len(t) \in Nat
  BY <1>1, <1>2, <1>3
<1>5. DOMAIN s \subseteq Int
  BY <1>1
<1> HIDE DEF d, t
<1>6. ASSUME Ascends(s), NEW i \in DOMAIN t, NEW j \in DOMAIN t, i < j PROVE t[i] < t[j]
  <2>1. d + i < d + j
    BY <1>3, <1>4, <1>6
  <2> QED BY <1>3, <1>6, <2>1 DEF Ascends
<1>7. ASSUME UpTo(s, M), NEW i \in DOMAIN t PROVE t[i] <= M
  BY <1>3, <1>7 DEF UpTo
<1>8. ASSUME EndsAt(s, M), NEW i \in DOMAIN t PROVE t[i] = M - Len(t) + i
  <2>1. t[i] = M - Len(s) + (d + i)
    BY <1>3, <1>8 DEF EndsAt
  <2>2. i \in Int
    BY <1>3
  <2> QED BY <1>1, <1>4, <2>1, <2>2
<1>9. (Ascends(s) => Ascends(t)) /\ (UpTo(s, M) => UpTo(t, M)) /\ (EndsAt(s, M) => EndsAt(t, M))
  BY <1>6, <1>7, <1>8 DEF Ascends, UpTo, EndsAt
<1> QED BY <1>9 DEF t

\* A list and what comes after it.
LEMMA Joined ==
  ASSUME NEW r \in Numbers, NEW b \in Numbers, NEW N \in Nat, InRow(r, b, N)
  PROVE  /\ Ascends(r \o b) /\ UpTo(r \o b, N)
         /\ EndsAt(r, N - Len(b)) => EndsAt(r \o b, N)
<1> DEFINE u == r \o b
<1>1. /\ Len(u) = Len(r) + Len(b) /\ DOMAIN u \subseteq Int
      /\ \A i \in DOMAIN u : \/ i \in DOMAIN r /\ u[i] = r[i]
                             \/ i > Len(r) /\ i - Len(r) \in DOMAIN b /\ u[i] = b[i - Len(r)]
  BY JoinOf, LenProperties DEF Numbers
<1>2. /\ Len(r) \in Nat /\ DOMAIN r = 1 .. Len(r) /\ \A i \in DOMAIN r : r[i] \in Nat
      /\ Len(b) \in Nat /\ DOMAIN b = 1 .. Len(b) /\ \A i \in DOMAIN b : b[i] \in Nat
  BY LenProperties, ElementOfSeq DEF Numbers
<1> HIDE DEF u
<1>3. ASSUME NEW i \in DOMAIN b PROVE b[i] = N - Len(b) + i /\ N - Len(b) < b[i] /\ b[i] <= N
  <2>1. b[i] = N - Len(b) + i /\ i \in 1 .. Len(b)
    BY <1>2, <1>3 DEF InRow, EndsAt
  <2> QED BY <1>2, <2>1
<1>4. ASSUME NEW i \in DOMAIN r PROVE r[i] <= N - Len(b)
  BY <1>4 DEF InRow, UpTo
<1>5. ASSUME NEW i \in DOMAIN u, NEW j \in DOMAIN u, i < j PROVE u[i] < u[j]
  <2>1. CASE i \in DOMAIN r /\ u[i] = r[i] /\ j \in DOMAIN r /\ u[j] = r[j]
    BY <1>5, <2>1 DEF InRow, Ascends
  <2>2. CASE i \in DOMAIN r /\ u[i] = r[i] /\ j - Len(r) \in DOMAIN b /\ u[j] = b[j - Len(r)]
    <3>1. r[i] <= N - Len(b) /\ N - Len(b) < b[j - Len(r)] /\ r[i] \in Nat /\ b[j - Len(r)] \in Nat
      BY <1>2, <1>3, <1>4, <2>2
    <3> QED BY <1>2, <2>2, <3>1
  <2>3. CASE i - Len(r) \in DOMAIN b /\ u[i] = b[i - Len(r)] /\ j - Len(r) \in DOMAIN b /\ u[j] = b[j - Len(r)]
    <3>1. u[i] = N - Len(b) + (i - Len(r)) /\ u[j] = N - Len(b) + (j - Len(r))
      BY <1>3, <2>3
    <3>2. i \in Int /\ j \in Int
      BY <1>1
    <3> QED BY <1>2, <1>5, <3>1, <3>2
  <2>4. CASE i > Len(r) /\ j \in DOMAIN r
    BY <1>1, <1>2, <1>5, <2>4
  <2> QED BY <1>1, <2>1, <2>2, <2>3, <2>4
<1>6. ASSUME NEW i \in DOMAIN u PROVE u[i] <= N
  <2>1. CASE i \in DOMAIN r /\ u[i] = r[i]
    <3>1. r[i] <= N - Len(b) /\ r[i] \in Nat
      BY <1>2, <1>4, <2>1
    <3> QED BY <1>2, <2>1, <3>1
  <2>2. CASE i - Len(r) \in DOMAIN b /\ u[i] = b[i - Len(r)]
    BY <1>3, <2>2
  <2> QED BY <1>1, <2>1, <2>2
<1>7. ASSUME EndsAt(r, N - Len(b)), NEW i \in DOMAIN u PROVE u[i] = N - Len(u) + i
  <2>1. CASE i \in DOMAIN r /\ u[i] = r[i]
    <3>1. u[i] = (N - Len(b)) - Len(r) + i
      BY <1>7, <2>1 DEF EndsAt
    <3>2. i \in Int
      BY <1>1
    <3> QED BY <1>1, <1>2, <3>1, <3>2
  <2>2. CASE i - Len(r) \in DOMAIN b /\ u[i] = b[i - Len(r)]
    <3>1. u[i] = N - Len(b) + (i - Len(r))
      BY <1>3, <2>2
    <3>2. i \in Int
      BY <1>1
    <3> QED BY <1>1, <1>2, <3>1, <3>2
  <2> QED BY <1>1, <2>1, <2>2
<1>8. Ascends(u) /\ UpTo(u, N) /\ (EndsAt(r, N - Len(b)) => EndsAt(u, N))
  BY <1>5, <1>6, <1>7 DEF Ascends, UpTo, EndsAt
<1> QED BY <1>8 DEF u

\* A buffer may lose its oldest items; it is still full where it was.
LEMMA BufferCut ==
  ASSUME NEW r \in Numbers, NEW b \in Numbers, NEW N \in Nat, NEW C \in Nat, NEW L \in Nat,
         NEW n \in Nat \ {0}, InRow(r, b, N)
  PROVE  /\ InRow(r, Feed!Last(b, n), N) /\ (Feed!Last(b, n) # <<>> => b # <<>>)
         /\ n >= L /\ NoGap(r, b, N, C, L) => NoGap(r, Feed!Last(b, n), N, C, L)
<1> DEFINE t == Feed!Last(b, n)
<1>1. Len(b) \in Nat
  BY LenProperties DEF Numbers
<1>2. Len(t) = Fewer(Len(b), n) /\ (Len(b) <= n => t = b) /\ EndsAt(t, N)
  <2>1. Len(t) = Fewer(Len(b), n) /\ (Len(b) <= n => t = b)
    BY LastOf
  <2>2. EndsAt(b, N) => EndsAt(t, N)
    BY LastKeeps
  <2> QED BY <2>1, <2>2 DEF InRow
<1> HIDE DEF t
<1>3. Len(t) \in Nat /\ Len(t) <= Len(b)
  BY <1>1, <1>2 DEF Fewer
<1>4. UpTo(r, N - Len(t))
  <2>1. ASSUME NEW i \in DOMAIN r PROVE r[i] <= N - Len(t)
    <3>1. r[i] <= N - Len(b) /\ r[i] \in Nat
      BY ElementOfSeq, LenProperties DEF InRow, UpTo, Numbers
    <3> QED BY <1>1, <1>3, <3>1
  <2> QED BY <2>1 DEF UpTo
<1>5. t # <<>> => b # <<>>
  <2>1. CASE b = <<>>
    <3>1. Len(b) <= n
      BY <2>1, EmptySeq
    <3> QED BY <1>2, <2>1, <3>1
  <2> QED BY <2>1
<1>6. ASSUME n >= L, NoGap(r, b, N, C, L) PROVE NoGap(r, t, N, C, L)
  <2>1. CASE Len(b) <= n
    BY <1>2, <1>6, <2>1
  <2>2. CASE Len(b) > n
    <3>1. Len(t) >= L
      BY <1>1, <1>2, <1>6, <2>2 DEF Fewer
    <3> QED BY <3>1 DEF NoGap
  <2> QED BY <1>1, <2>1, <2>2
<1>7. InRow(r, t, N)
  BY <1>2, <1>4 DEF InRow
<1> QED BY <1>5, <1>6, <1>7 DEF t

\* So may a list, down to its limit.
LEMMA RowsCut ==
  ASSUME NEW r \in Numbers, NEW b \in Numbers, NEW N \in Nat, NEW C \in Nat, NEW L \in Nat,
         NEW n \in Nat \ {0}, InRow(r, b, N)
  PROVE  /\ InRow(Feed!Last(r, n), b, N)
         /\ n <= L /\ NoGap(r, b, N, C, L) => NoGap(Feed!Last(r, n), b, N, C, n)
<1> DEFINE t == Feed!Last(r, n)
<1>1. Len(b) \in Nat /\ Len(r) \in Nat
  BY LenProperties DEF Numbers
<1>2. N - Len(b) \in Int
  BY <1>1
<1>3. Len(t) = Fewer(Len(r), n)
  BY LastOf
<1>4. /\ Ascends(r) => Ascends(t)
      /\ UpTo(r, N - Len(b)) => UpTo(t, N - Len(b))
      /\ EndsAt(r, N - Len(b)) => EndsAt(t, N - Len(b))
  BY <1>2, LastKeeps
<1> HIDE DEF t
<1>5. InRow(t, b, N)
  BY <1>4 DEF InRow
<1>6. ASSUME n <= L, NoGap(r, b, N, C, L) PROVE NoGap(t, b, N, C, n)
  <2>1. CASE Len(b) >= L
    <3>1. Len(b) >= n
      BY <1>1, <1>6, <2>1
    <3> QED BY <3>1 DEF NoGap
  <2>2. CASE EndsAt(r, N - Len(b)) /\ Len(r) >= Fewer(N - Len(b) - C, L)
    <3>1. Len(t) >= Fewer(N - Len(b) - C, n)
      BY <1>1, <1>3, <1>6, <2>2 DEF Fewer
    <3> QED BY <1>4, <2>2, <3>1 DEF NoGap
  <2> QED BY <1>6, <2>1, <2>2 DEF NoGap
<1> QED BY <1>5, <1>6 DEF t

\* An item that is published follows the others, and may push one out of a
\* buffer that is full.
LEMMA ItemAdded ==
  ASSUME NEW r \in Numbers, NEW b \in Numbers, NEW N \in Nat, NEW C \in Nat, NEW L \in Nat,
         NEW n \in Nat \ {0}, InRow(r, b, N)
  PROVE  /\ InRow(r, Feed!Last(Append(b, N + 1), n), N + 1) /\ Feed!Last(Append(b, N + 1), n) \in Numbers
         /\ n >= L /\ NoGap(r, b, N, C, L) => NoGap(r, Feed!Last(Append(b, N + 1), n), N + 1, C, L)
<1> DEFINE a == Append(b, N + 1)
<1>1. Len(b) \in Nat /\ DOMAIN b = 1 .. Len(b)
  BY LenProperties DEF Numbers
<1>2. a \in Numbers /\ Len(a) = Len(b) + 1 /\ a[Len(b) + 1] = N + 1 /\ \A i \in 1 .. Len(b) : a[i] = b[i]
  BY AppendProperties DEF Numbers
<1>3. DOMAIN a = 1 .. Len(b) + 1
  BY <1>1, <1>2, LenProperties DEF Numbers
<1> HIDE DEF a
<1>4. ASSUME NEW i \in DOMAIN a PROVE a[i] = (N + 1) - Len(a) + i
  <2>1. CASE i = Len(b) + 1
    BY <1>1, <1>2, <2>1
  <2>2. CASE i \in 1 .. Len(b)
    <3>1. b[i] = N - Len(b) + i
      BY <1>1, <2>2 DEF InRow, EndsAt
    <3> QED BY <1>1, <1>2, <2>2, <3>1
  <2> QED BY <1>1, <1>3, <2>1, <2>2
<1>5. N - Len(b) = (N + 1) - Len(a)
  BY <1>1, <1>2
<1>6. InRow(r, a, N + 1)
  BY <1>4, <1>5 DEF InRow, EndsAt
<1>7. NoGap(r, b, N, C, L) => NoGap(r, a, N + 1, C, L)
  <2>1. Len(b) >= L => Len(a) >= L
    BY <1>1, <1>2
  <2> QED BY <1>5, <2>1 DEF NoGap
<1>8. N + 1 \in Nat /\ Feed!Last(a, n) \in Numbers
  BY <1>2, LastOf
<1>9. InRow(r, Feed!Last(a, n), N + 1)
      /\ (n >= L /\ NoGap(r, a, N + 1, C, L) => NoGap(r, Feed!Last(a, n), N + 1, C, L))
  BY <1>2, <1>6, <1>8, BufferCut
<1> QED BY <1>7, <1>8, <1>9 DEF a

\* A batch that is shown: nothing waits, and the list ends with the last item.
LEMMA BatchShown ==
  ASSUME NEW r \in Numbers, NEW b \in Numbers, NEW N \in Nat, NEW C \in Nat, NEW L \in Nat \ {0},
         InRow(r, b, N)
  PROVE  /\ InRow(Feed!AppendBatch(r, b, L), <<>>, N) /\ Feed!AppendBatch(r, b, L) \in Numbers
         /\ NoGap(r, b, N, C, L) => NoGap(Feed!AppendBatch(r, b, L), <<>>, N, C, L)
<1> DEFINE t == Feed!Last(b, L)
           u == r \o t
           v == Feed!Last(u, L)
<1>1. t \in Numbers /\ InRow(r, t, N) /\ (NoGap(r, b, N, C, L) => NoGap(r, t, N, C, L))
  <2>1. L \in Nat /\ L >= L
    OBVIOUS
  <2> QED BY <2>1, LastOf, BufferCut
<1>2. v = Feed!AppendBatch(r, b, L)
  BY DEF Feed!AppendBatch
<1> HIDE DEF t
<1>3. u \in Numbers /\ Len(u) = Len(r) + Len(t)
      /\ \A i \in DOMAIN u : \/ i \in DOMAIN r /\ u[i] = r[i]
                             \/ i > Len(r) /\ i - Len(r) \in DOMAIN t /\ u[i] = t[i - Len(r)]
  BY <1>1, JoinOf
<1>4. Ascends(u) /\ UpTo(u, N) /\ (EndsAt(r, N - Len(t)) => EndsAt(u, N))
  BY <1>1, Joined
<1> HIDE DEF u
<1>5. v \in Numbers /\ Len(v) = Fewer(Len(u), L)
      /\ \A i \in DOMAIN v : LET j == Len(u) - Fewer(Len(u), L) + i IN j \in DOMAIN u /\ v[i] = u[j]
  BY <1>3, LastOf
<1>6. Ascends(v) /\ UpTo(v, N) /\ (EndsAt(u, N) => EndsAt(v, N))
  BY <1>3, <1>4, LastKeeps
<1> HIDE DEF v
<1>7. Len(r) \in Nat /\ Len(t) \in Nat /\ DOMAIN r = 1 .. Len(r) /\ DOMAIN v = 1 .. Len(v)
  BY <1>1, <1>5, LenProperties DEF Numbers
<1>8. Len(<<>>) = 0 /\ EndsAt(<<>>, N) /\ N - 0 = N
  BY EmptySeq DEF EndsAt
<1>9. InRow(v, <<>>, N)
  BY <1>6, <1>8 DEF InRow
<1>10. ASSUME NoGap(r, t, N, C, L) PROVE NoGap(v, <<>>, N, C, L)
  <2>1. CASE Len(t) >= L
    <3>1. Len(v) = L /\ Len(u) \in Nat /\ Fewer(Len(u), L) = L
      BY <1>3, <1>5, <1>7, <2>1 DEF Fewer
    <3>2. ASSUME NEW i \in DOMAIN v PROVE v[i] = N - Len(v) + i
      <4> DEFINE j == Len(u) - L + i
      <4>1. j \in DOMAIN u /\ v[i] = u[j] /\ i \in 1 .. L
        BY <1>5, <1>7, <3>1
      <4>2. ~(j \in DOMAIN r) /\ j - Len(r) = Len(t) - L + i
        BY <1>3, <1>7, <2>1, <4>1
      <4> HIDE DEF j
      <4>3. j - Len(r) \in DOMAIN t /\ v[i] = t[j - Len(r)]
        BY <1>3, <4>1, <4>2
      <4>4. v[i] = N - Len(t) + (j - Len(r))
        BY <1>1, <4>3 DEF InRow, EndsAt
      <4> QED BY <1>7, <3>1, <4>1, <4>2, <4>4
    <3>3. Len(v) >= Fewer(N - 0 - C, L)
      BY <3>1 DEF Fewer
    <3> QED BY <1>8, <3>2, <3>3 DEF NoGap, EndsAt
  <2>2. CASE EndsAt(r, N - Len(t)) /\ Len(r) >= Fewer(N - Len(t) - C, L)
    <3>1. EndsAt(v, N)
      BY <1>4, <1>6, <2>2
    <3>2. Len(v) >= Fewer(N - 0 - C, L)
      BY <1>3, <1>5, <1>7, <2>2 DEF Fewer
    <3> QED BY <1>8, <3>1, <3>2 DEF NoGap
  <2> QED BY <1>10, <2>1, <2>2 DEF NoGap
<1> QED BY <1>1, <1>2, <1>5, <1>9, <1>10

\* A list and a buffer that were emptied; a buffer alone that was.
LEMMA Emptied ==
  ASSUME NEW r \in Numbers, NEW b \in Numbers, NEW N \in Nat, NEW L \in Nat, InRow(r, b, N)
  PROVE  InRow(<<>>, <<>>, N) /\ NoGap(<<>>, <<>>, N, N, L) /\ InRow(r, <<>>, N)
<1>1. Len(<<>>) = 0 /\ DOMAIN <<>> = {}
  BY EmptySeq
<1>2. Ascends(<<>>) /\ UpTo(<<>>, N - Len(<<>>)) /\ EndsAt(<<>>, N) /\ EndsAt(<<>>, N - Len(<<>>))
  BY <1>1 DEF Ascends, UpTo, EndsAt
<1>3. Len(<<>>) >= Fewer(N - Len(<<>>) - N, L)
  BY <1>1 DEF Fewer
<1>4. UpTo(r, N - Len(<<>>))
  <2>1. ASSUME NEW i \in DOMAIN r PROVE r[i] <= N - 0
    <3>1. r[i] <= N - Len(b) /\ r[i] \in Nat /\ Len(b) \in Nat
      BY ElementOfSeq, LenProperties DEF InRow, UpTo, Numbers
    <3> QED BY <3>1
  <2> QED BY <1>1, <2>1 DEF UpTo
<1> QED BY <1>2, <1>3, <1>4 DEF InRow, NoGap

Callers == {<<"idle", "none">>} \cup ({"append", "notify"} \X Feeds)
ListType ==
  /\ buffer \in [Feeds -> Numbers] /\ rows \in [Feeds -> Numbers]
  /\ items \in [Feeds -> Nat] /\ cleared \in [Feeds -> Nat]
  /\ cap \in [Feeds -> Nat \ {0}] /\ limit \in [Feeds -> Nat \ {0}]
  /\ ending \in BOOLEAN /\ raised \in BOOLEAN
WayType ==
  /\ pending \in [Feeds -> BOOLEAN] /\ publisher \in [{p1, p2} -> Callers]
  /\ signals \in Seq(Feeds \cup {"end"}) /\ timer \in BOOLEAN

\* What is shown of kind k, and what waits.
Live == raised = FALSE /\ ending = FALSE
Shows(k) ==
  /\ InRow(rows[k], buffer[k], items[k])
  /\ Live => NoGap(rows[k], buffer[k], items[k], cleared[k], limit[k])
AllShow == \A k \in Feeds : Shows(k)

\* A buffer holds as much as the list shows, also while a limit is changed.
Room == raised = FALSE => \A k \in Feeds : cap[k] >= limit[k]
Changing ==
  /\ gui \in {"limit", "logs"} => want \in FeedLimits
  /\ gui = "limit" /\ "comment" \in Feeds => limit["comment"] = want
  /\ gui \in {"limit", "logs"} /\ "log" \in Feeds /\ raised = FALSE => want <= limit["log"]
ListInv == ListType /\ Room /\ Changing /\ AllShow

\* What waits, or is said to wait, will be taken.
InLine(k, line) == \E i \in DOMAIN line : line[i] = k
Told(k) == \/ \E p \in {p1, p2} : publisher[p] = <<"notify", k>>
           \/ InLine(k, signals)
           \/ k # "progress" /\ timer = TRUE
           \/ k = "comment" /\ gui = "flush"
Coming == ending = FALSE =>
  \A k \in Feeds : buffer[k] # <<>> \/ (k # "progress" /\ pending[k] = TRUE) => Told(k)
EndingSaid == gui = "end" => ending = TRUE
WayInv == WayType /\ Coming /\ EndingSaid

FeedInv == part = "feed" => ListInv /\ WayInv

\* The invariants of the lists and of what is on its way hold at the start.
LEMMA FeedInit == ASSUME Feed!Init PROVE ListInv /\ WayInv
<1>1. FeedLimit \in Nat \ {0}
  BY DesktopAssumption DEF DesktopAssumption, Feed!FeedAssumption
<1>2. /\ buffer = [k \in Feeds |-> <<>>] /\ pending = [k \in Feeds |-> FALSE]
      /\ cap = [k \in Feeds |-> IF k = "progress" THEN 1 ELSE FeedLimit] /\ limit = cap
      /\ publisher = [p \in {p1, p2} |-> <<"idle", "none">>] /\ signals = <<>> /\ timer = FALSE
      /\ gui = "idle" /\ rows = buffer /\ ending = FALSE /\ raised = FALSE
      /\ items = [k \in Feeds |-> 0] /\ cleared = items
  BY DEF Feed!Init
<1>3. <<>> \in Numbers /\ <<>> \in Seq(Feeds \cup {"end"}) /\ DOMAIN <<>> = {} /\ Len(<<>>) = 0
  BY EmptySeq DEF Numbers
<1>4. ListType
  <2>1. buffer \in [Feeds -> Numbers] /\ rows \in [Feeds -> Numbers]
    BY <1>2, <1>3
  <2>2. cap \in [Feeds -> Nat \ {0}] /\ limit \in [Feeds -> Nat \ {0}]
    BY <1>1, <1>2
  <2>3. items \in [Feeds -> Nat] /\ cleared \in [Feeds -> Nat]
    BY <1>2
  <2>4. ending \in BOOLEAN /\ raised \in BOOLEAN
    BY <1>2
  <2> QED BY <2>1, <2>2, <2>3, <2>4 DEF ListType
<1>5. Room /\ Changing
  <2>1. \A k \in Feeds : cap[k] >= limit[k]
    BY <1>1, <1>2
  <2> QED BY <1>2, <2>1 DEF Room, Changing
<1>6. ASSUME NEW k \in Feeds PROVE Shows(k)
  <2>1. InRow(<<>>, <<>>, 0)
    BY <1>3 DEF InRow, EndsAt, Ascends, UpTo
  <2>2. ASSUME NEW L \in Nat PROVE NoGap(<<>>, <<>>, 0, 0, L)
    BY <1>3, <2>1, <2>2, Emptied
  <2>3. limit[k] \in Nat /\ rows[k] = <<>> /\ buffer[k] = <<>> /\ items[k] = 0 /\ cleared[k] = 0
    BY <1>1, <1>2
  <2> QED BY <2>1, <2>2, <2>3 DEF Shows
<1>7. WayType
  <2>1. pending \in [Feeds -> BOOLEAN] /\ timer \in BOOLEAN
    BY <1>2
  <2>2. publisher \in [{p1, p2} -> Callers]
    BY <1>2 DEF Callers
  <2> QED BY <1>2, <1>3, <2>1, <2>2 DEF WayType
<1>8. Coming /\ EndingSaid
  <2>1. ASSUME NEW k \in Feeds PROVE buffer[k] = <<>> /\ pending[k] = FALSE
    BY <1>2
  <2> QED BY <1>2, <2>1 DEF Coming, EndingSaid
<1> QED BY <1>4, <1>5, <1>6, <1>7, <1>8 DEF ListInv, WayInv, AllShow

\* What does not change is shown as before.
LEMMA ShownBefore ==
  ASSUME NEW k \in Feeds, Shows(k), Live' => Live,
         rows'[k] = rows[k], buffer'[k] = buffer[k], items'[k] = items[k], cleared'[k] = cleared[k],
         limit'[k] = limit[k]
  PROVE  Shows(k)'
BY DEF Shows

\* Every value of a list that has its type.
LEMMA Typed ==
  ASSUME ListType, NEW k \in Feeds
  PROVE  /\ rows[k] \in Numbers /\ buffer[k] \in Numbers /\ items[k] \in Nat /\ cleared[k] \in Nat
         /\ limit[k] \in Nat \ {0} /\ cap[k] \in Nat \ {0}
BY DEF ListType

\* A batch that is taken is shown.
LEMMA TakenIsShown ==
  ASSUME ListInv, NEW k \in Feeds, Feed!Take(k), Feed!Receive(k),
         UNCHANGED <<items, cleared, cap, limit, ending, raised>>
  PROVE  ListType' /\ AllShow'
<1>1. /\ buffer' = [buffer EXCEPT ![k] = <<>>]
      /\ rows' = [rows EXCEPT ![k] = Feed!AppendBatch(rows[k], buffer[k], limit[k])]
  BY DEF Feed!Take, Feed!Receive, ListInv, ListType
<1>2. ListType /\ Shows(k) /\ \A j \in Feeds : Shows(j)
  BY DEF ListInv, AllShow
<1> DEFINE v == Feed!AppendBatch(rows[k], buffer[k], limit[k])
<1>3. /\ InRow(v, <<>>, items[k]) /\ v \in Numbers
      /\ NoGap(rows[k], buffer[k], items[k], cleared[k], limit[k])
           => NoGap(v, <<>>, items[k], cleared[k], limit[k])
  BY <1>2, Typed, BatchShown DEF Shows
<1>4. rows' = [rows EXCEPT ![k] = v]
  BY <1>1
<1> HIDE DEF v
<1>5. ListType'
  <2>1. <<>> \in Numbers
    BY EmptySeq DEF Numbers
  <2>2. buffer' \in [Feeds -> Numbers] /\ rows' \in [Feeds -> Numbers]
    BY <1>1, <1>2, <1>3, <1>4, <2>1 DEF ListType
  <2> QED BY <1>2, <2>2 DEF ListType
<1>6. ASSUME NEW j \in Feeds PROVE Shows(j)'
  <2>1. CASE j = k
    <3>1. buffer'[j] = <<>> /\ rows'[j] = v
      BY <1>1, <1>2, <1>4, <2>1 DEF ListType
    <3> QED BY <1>2, <1>3, <2>1, <3>1 DEF Shows, Live
  <2>2. CASE j # k
    <3>1. buffer'[j] = buffer[j] /\ rows'[j] = rows[j]
      BY <1>1, <1>2, <1>4, <2>2 DEF ListType
    <3> QED BY <1>2, <3>1, ShownBefore DEF Live
  <2> QED BY <2>1, <2>2
<1> QED BY <1>5, <1>6 DEF AllShow

\* What is cleared is counted as cleared.
LEMMA ClearedIsCounted ==
  ASSUME ListInv, NEW k \in Feeds, Feed!ClearKind(k), UNCHANGED <<items, cap, limit, ending, raised>>
  PROVE  ListType' /\ AllShow'
<1>1. /\ buffer' = [buffer EXCEPT ![k] = <<>>] /\ rows' = [rows EXCEPT ![k] = <<>>]
      /\ cleared' = [cleared EXCEPT ![k] = items[k]]
  BY DEF Feed!ClearKind, Feed!Take
<1>2. ListType /\ Shows(k) /\ \A j \in Feeds : Shows(j)
  BY DEF ListInv, AllShow
<1>3. InRow(<<>>, <<>>, items[k]) /\ NoGap(<<>>, <<>>, items[k], items[k], limit[k])
  BY <1>2, Typed, Emptied DEF Shows
<1>4. ListType'
  <2>1. <<>> \in Numbers
    BY EmptySeq DEF Numbers
  <2>2. buffer' \in [Feeds -> Numbers] /\ rows' \in [Feeds -> Numbers] /\ cleared' \in [Feeds -> Nat]
    BY <1>1, <1>2, <2>1 DEF ListType
  <2> QED BY <1>2, <2>2 DEF ListType
<1>5. ASSUME NEW j \in Feeds PROVE Shows(j)'
  <2>1. CASE j = k
    <3>1. buffer'[j] = <<>> /\ rows'[j] = <<>> /\ cleared'[j] = items[k]
      BY <1>1, <1>2, <2>1 DEF ListType
    <3> QED BY <1>3, <2>1, <3>1 DEF Shows
  <2>2. CASE j # k
    <3>1. buffer'[j] = buffer[j] /\ rows'[j] = rows[j] /\ cleared'[j] = cleared[j]
      BY <1>1, <1>2, <2>2 DEF ListType
    <3> QED BY <1>2, <3>1, ShownBefore DEF Live
  <2> QED BY <2>1, <2>2
<1> QED BY <1>4, <1>5 DEF AllShow

\* An item appended to a buffer keeps the lists in a row.
LEMMA ItemListed == ASSUME ListInv, WayInv, NEW p \in {p1, p2}, Feed!AppendItem(p) PROVE ListInv'
<1> DEFINE k == publisher[p][2]
<1>1. k \in Feeds
  <2>1. publisher[p] \in Callers /\ publisher[p][1] = "append"
    BY DEF Feed!AppendItem, Feed!At, WayInv, WayType
  <2> QED BY <2>1 DEF Callers
<1>2. /\ buffer' = [buffer EXCEPT ![k] = Feed!Last(Append(buffer[k], items[k] + 1), cap[k])]
      /\ items' = [items EXCEPT ![k] = items[k] + 1]
      /\ UNCHANGED <<cap, timer, gui, want, rows, limit, ending, cleared, raised>>
  BY <1>1 DEF Feed!AppendItem, Feed!shell, ListInv, ListType
<1> HIDE DEF k
<1>3. ListType /\ Shows(k) /\ \A j \in Feeds : Shows(j)
  BY <1>1 DEF ListInv, AllShow
<1> DEFINE b == Feed!Last(Append(buffer[k], items[k] + 1), cap[k])
<1>4. /\ InRow(rows[k], b, items[k] + 1) /\ b \in Numbers
      /\ cap[k] >= limit[k] /\ NoGap(rows[k], buffer[k], items[k], cleared[k], limit[k])
           => NoGap(rows[k], b, items[k] + 1, cleared[k], limit[k])
  BY <1>1, <1>3, Typed, ItemAdded DEF Shows
<1>5. buffer' = [buffer EXCEPT ![k] = b]
  BY <1>2
<1> HIDE DEF b
<1>6. ListType'
  <2>1. buffer' \in [Feeds -> Numbers] /\ items' \in [Feeds -> Nat]
    BY <1>1, <1>2, <1>3, <1>4, <1>5 DEF ListType
  <2> QED BY <1>2, <1>3, <2>1 DEF ListType
<1>7. Room' /\ Changing'
  BY <1>2 DEF ListInv, Room, Changing
<1>8. ASSUME NEW j \in Feeds PROVE Shows(j)'
  <2>1. CASE j = k
    <3>1. buffer'[j] = b /\ items'[j] = items[k] + 1
      BY <1>1, <1>2, <1>3, <1>5, <2>1 DEF ListType
    <3>2. Live => cap[k] >= limit[k]
      BY <1>1 DEF ListInv, Room, Live
    <3> QED BY <1>2, <1>3, <1>4, <2>1, <3>1, <3>2 DEF Shows, Live
  <2>2. CASE j # k
    <3>1. buffer'[j] = buffer[j] /\ items'[j] = items[j]
      BY <1>1, <1>2, <1>3, <1>5, <2>2 DEF ListType
    <3> QED BY <1>2, <1>3, <3>1, ShownBefore DEF Live
  <2> QED BY <2>1, <2>2
<1> QED BY <1>6, <1>7, <1>8 DEF ListInv, AllShow

\* The list of kind k is limited, and its buffer not yet.
LEMMA RowsLimited ==
  ASSUME ListType, AllShow, NEW k \in Feeds, NEW n \in Nat \ {0}, Feed!LimitRows(k, n),
         UNCHANGED <<buffer, items, cleared, cap, ending>>, raised' \in BOOLEAN,
         raised' = FALSE => raised = FALSE /\ n <= limit[k]
  PROVE  ListType' /\ AllShow' /\ limit'[k] = n /\ \A j \in Feeds : j # k => limit'[j] = limit[j]
<1> DEFINE v == Feed!Last(rows[k], n)
<1>1. rows' = [rows EXCEPT ![k] = v] /\ limit' = [limit EXCEPT ![k] = n]
  BY DEF Feed!LimitRows, ListType
<1>2. Shows(k) /\ \A j \in Feeds : Shows(j)
  BY DEF AllShow
<1>3. v \in Numbers
  BY Typed, LastOf
<1>4. /\ InRow(v, buffer[k], items[k])
      /\ n <= limit[k] /\ NoGap(rows[k], buffer[k], items[k], cleared[k], limit[k])
           => NoGap(v, buffer[k], items[k], cleared[k], n)
  BY <1>2, Typed, RowsCut DEF Shows
<1> HIDE DEF v
<1>5. ListType'
  <2>1. rows' \in [Feeds -> Numbers] /\ limit' \in [Feeds -> Nat \ {0}]
    BY <1>1, <1>3 DEF ListType
  <2> QED BY <2>1 DEF ListType
<1>6. limit'[k] = n /\ rows'[k] = v /\ \A j \in Feeds : j # k => limit'[j] = limit[j] /\ rows'[j] = rows[j]
  BY <1>1 DEF ListType
<1>7. ASSUME NEW j \in Feeds PROVE Shows(j)'
  <2>1. CASE j = k
    BY <1>2, <1>4, <1>6, <2>1 DEF Shows, Live
  <2>2. CASE j # k
    BY <1>2, <1>6, <2>2, ShownBefore DEF Live
  <2> QED BY <2>1, <2>2
<1> QED BY <1>5, <1>6, <1>7 DEF AllShow

\* The buffer of kind k is limited, to no less than its list shows.
LEMMA BufferLimited ==
  ASSUME ListType, AllShow, NEW k \in Feeds, NEW n \in Nat \ {0}, NEW b,
         b = [buffer EXCEPT ![k] = Feed!Last(buffer[k], n)], raised = FALSE => n >= limit[k]
  PROVE  /\ b \in [Feeds -> Numbers]
         /\ \A j \in Feeds : /\ InRow(rows[j], b[j], items[j])
                             /\ Live => NoGap(rows[j], b[j], items[j], cleared[j], limit[j])
                             /\ b[j] # <<>> => buffer[j] # <<>>
<1> DEFINE v == Feed!Last(buffer[k], n)
<1>1. \A j \in Feeds : Shows(j)
  BY DEF AllShow
<1>2. v \in Numbers
  BY Typed, LastOf
<1>3. /\ InRow(rows[k], v, items[k]) /\ (v # <<>> => buffer[k] # <<>>)
      /\ n >= limit[k] /\ NoGap(rows[k], buffer[k], items[k], cleared[k], limit[k])
           => NoGap(rows[k], v, items[k], cleared[k], limit[k])
  BY <1>1, Typed, BufferCut DEF Shows
<1>4. b = [buffer EXCEPT ![k] = v]
  OBVIOUS
<1> HIDE DEF v
<1>5. b \in [Feeds -> Numbers] /\ b[k] = v /\ \A j \in Feeds : j # k => b[j] = buffer[j]
  BY <1>2, <1>4 DEF ListType
<1>6. ASSUME NEW j \in Feeds
      PROVE  /\ InRow(rows[j], b[j], items[j])
             /\ Live => NoGap(rows[j], b[j], items[j], cleared[j], limit[j])
             /\ b[j] # <<>> => buffer[j] # <<>>
  <2>1. CASE j = k
    BY <1>1, <1>3, <1>5, <2>1 DEF Shows, Live
  <2>2. CASE j # k
    BY <1>1, <1>5, <2>2 DEF Shows
  <2> QED BY <2>1, <2>2
<1> QED BY <1>5, <1>6

\* The first step of a new limit, in the event buffer, keeps the lists.
LEMMA LimitListed == ASSUME ListInv, Feed!Limit PROVE ListInv'
<1>1. PICK n \in FeedLimits :
        /\ gui = "idle" /\ gui' = "limit" /\ want' = n
        /\ raised' = (raised \/ \E k \in Feed!Timed : n > limit[k])
        /\ IF "comment" \in Feeds THEN Feed!LimitRows("comment", n) ELSE UNCHANGED <<rows, limit>>
        /\ UNCHANGED <<buffer, pending, cap, closed, ending, items, cleared>>
  BY DEF Feed!Limit, Feed!Idle, Feed!events
<1>2. n \in Nat \ {0}
  BY DesktopAssumption DEF DesktopAssumption, Feed!FeedAssumption
<1>3. ListType /\ AllShow /\ raised \in BOOLEAN
  BY DEF ListInv, ListType
<1>4. raised' \in BOOLEAN
  BY <1>1, <1>3
<1>5. ASSUME raised' = FALSE PROVE raised = FALSE /\ \A k \in Feeds \ {"progress"} : n <= limit[k]
  <2>1. raised = FALSE /\ ~(\E k \in Feed!Timed : n > limit[k])
    BY <1>1, <1>3, <1>5
  <2>2. ASSUME NEW k \in Feeds \ {"progress"} PROVE n <= limit[k]
    <3>1. k \in Feed!Timed /\ limit[k] \in Nat
      BY <1>3 DEF Feed!Timed, ListType
    <3> QED BY <1>2, <2>1, <3>1
  <2> QED BY <2>1, <2>2
<1>6. /\ ListType' /\ AllShow'
      /\ "comment" \in Feeds => limit'["comment"] = n
      /\ \A j \in Feeds : j # "comment" => limit'[j] = limit[j]
  <2>1. CASE "comment" \in Feeds
    <3>1. raised' = FALSE => raised = FALSE /\ n <= limit["comment"]
      BY <1>5, <2>1
    <3> QED BY <1>1, <1>2, <1>3, <1>4, <2>1, <3>1, RowsLimited
  <2>2. CASE ~("comment" \in Feeds)
    <3>1. UNCHANGED <<rows, limit, buffer, items, cleared, cap, ending>>
      BY <1>1, <2>2
    <3>2. ListType'
      BY <1>3, <1>4, <3>1 DEF ListType
    <3>3. Live' => Live
      BY <1>5, <3>1 DEF Live
    <3>4. ASSUME NEW k \in Feeds PROVE Shows(k)'
      BY <1>3, <3>1, <3>3, ShownBefore DEF AllShow
    <3> QED BY <2>2, <3>1, <3>2, <3>4 DEF AllShow
  <2> QED BY <2>1, <2>2
<1>7. Room'
  <2>1. ASSUME raised' = FALSE, NEW k \in Feeds PROVE cap'[k] >= limit'[k]
    <3>1. cap'[k] = cap[k] /\ cap[k] >= limit[k] /\ cap[k] \in Nat /\ limit[k] \in Nat
      BY <1>1, <1>3, <1>5, <2>1 DEF ListInv, Room, ListType
    <3>2. CASE k = "comment"
      <4>1. n <= limit["comment"] /\ limit'["comment"] = n
        BY <1>5, <1>6, <2>1, <3>2
      <4>2. cap'["comment"] >= limit["comment"] /\ cap'["comment"] \in Nat /\ limit["comment"] \in Nat
        BY <3>1, <3>2
      <4>3. cap'["comment"] >= n
        BY <1>2, <4>1, <4>2
      <4> QED BY <3>2, <4>1, <4>3
    <3>3. CASE k # "comment"
      BY <1>6, <3>1, <3>3
    <3> QED BY <3>2, <3>3
  <2> QED BY <2>1 DEF Room
<1>8. Changing'
  <2>1. "log" \in Feeds => limit'["log"] = limit["log"] /\ (raised' = FALSE => n <= limit["log"])
    BY <1>5, <1>6
  <2> QED BY <1>1, <1>6, <2>1 DEF Changing
<1> QED BY <1>6, <1>7, <1>8 DEF ListInv

\* The second, which cuts the list of comments, keeps them.
LEMMA LimitCommentsListed == ASSUME ListInv, Feed!LimitComments PROVE ListInv'
<1>1. /\ gui = "limit" /\ gui' = "logs"
      /\ IF "comment" \in Feeds THEN Feed!LimitBuffer("comment", want) ELSE UNCHANGED <<cap, buffer>>
      /\ UNCHANGED <<want, rows, limit, ending, items, cleared, raised>>
  BY DEF Feed!LimitComments, Feed!bounds
<1>2. ListType /\ AllShow /\ want \in Nat \ {0}
  BY <1>1, DesktopAssumption DEF ListInv, Changing, DesktopAssumption, Feed!FeedAssumption
<1>3. Changing'
  BY <1>1 DEF ListInv, Changing
<1>4. CASE "comment" \in Feeds
  <2>1. /\ cap' = [cap EXCEPT !["comment"] = want]
        /\ buffer' = [buffer EXCEPT !["comment"] = Feed!Last(buffer["comment"], want)]
    BY <1>1, <1>4 DEF Feed!LimitBuffer, ListInv, ListType
  <2>2. limit["comment"] = want /\ (raised = FALSE => want >= limit["comment"])
    BY <1>1, <1>2, <1>4 DEF ListInv, Changing
  <2>3. /\ buffer' \in [Feeds -> Numbers]
        /\ \A j \in Feeds : /\ InRow(rows[j], buffer'[j], items[j])
                            /\ Live => NoGap(rows[j], buffer'[j], items[j], cleared[j], limit[j])
    BY <1>2, <1>4, <2>1, <2>2, BufferLimited
  <2>4. ListType' /\ AllShow'
    BY <1>1, <1>2, <2>1, <2>3 DEF ListType, AllShow, Shows, Live
  <2>5. Room'
    <3>1. ASSUME raised' = FALSE, NEW k \in Feeds PROVE cap'[k] >= limit'[k]
      <4>1. CASE k = "comment"
        BY <1>1, <1>2, <1>4, <2>1, <2>2, <4>1 DEF ListType
      <4>2. CASE k # "comment"
        BY <1>1, <1>2, <2>1, <3>1, <4>2 DEF ListInv, Room, ListType
      <4> QED BY <4>1, <4>2
    <3> QED BY <3>1 DEF Room
  <2> QED BY <1>3, <2>4, <2>5 DEF ListInv
<1>5. CASE ~("comment" \in Feeds)
  <2>1. UNCHANGED <<buffer, cap, rows, limit, ending, items, cleared, raised>>
    BY <1>1, <1>5
  <2> QED BY <1>2, <1>3, <2>1 DEF ListInv, ListType, Room, AllShow, Shows, Live
<1> QED BY <1>4, <1>5

\* The third, which cuts the list of log lines, keeps them.
LEMMA LimitLogsListed == ASSUME ListInv, Feed!LimitLogs PROVE ListInv'
<1>1. /\ gui = "logs" /\ gui' = "idle"
      /\ IF "log" \in Feeds THEN Feed!LimitBuffer("log", want) /\ Feed!LimitRows("log", want)
                            ELSE UNCHANGED <<cap, buffer, rows, limit>>
      /\ UNCHANGED <<want, ending, items, cleared, raised>>
  BY DEF Feed!LimitLogs, Feed!bounds
<1>2. ListType /\ AllShow /\ want \in Nat \ {0}
  BY <1>1, DesktopAssumption DEF ListInv, Changing, DesktopAssumption, Feed!FeedAssumption
<1>3. Changing'
  BY <1>1 DEF Changing
<1>4. CASE "log" \in Feeds
  <2> DEFINE b == Feed!Last(buffer["log"], want)
             v == Feed!Last(rows["log"], want)
  <2>1. /\ cap' = [cap EXCEPT !["log"] = want] /\ limit' = [limit EXCEPT !["log"] = want]
        /\ buffer' = [buffer EXCEPT !["log"] = b] /\ rows' = [rows EXCEPT !["log"] = v]
    BY <1>1, <1>4 DEF Feed!LimitBuffer, Feed!LimitRows, ListInv, ListType
  <2>2. raised = FALSE => want <= limit["log"]
    BY <1>1, <1>4 DEF ListInv, Changing
  <2>3. Shows("log") /\ b \in Numbers /\ v \in Numbers
    BY <1>2, <1>4, Typed, LastOf DEF AllShow
  <2>4. /\ InRow(v, buffer["log"], items["log"])
        /\ want <= limit["log"] /\ NoGap(rows["log"], buffer["log"], items["log"], cleared["log"], limit["log"])
             => NoGap(v, buffer["log"], items["log"], cleared["log"], want)
    BY <1>2, <1>4, <2>3, Typed, RowsCut DEF Shows
  <2> HIDE DEF v
  <2>5. /\ InRow(v, b, items["log"])
        /\ NoGap(v, buffer["log"], items["log"], cleared["log"], want) => NoGap(v, b, items["log"], cleared["log"], want)
    <3>1. want \in Nat /\ want >= want
      BY <1>2
    <3> QED BY <1>2, <1>4, <2>3, <2>4, <3>1, Typed, BufferCut
  <2> HIDE DEF b
  <2>6. ListType'
    <3>1. buffer' \in [Feeds -> Numbers] /\ rows' \in [Feeds -> Numbers]
      BY <1>2, <2>1, <2>3 DEF ListType
    <3>2. cap' \in [Feeds -> Nat \ {0}] /\ limit' \in [Feeds -> Nat \ {0}]
      BY <1>2, <2>1 DEF ListType
    <3> QED BY <1>1, <1>2, <3>1, <3>2 DEF ListType
  <2>7. /\ buffer'["log"] = b /\ rows'["log"] = v /\ cap'["log"] = want /\ limit'["log"] = want
        /\ \A j \in Feeds : j # "log" => /\ buffer'[j] = buffer[j] /\ rows'[j] = rows[j]
                                         /\ cap'[j] = cap[j] /\ limit'[j] = limit[j]
    BY <1>2, <1>4, <2>1 DEF ListType
  <2>8. ASSUME NEW k \in Feeds PROVE Shows(k)'
    <3>1. CASE k = "log"
      BY <1>1, <2>2, <2>3, <2>4, <2>5, <2>7, <3>1 DEF Shows, Live
    <3>2. CASE k # "log"
      BY <1>1, <1>2, <2>7, <3>2, ShownBefore DEF AllShow, Live
    <3> QED BY <3>1, <3>2
  <2>9. Room'
    <3>1. ASSUME raised' = FALSE, NEW k \in Feeds PROVE cap'[k] >= limit'[k]
      BY <1>1, <1>2, <2>7, <3>1 DEF ListInv, Room
    <3> QED BY <3>1 DEF Room
  <2> QED BY <1>3, <2>6, <2>8, <2>9 DEF ListInv, AllShow
<1>5. CASE ~("log" \in Feeds)
  <2>1. UNCHANGED <<buffer, cap, rows, limit, ending, items, cleared, raised>>
    BY <1>1, <1>5
  <2> QED BY <1>2, <1>3, <2>1 DEF ListInv, ListType, Room, AllShow, Shows, Live
<1> QED BY <1>4, <1>5

\* A step that leaves the lists alone, or ends them.
LEMMA ListsLeft ==
  ASSUME ListInv, UNCHANGED <<cap, rows, limit, items, cleared, raised>>,
         buffer' = buffer \/ (buffer' = [k \in Feeds |-> <<>>] /\ ending' = TRUE),
         ending' \in BOOLEAN, ending' = FALSE => ending = FALSE
  PROVE  ListType' /\ Room' /\ AllShow'
<1>1. ListType /\ AllShow /\ Room
  BY DEF ListInv
<1>2. <<>> \in Numbers
  BY EmptySeq DEF Numbers
<1>3. buffer' \in [Feeds -> Numbers]
  BY <1>1, <1>2 DEF ListType
<1>4. ListType' /\ Room'
  BY <1>1, <1>3 DEF ListType, Room
<1>5. ASSUME NEW k \in Feeds PROVE Shows(k)'
  <2>1. Shows(k) /\ (Live' => Live)
    BY <1>1 DEF AllShow, Live
  <2>2. CASE buffer' = buffer
    BY <2>1, <2>2, ShownBefore
  <2>3. CASE buffer' = [j \in Feeds |-> <<>>] /\ ending' = TRUE
    <3>1. InRow(rows[k], <<>>, items[k])
      BY <1>1, <2>1, Typed, Emptied DEF Shows
    <3> QED BY <2>3, <3>1 DEF Shows, Live
  <2> QED BY <2>2, <2>3
<1> QED BY <1>4, <1>5 DEF AllShow

\* Every step of the feed keeps the invariant of the lists.
LEMMA FeedLists == ASSUME ListInv, WayInv, Feed!Next PROVE ListInv'
<1>1. ListType
  BY DEF ListInv
<1>2. ASSUME UNCHANGED <<buffer, cap, rows, limit, items, cleared, raised, ending, gui, want>> PROVE ListInv'
  <2>1. Changing'
    BY <1>2 DEF ListInv, Changing
  <2> QED BY <1>1, <1>2, <2>1, ListsLeft DEF ListInv, ListType
<1>3. ASSUME gui' \notin {"limit", "logs"} PROVE Changing'
  BY <1>3 DEF Changing
<1>4. ASSUME NEW p \in {p1, p2}, NEW k \in Feeds, Feed!Publish(p, k) PROVE ListInv'
  BY <1>2, <1>4 DEF Feed!Publish, Feed!events, Feed!shell, Feed!bounds
<1>5. ASSUME NEW p \in {p1, p2}, Feed!Emit(p) PROVE ListInv'
  BY <1>2, <1>5 DEF Feed!Emit, Feed!events, Feed!shell, Feed!bounds
<1>6. CASE Feed!Shutdown
  BY <1>2, <1>6 DEF Feed!Shutdown, Feed!events, Feed!shell, Feed!bounds
<1>7. CASE Feed!DeliverReady
  BY <1>2, <1>7 DEF Feed!DeliverReady, Feed!events, Feed!bounds
<1>8. CASE Feed!RefreshProgress
  <2>1. /\ gui = "idle" /\ Feed!Take("progress")
        /\ IF ending THEN UNCHANGED rows ELSE Feed!Receive("progress")
        /\ UNCHANGED <<cap, gui, want, limit, ending, items, cleared, raised>>
    BY <1>8 DEF Feed!RefreshProgress, Feed!Signal, Feed!bounds
  <2>2. Room' /\ Changing'
    BY <2>1 DEF ListInv, Room, Changing
  <2>3. CASE "progress" \in Feeds /\ ending = FALSE
    <3>1. ListType' /\ AllShow'
      BY <2>1, <2>3, TakenIsShown
    <3> QED BY <2>2, <3>1 DEF ListInv
  <2>4. CASE "progress" \in Feeds /\ ending = TRUE
    <3>1. buffer' = [buffer EXCEPT !["progress"] = <<>>] /\ rows' = rows /\ <<>> \in Numbers
      BY <2>1, <2>4, EmptySeq DEF Feed!Take, Numbers
    <3>2. ListType'
      BY <1>1, <2>1, <3>1 DEF ListType
    <3>3. ASSUME NEW k \in Feeds PROVE Shows(k)'
      <4>1. InRow(rows[k], buffer[k], items[k])
        BY DEF ListInv, AllShow, Shows
      <4>2. InRow(rows[k], <<>>, items[k])
        BY <1>1, <4>1, Typed, Emptied
      <4>3. buffer'[k] = buffer[k] \/ buffer'[k] = <<>>
        BY <1>1, <3>1 DEF ListType
      <4> QED BY <2>1, <2>4, <3>1, <4>1, <4>2, <4>3 DEF Shows, Live
    <3> QED BY <2>2, <3>2, <3>3 DEF ListInv, AllShow
  <2>5. CASE ~("progress" \in Feeds)
    <3>1. "progress" \in {"comment", "log", "progress"}
      OBVIOUS
    <3>2. buffer' = buffer
      BY <1>1, <2>1, <2>5 DEF Feed!Take, ListType
    <3>3. rows' = rows
      BY <1>1, <2>1, <2>5 DEF Feed!Receive, ListType
    <3> QED BY <1>2, <2>1, <3>2, <3>3
  <2> QED BY <1>1, <2>3, <2>4, <2>5 DEF ListType
<1>9. CASE Feed!FlushLogs
  <2>1. /\ gui' = "flush"
        /\ IF "log" \in Feeds THEN Feed!Take("log") /\ Feed!Receive("log") ELSE UNCHANGED <<buffer, pending, rows>>
        /\ UNCHANGED <<cap, want, limit, ending, items, cleared, raised>>
    BY <1>9 DEF Feed!FlushLogs, Feed!bounds
  <2>2. Room' /\ Changing'
    BY <1>3, <2>1 DEF ListInv, Room
  <2>3. ListType' /\ AllShow'
    <3>1. CASE "log" \in Feeds
      BY <2>1, <3>1, TakenIsShown
    <3>2. CASE ~("log" \in Feeds)
      BY <1>1, <2>1, <3>2, ListsLeft DEF ListType
    <3> QED BY <3>1, <3>2
  <2> QED BY <2>2, <2>3 DEF ListInv
<1>10. CASE Feed!FlushComments
  <2>1. /\ gui' = "idle"
        /\ IF "comment" \in Feeds THEN Feed!Take("comment") /\ Feed!Receive("comment")
                                  ELSE UNCHANGED <<buffer, pending, rows>>
        /\ UNCHANGED <<cap, want, limit, ending, items, cleared, raised>>
    BY <1>10 DEF Feed!FlushComments, Feed!bounds
  <2>2. Room' /\ Changing'
    BY <1>3, <2>1 DEF ListInv, Room
  <2>3. ListType' /\ AllShow'
    <3>1. CASE "comment" \in Feeds
      BY <2>1, <3>1, TakenIsShown
    <3>2. CASE ~("comment" \in Feeds)
      BY <1>1, <2>1, <3>2, ListsLeft DEF ListType
    <3> QED BY <3>1, <3>2
  <2> QED BY <2>2, <2>3 DEF ListInv
<1>11. CASE Feed!ClearLogs
  <2>1. /\ gui' = "clear"
        /\ IF "log" \in Feeds THEN Feed!ClearKind("log") ELSE UNCHANGED <<buffer, pending, rows, cleared>>
        /\ UNCHANGED <<cap, want, limit, ending, items, raised>>
    BY <1>11 DEF Feed!ClearLogs
  <2>2. Room' /\ Changing'
    BY <1>3, <2>1 DEF ListInv, Room
  <2>3. ListType' /\ AllShow'
    <3>1. CASE "log" \in Feeds
      BY <2>1, <3>1, ClearedIsCounted
    <3>2. CASE ~("log" \in Feeds)
      BY <1>1, <2>1, <3>2, ListsLeft DEF ListType
    <3> QED BY <3>1, <3>2
  <2> QED BY <2>2, <2>3 DEF ListInv
<1>12. CASE Feed!ClearComments
  <2>1. /\ gui' = "idle"
        /\ IF "comment" \in Feeds THEN Feed!ClearKind("comment") ELSE UNCHANGED <<buffer, pending, rows, cleared>>
        /\ UNCHANGED <<cap, want, limit, ending, items, raised>>
    BY <1>12 DEF Feed!ClearComments
  <2>2. Room' /\ Changing'
    BY <1>3, <2>1 DEF ListInv, Room
  <2>3. ListType' /\ AllShow'
    <3>1. CASE "comment" \in Feeds
      BY <2>1, <3>1, ClearedIsCounted
    <3>2. CASE ~("comment" \in Feeds)
      BY <1>1, <2>1, <3>2, ListsLeft DEF ListType
    <3> QED BY <3>1, <3>2
  <2> QED BY <2>2, <2>3 DEF ListInv
<1>13. CASE Feed!End
  <2>1. gui' = "end" /\ ending' = TRUE /\ UNCHANGED <<buffer, cap, rows, limit, items, cleared, raised>>
    BY <1>13 DEF Feed!End, Feed!events, Feed!bounds
  <2> QED BY <1>3, <2>1, ListsLeft DEF ListInv
<1>14. CASE Feed!CloseEvents
  <2>1. /\ gui = "end" /\ gui' = "idle" /\ buffer' = [k \in Feeds |-> <<>>]
        /\ UNCHANGED <<cap, rows, limit, ending, items, cleared, raised>>
    BY <1>14 DEF Feed!CloseEvents, Feed!bounds
  <2>2. ending = TRUE
    BY <2>1 DEF WayInv, EndingSaid
  <2> QED BY <1>3, <2>1, <2>2, ListsLeft DEF ListInv
<1> QED BY <1>4, <1>5, <1>6, <1>7, <1>8, <1>9, <1>10, <1>11, <1>12, <1>13, <1>14,
           ItemListed, LimitListed, LimitCommentsListed, LimitLogsListed DEF Feed!Next, Feed!Gui

\* What is appended to a line is in it, with what was there before.
LEMMA LineGrows ==
  ASSUME NEW S, NEW line \in Seq(S), NEW x \in S
  PROVE  /\ Append(line, x) \in Seq(S) /\ InLine(x, Append(line, x))
         /\ \A k : InLine(k, line) => InLine(k, Append(line, x))
<1> DEFINE t == Append(line, x)
<1>1. t \in Seq(S) /\ Len(t) = Len(line) + 1 /\ t[Len(line) + 1] = x /\ \A i \in 1 .. Len(line) : t[i] = line[i]
  BY AppendProperties
<1> HIDE DEF t
<1>2. Len(line) \in Nat /\ DOMAIN line = 1 .. Len(line) /\ DOMAIN t = 1 .. Len(line) + 1
  BY <1>1, LenProperties
<1>3. Len(line) + 1 \in DOMAIN t /\ DOMAIN line \subseteq DOMAIN t
  BY <1>2
<1> QED BY <1>1, <1>2, <1>3 DEF InLine, t

\* What is taken off a line is its first entry; the others stay.
LEMMA LineServed ==
  ASSUME NEW S, NEW line \in Seq(S), line # <<>>
  PROVE  /\ Tail(line) \in Seq(S) /\ Head(line) \in S
         /\ \A k : InLine(k, line) /\ k # Head(line) => InLine(k, Tail(line))
<1> DEFINE t == Tail(line)
<1>1. t \in Seq(S) /\ Len(t) = Len(line) - 1 /\ \A i \in 1 .. Len(t) : t[i] = line[i + 1]
  BY HeadTailProperties
<1> HIDE DEF t
<1>2. Len(line) \in Nat /\ DOMAIN line = 1 .. Len(line) /\ DOMAIN t = 1 .. Len(t)
  BY <1>1, LenProperties
<1>3. Head(line) \in S /\ Head(line) = line[1]
  BY HeadTailProperties
<1>4. ASSUME NEW k, NEW i \in DOMAIN line, line[i] = k, k # Head(line) PROVE InLine(k, t)
  <2>1. i # 1
    BY <1>3, <1>4
  <2>2. i - 1 \in DOMAIN t /\ (i - 1) + 1 = i
    BY <1>1, <1>2, <2>1
  <2>3. t[i - 1] = k
    BY <1>1, <1>2, <1>4, <2>2
  <2> QED BY <2>2, <2>3 DEF InLine
<1> QED BY <1>1, <1>3, <1>4 DEF InLine, t

\* What was told before is told still, when no kind waits that did not.
LEMMA StillTold ==
  ASSUME WayInv,
         ending' = FALSE => /\ ending = FALSE
                            /\ \A k \in Feeds : buffer'[k] # <<>> => buffer[k] # <<>>
                            /\ \A k \in Feeds : k # "progress" /\ pending'[k] = TRUE => pending[k] = TRUE
                            /\ \A k \in Feeds : buffer'[k] # <<>> \/ (k # "progress" /\ pending'[k] = TRUE)
                                                  => (Told(k) => Told(k)')
  PROVE  Coming'
BY DEF WayInv, Coming

\* Whoever appends an item signals it, or finds it signalled.
LEMMA WayOfPublishing ==
  ASSUME ListType, WayInv, NEW p \in {p1, p2},
         (\E k \in Feeds : Feed!Publish(p, k)) \/ Feed!AppendItem(p) \/ Feed!Emit(p)
  PROVE  WayInv'
<1>1. WayType /\ publisher[p] \in Callers
  BY DEF WayInv, WayType
<1>2. ASSUME NEW k \in Feeds, Feed!Publish(p, k) PROVE WayInv'
  <2>1. /\ publisher[p][1] = "idle" /\ publisher' = [publisher EXCEPT ![p] = <<"append", k>>]
        /\ UNCHANGED <<buffer, pending, signals, timer, gui, ending>>
    BY <1>2 DEF Feed!Publish, Feed!At, Feed!Moves, Feed!events, Feed!shell
  <2>2. publisher' \in [{p1, p2} -> Callers]
    BY <1>1, <2>1 DEF WayType, Callers
  <2>3. ASSUME NEW j, Told(j) PROVE Told(j)'
    <3>1. ASSUME NEW q \in {p1, p2}, publisher[q] = <<"notify", j>> PROVE publisher'[q] = <<"notify", j>>
      BY <1>1, <2>1, <3>1 DEF WayType
    <3> QED BY <2>1, <2>3, <3>1 DEF Told
  <2>4. Coming'
    BY <2>1, <2>3, StillTold
  <2> QED BY <1>1, <2>1, <2>2, <2>4 DEF WayInv, WayType, EndingSaid
<1>3. CASE Feed!AppendItem(p)
  <2>1. PICK k \in Feeds : publisher[p] = <<"append", k>>
    BY <1>1, <1>3 DEF Feed!AppendItem, Feed!At, Callers
  <2>2. /\ pending' = [pending EXCEPT ![k] = TRUE]
        /\ IF Feed!Due(k) THEN publisher' = [publisher EXCEPT ![p] = <<"idle", "none">>]
                          ELSE publisher' = [publisher EXCEPT ![p] = <<"notify", k>>]
        /\ UNCHANGED <<signals, timer, gui, ending>>
    BY <1>3, <2>1 DEF Feed!AppendItem, Feed!Moves, Feed!shell
  <2>3. buffer' = [buffer EXCEPT ![k] = Feed!Last(Append(buffer[k], items[k] + 1), cap[k])]
    BY <1>3, <2>1 DEF Feed!AppendItem, ListType
  <2>4. \A j \in Feeds : j # k => buffer'[j] = buffer[j] /\ pending'[j] = pending[j]
    BY <1>1, <2>2, <2>3 DEF ListType, WayType
  <2>5. publisher' \in [{p1, p2} -> Callers]
    BY <1>1, <2>1, <2>2 DEF WayType, Callers
  <2>6. ASSUME NEW j, Told(j) PROVE Told(j)'
    <3>1. ASSUME NEW q \in {p1, p2}, publisher[q] = <<"notify", j>> PROVE publisher'[q] = <<"notify", j>>
      BY <1>1, <2>1, <2>2, <3>1 DEF WayType
    <3> QED BY <2>2, <2>6, <3>1 DEF Told
  <2>7. ASSUME ending = FALSE PROVE Told(k)'
    <3>1. CASE Feed!Due(k)
      <4>1. buffer[k] # <<>> \/ (k # "progress" /\ pending[k] = TRUE)
        BY <1>1, <2>1, <3>1 DEF Feed!Due, WayType
      <4> QED BY <2>1, <2>6, <2>7, <4>1 DEF WayInv, Coming
    <3>2. CASE ~Feed!Due(k)
      <4>1. publisher'[p] = <<"notify", k>>
        BY <1>1, <2>2, <3>2 DEF WayType
      <4> QED BY <4>1 DEF Told
    <3> QED BY <3>1, <3>2
  <2>8. Coming'
    <3>1. ASSUME ending' = FALSE, NEW j \in Feeds, buffer'[j] # <<>> \/ (j # "progress" /\ pending'[j] = TRUE)
          PROVE  Told(j)'
      <4>1. CASE j = k
        BY <2>2, <2>7, <3>1, <4>1
      <4>2. CASE j # k
        <5>1. Told(j)
          BY <2>2, <2>4, <3>1, <4>2 DEF WayInv, Coming
        <5> QED BY <2>6, <5>1
      <4> QED BY <4>1, <4>2
    <3> QED BY <3>1 DEF Coming
  <2>9. pending' \in [Feeds -> BOOLEAN]
    BY <1>1, <2>1, <2>2 DEF WayType
  <2> QED BY <1>1, <2>2, <2>5, <2>8, <2>9 DEF WayInv, WayType, EndingSaid
<1>4. CASE Feed!Emit(p)
  <2> DEFINE k == publisher[p][2]
  <2>1. publisher[p] = <<"notify", k>> /\ k \in Feeds
    BY <1>1, <1>4 DEF Feed!Emit, Feed!At, Callers
  <2>2. /\ publisher' = [publisher EXCEPT ![p] = <<"idle", "none">>] /\ signals' = Append(signals, k)
        /\ UNCHANGED <<buffer, pending, timer, gui, ending>>
    BY <1>4 DEF Feed!Emit, Feed!Moves, Feed!events, Feed!shell
  <2> HIDE DEF k
  <2>3. publisher' \in [{p1, p2} -> Callers]
    BY <1>1, <2>2 DEF WayType, Callers
  <2>4. signals' \in Seq(Feeds \cup {"end"}) /\ InLine(k, signals') /\ \A j : InLine(j, signals) => InLine(j, signals')
    <3>1. k \in Feeds \cup {"end"} /\ signals \in Seq(Feeds \cup {"end"})
      BY <1>1, <2>1 DEF WayType
    <3> QED BY <2>2, <3>1, LineGrows
  <2>5. ASSUME NEW j, Told(j) PROVE Told(j)'
    <3>1. ASSUME NEW q \in {p1, p2}, publisher[q] = <<"notify", j>>
          PROVE  publisher'[q] = <<"notify", j>> \/ j = k
      BY <1>1, <2>1, <2>2, <3>1 DEF WayType
    <3> QED BY <2>2, <2>4, <2>5, <3>1 DEF Told
  <2>6. Coming'
    BY <2>2, <2>5, StillTold
  <2> QED BY <1>1, <2>2, <2>3, <2>4, <2>6 DEF WayInv, WayType, EndingSaid
<1> QED BY <1>2, <1>3, <1>4

\* What is taken does not wait, and a buffer that is cut waits only if it did.
LEMMA TakenWaitsNot ==
  ASSUME ListType, WayType, NEW k, Feed!Take(k)
  PROVE  /\ pending' \in [Feeds -> BOOLEAN]
         /\ \A j \in Feeds : IF j = k THEN buffer'[j] = <<>> /\ pending'[j] = FALSE
                                      ELSE buffer'[j] = buffer[j] /\ pending'[j] = pending[j]
BY DEF Feed!Take, ListType, WayType

\* A signal that arrives takes what it stands for, or starts the timer.
LEMMA WayOfSignals ==
  ASSUME ListType, WayInv, Feed!Shutdown \/ Feed!DeliverReady \/ Feed!RefreshProgress \/ Feed!End
  PROVE  WayInv'
<1> DEFINE S == Feeds \cup {"end"}
<1>1. WayType /\ signals \in Seq(S) /\ ending \in BOOLEAN /\ timer \in BOOLEAN
  BY DEF WayInv, WayType, ListType
<1>2. CASE Feed!Shutdown
  <2>1. signals' = Append(signals, "end") /\ UNCHANGED <<buffer, pending, publisher, timer, gui, ending>>
    BY <1>2 DEF Feed!Shutdown, Feed!events, Feed!shell
  <2>2. signals' \in Seq(S) /\ \A j : InLine(j, signals) => InLine(j, signals')
    <3>1. "end" \in S
      OBVIOUS
    <3> QED BY <1>1, <2>1, <3>1, LineGrows
  <2>3. \A j : Told(j) => Told(j)'
    BY <2>1, <2>2 DEF Told
  <2>4. Coming'
    BY <2>1, <2>3, StillTold
  <2> QED BY <1>1, <2>1, <2>2, <2>4 DEF WayInv, WayType, EndingSaid
<1>3. CASE Feed!DeliverReady
  <2>1. PICK k \in Feeds \ {"progress"} :
          /\ signals # <<>> /\ Head(signals) = k /\ gui = "idle" /\ signals' = Tail(signals)
          /\ timer' = (timer \/ ~ending) /\ UNCHANGED <<buffer, pending, publisher, gui, ending>>
    BY <1>3 DEF Feed!DeliverReady, Feed!Timed, Feed!Signal, Feed!Schedule, Feed!events
  <2>2. signals' \in Seq(S) /\ \A j : InLine(j, signals) /\ j # k => InLine(j, signals')
    BY <1>1, <2>1, LineServed
  <2>3. timer' \in BOOLEAN /\ (ending = FALSE => timer' = TRUE)
    BY <1>1, <2>1
  <2>4. ASSUME ending = FALSE, NEW j \in Feeds, Told(j) PROVE Told(j)'
    BY <2>1, <2>2, <2>3, <2>4 DEF Told
  <2>5. Coming'
    BY <2>1, <2>4, StillTold
  <2> QED BY <1>1, <2>1, <2>2, <2>3, <2>5 DEF WayInv, WayType, EndingSaid
<1>4. CASE Feed!RefreshProgress
  <2>1. /\ signals # <<>> /\ Head(signals) = "progress" /\ signals' = Tail(signals)
        /\ Feed!Take("progress") /\ UNCHANGED <<publisher, timer, gui, ending>>
    BY <1>4 DEF Feed!RefreshProgress, Feed!Signal
  <2>2. signals' \in Seq(S) /\ \A j : InLine(j, signals) /\ j # "progress" => InLine(j, signals')
    BY <1>1, <2>1, LineServed
  <2>3. /\ pending' \in [Feeds -> BOOLEAN]
        /\ \A j \in Feeds : IF j = "progress" THEN buffer'[j] = <<>> /\ pending'[j] = FALSE
                                              ELSE buffer'[j] = buffer[j] /\ pending'[j] = pending[j]
    BY <1>1, <2>1, TakenWaitsNot
  <2>4. ASSUME NEW j \in Feeds, j # "progress", Told(j) PROVE Told(j)'
    BY <2>1, <2>2, <2>4 DEF Told
  <2>5. Coming'
    BY <2>1, <2>3, <2>4, StillTold
  <2> QED BY <1>1, <2>1, <2>2, <2>3, <2>5 DEF WayInv, WayType, EndingSaid
<1>5. CASE Feed!End
  <2>1. /\ signals # <<>> /\ signals' = Tail(signals) /\ ending' = TRUE /\ timer' = FALSE
        /\ UNCHANGED <<pending, publisher>>
    BY <1>5 DEF Feed!End, Feed!Signal, Feed!events
  <2>2. signals' \in Seq(S)
    BY <1>1, <2>1, LineServed
  <2>3. Coming' /\ EndingSaid'
    BY <2>1 DEF Coming, EndingSaid
  <2> QED BY <1>1, <2>1, <2>2, <2>3 DEF WayInv, WayType
<1> QED BY <1>2, <1>3, <1>4, <1>5

\* The timer takes both timed buffers.
LEMMA WayOfFlushing ==
  ASSUME ListType, WayInv,
         Feed!FlushLogs \/ Feed!FlushComments \/ Feed!ClearLogs \/ Feed!ClearComments
  PROVE  WayInv'
<1>1. WayType
  BY DEF WayInv
<1>2. \A k \in {"log", "comment"} : Feed!ClearKind(k) => Feed!Take(k)
  BY DEF Feed!ClearKind
<1>3. ASSUME NEW k, gui' # "end", UNCHANGED <<publisher, signals, ending>>, timer' \in BOOLEAN,
             IF k \in Feeds THEN Feed!Take(k) ELSE UNCHANGED <<buffer, pending>>,
             ending = FALSE => \A j \in Feeds : j # k => (Told(j) => Told(j)')
      PROVE  WayInv'
  <2>1. /\ pending' \in [Feeds -> BOOLEAN]
        /\ \A j \in Feeds : IF j = k THEN buffer'[j] = <<>> /\ pending'[j] = FALSE
                                     ELSE buffer'[j] = buffer[j] /\ pending'[j] = pending[j]
    <3>1. CASE k \in Feeds
      BY <1>1, <1>3, <3>1, TakenWaitsNot
    <3>2. CASE ~(k \in Feeds)
      <4>1. buffer' = buffer /\ pending' = pending /\ \A j \in Feeds : j # k
        BY <1>3, <3>2
      <4> QED BY <1>1, <4>1 DEF WayType
    <3> QED BY <3>1, <3>2
  <2>2. Coming'
    BY <1>3, <2>1, StillTold
  <2> QED BY <1>1, <1>3, <2>1, <2>2 DEF WayInv, WayType, EndingSaid
<1>4. CASE Feed!FlushLogs
  <2>1. /\ gui' = "flush" /\ timer' = FALSE /\ UNCHANGED <<publisher, signals, ending>>
        /\ IF "log" \in Feeds THEN Feed!Take("log") ELSE UNCHANGED <<buffer, pending>>
    BY <1>4 DEF Feed!FlushLogs
  <2>2. ASSUME NEW j \in Feeds, j # "log", Told(j) PROVE Told(j)'
    <3>1. j \in {"comment", "progress"}
      BY <2>2, DesktopAssumption DEF DesktopAssumption, Feed!FeedAssumption, Feed!Kind
    <3> QED BY <2>1, <2>2, <3>1 DEF Told
  <2> QED BY <1>3, <2>1, <2>2
<1>5. CASE Feed!FlushComments
  <2>1. /\ gui' = "idle" /\ UNCHANGED <<publisher, signals, timer, ending>>
        /\ IF "comment" \in Feeds THEN Feed!Take("comment") ELSE UNCHANGED <<buffer, pending>>
    BY <1>5 DEF Feed!FlushComments
  <2>2. ASSUME NEW j \in Feeds, j # "comment", Told(j) PROVE Told(j)'
    BY <2>1, <2>2 DEF Told
  <2> QED BY <1>1, <1>3, <2>1, <2>2 DEF WayType
<1>6. CASE Feed!ClearLogs
  <2>1. /\ gui = "idle" /\ gui' = "clear" /\ UNCHANGED <<publisher, signals, timer, ending>>
        /\ IF "log" \in Feeds THEN Feed!Take("log") ELSE UNCHANGED <<buffer, pending>>
    BY <1>2, <1>6 DEF Feed!ClearLogs, Feed!Idle
  <2>2. ASSUME NEW j \in Feeds, Told(j) PROVE Told(j)'
    BY <2>1, <2>2 DEF Told
  <2> QED BY <1>1, <1>3, <2>1, <2>2 DEF WayType
<1>7. CASE Feed!ClearComments
  <2>1. /\ gui = "clear" /\ gui' = "idle" /\ UNCHANGED <<publisher, signals, timer, ending>>
        /\ IF "comment" \in Feeds THEN Feed!Take("comment") ELSE UNCHANGED <<buffer, pending>>
    BY <1>2, <1>7 DEF Feed!ClearComments
  <2>2. ASSUME NEW j \in Feeds, Told(j) PROVE Told(j)'
    BY <2>1, <2>2 DEF Told
  <2> QED BY <1>1, <1>3, <2>1, <2>2 DEF WayType
<1> QED BY <1>4, <1>5, <1>6, <1>7

\* A change of the limits and the end leave on its way what is on its way.
LEMMA WayOfLimits ==
  ASSUME ListInv, WayInv, Feed!Limit \/ Feed!LimitComments \/ Feed!LimitLogs \/ Feed!CloseEvents
  PROVE  WayInv'
<1>1. WayType /\ ListType
  BY DEF WayInv, ListInv
<1>2. ASSUME gui # "flush", gui' # "end", UNCHANGED <<pending, publisher, signals, timer, ending>>,
             \A j \in Feeds : buffer'[j] # <<>> => buffer[j] # <<>>
      PROVE  WayInv'
  <2>1. \A j \in Feeds : Told(j) => Told(j)'
    BY <1>2 DEF Told
  <2>2. Coming'
    BY <1>2, <2>1, StillTold
  <2> QED BY <1>1, <1>2, <2>2 DEF WayInv, WayType, EndingSaid
<1>3. ASSUME NEW k \in Feeds, gui \in {"limit", "logs"}, Feed!LimitBuffer(k, want)
      PROVE  \A j \in Feeds : buffer'[j] # <<>> => buffer[j] # <<>>
  <2>1. want \in Nat \ {0}
    BY <1>3, DesktopAssumption DEF ListInv, Changing, DesktopAssumption, Feed!FeedAssumption
  <2>2. buffer' = [buffer EXCEPT ![k] = Feed!Last(buffer[k], want)]
    BY <1>1, <1>3 DEF Feed!LimitBuffer, ListType
  <2>3. Feed!Last(buffer[k], want) # <<>> => buffer[k] # <<>>
    <3>1. InRow(rows[k], buffer[k], items[k])
      BY <1>3 DEF ListInv, AllShow, Shows
    <3> QED BY <1>1, <2>1, <3>1, Typed, BufferCut
  <2> DEFINE b == Feed!Last(buffer[k], want)
  <2>4. buffer' = [buffer EXCEPT ![k] = b] /\ (b # <<>> => buffer[k] # <<>>)
    BY <2>2, <2>3
  <2> HIDE DEF b
  <2> QED BY <1>1, <2>4 DEF ListType
<1>4. CASE Feed!Limit
  <2>1. gui = "idle" /\ gui' = "limit" /\ UNCHANGED <<buffer, pending, publisher, signals, timer, ending>>
    BY <1>4 DEF Feed!Limit, Feed!Idle, Feed!events
  <2> QED BY <1>2, <2>1
<1>5. CASE Feed!LimitComments
  <2>1. /\ gui = "limit" /\ gui' = "logs" /\ UNCHANGED <<pending, publisher, signals, timer, ending>>
        /\ IF "comment" \in Feeds THEN Feed!LimitBuffer("comment", want) ELSE UNCHANGED buffer
    BY <1>5 DEF Feed!LimitComments
  <2> QED BY <1>2, <1>3, <2>1
<1>6. CASE Feed!LimitLogs
  <2>1. /\ gui = "logs" /\ gui' = "idle" /\ UNCHANGED <<pending, publisher, signals, timer, ending>>
        /\ IF "log" \in Feeds THEN Feed!LimitBuffer("log", want) ELSE UNCHANGED buffer
    BY <1>6 DEF Feed!LimitLogs
  <2> QED BY <1>2, <1>3, <2>1
<1>7. CASE Feed!CloseEvents
  <2>1. /\ gui = "end" /\ gui' = "idle" /\ buffer' = [k \in Feeds |-> <<>>]
        /\ UNCHANGED <<pending, publisher, signals, timer, ending>>
    BY <1>7 DEF Feed!CloseEvents
  <2> QED BY <1>2, <2>1
<1> QED BY <1>4, <1>5, <1>6, <1>7

\* Every step of the feed keeps both invariants.
LEMMA FeedStep == ASSUME ListInv, WayInv, Feed!Next PROVE ListInv' /\ WayInv'
<1>1. ListType
  BY DEF ListInv
<1>2. WayInv'
  BY <1>1, WayOfPublishing, WayOfSignals, WayOfFlushing, WayOfLimits DEF Feed!Next, Feed!Gui
<1> QED BY <1>2, FeedLists

\* While another part runs, the invariant of the feed stays.
LEMMA FeedKept == ASSUME UNCHANGED part, UNCHANGED feedVars, FeedInv PROVE FeedInv'
BY DEF feedVars, FeedInv, ListInv, ListType, Room, Changing, AllShow, Shows, Live, WayInv, WayType, Coming, Told,
       EndingSaid

\* For any kinds of items, limits and publishers: the list ends where the
\* buffer begins, without a gap up to the limit, and what waits has a
\* signal, a timer or a refresh on its way (events.py, presenter.py,
\* model.py).
THEOREM FeedInvariance == DesktopSpec => []FeedInv
<1>1. ASSUME DesktopInit PROVE FeedInv
  BY <1>1, FeedInit DEF DesktopInit, Starts, FeedInv
<1>2. ASSUME FeedInv, DesktopNext PROVE FeedInv'
  <2>1. CASE part = "feed" /\ Feed!Next
    BY <1>2, <2>1, FeedStep DEF FeedInv, DesktopNext
  <2>2. CASE UNCHANGED feedVars
    BY <1>2, <2>2, FeedKept DEF DesktopNext
  <2> QED BY <1>2, <2>1, <2>2 DEF DesktopNext, FeedInv
<1>3. ASSUME FeedInv, UNCHANGED <<part, vars, popoutVars, fileVars, monitorVars, feedVars, avatarVars>>
      PROVE  FeedInv'
  BY <1>3, FeedKept
<1> QED BY <1>1, <1>2, <1>3, PTL DEF DesktopSpec

\* What waits has a signal, a timer or a refresh on its way; a list that waits
\* for nothing shows the newest items as far as it goes, and always in their
\* order.
LEMMA FeedShows ==
  ASSUME ListInv, WayInv PROVE Feed!NothingStranded /\ Feed!NewestAreShown /\ Feed!InOrder
<1>1. ASSUME ListInv, WayInv PROVE Feed!NothingStranded
  <2>1. SUFFICES ASSUME NEW k \in Feeds, buffer[k] # <<>>, ~ending PROVE Feed!OnItsWay(k)
    BY DEF Feed!NothingStranded
  <2>2. Told(k)
    BY <1>1, <2>1 DEF ListInv, ListType, WayInv, Coming
  <2>3. timer = TRUE => timer
    OBVIOUS
  <2>4. DOMAIN signals = 1 .. Len(signals)
    BY <1>1, LenProperties DEF WayInv, WayType
  <2> QED BY <2>1, <2>2, <2>3, <2>4 DEF Told, InLine, Feed!OnItsWay, Feed!Timed
<1>2. ASSUME ListInv PROVE Feed!NewestAreShown
  <2>1. SUFFICES ASSUME NEW k \in Feeds, buffer[k] = <<>>, ~ending, ~raised
                 PROVE  /\ Len(rows[k]) >= Fewer(items[k] - cleared[k], limit[k])
                        /\ \A i \in 1 .. Len(rows[k]) : rows[k][i] = items[k] - Len(rows[k]) + i
    BY DEF Feed!NewestAreShown, Feed!Quiet, Fewer
  <2>2. Shows(k) /\ Live /\ ListType
    BY <1>2, <2>1 DEF ListInv, AllShow, ListType, Live
  <2>3. Len(buffer[k]) = 0
    BY <2>1, EmptySeq
  <2>4. items[k] - Len(buffer[k]) = items[k] /\ ~(Len(buffer[k]) >= limit[k])
    BY <2>2, <2>3, Typed
  <2>5. EndsAt(rows[k], items[k]) /\ Len(rows[k]) >= Fewer(items[k] - cleared[k], limit[k])
    BY <2>2, <2>4 DEF Shows, NoGap
  <2>6. DOMAIN rows[k] = 1 .. Len(rows[k])
    BY <2>2, Typed, LenProperties DEF Numbers
  <2> QED BY <2>5, <2>6 DEF EndsAt
<1>3. ASSUME ListInv PROVE Feed!InOrder
  <2>1. ASSUME NEW k \in Feeds
        PROVE  LET all == rows[k] \o buffer[k] IN \A i, j \in 1 .. Len(all) : i < j => all[i] < all[j]
    <3>1. ListType /\ InRow(rows[k], buffer[k], items[k])
      BY <1>3 DEF ListInv, AllShow, Shows
    <3>2. Ascends(rows[k] \o buffer[k]) /\ rows[k] \o buffer[k] \in Numbers
      BY <3>1, Typed, Joined, JoinOf
    <3>3. DOMAIN (rows[k] \o buffer[k]) = 1 .. Len(rows[k] \o buffer[k])
      BY <3>2, LenProperties DEF Numbers
    <3> QED BY <3>2, <3>3 DEF Ascends
  <2> QED BY <2>1 DEF Feed!InOrder
<1> QED BY <1>1, <1>2, <1>3

-----------------------------------------------------------------------------
(***************************************************************************)
(* The avatars.  What a cache counts is the sum of what it holds: a sum is *)
(* read off a ledger, which lists what the first pictures cost together.   *)
(***************************************************************************)
LEMMA LeastOf == ASSUME NEW T \in SUBSET Nat, T # {} PROVE \E m \in T : \A n \in T : m <= n
<1> DEFINE R == {pair \in Nat \X Nat : pair[1] < pair[2]}
<1>1. IsWellFoundedOn(R, Nat)
  BY NatLessThanWellFounded DEF OpToRel
<1> HIDE DEF R
<1>2. PICK x \in T : \A y \in T : ~(<<y, x>> \in R)
  BY <1>1, WFMin
<1>3. \A y \in Nat : y < x => <<y, x>> \in R
  BY DEF R
<1>4. ASSUME NEW y \in T PROVE x <= y
  <2>1. ~(y < x) /\ x \in Nat /\ y \in Nat
    BY <1>2, <1>3
  <2> QED BY <2>1
<1> QED BY <1>4

\* What is assumed of the pictures, their costs and the limits.
LEMMA IconConstants ==
  /\ PictureCost \in [Pictures -> Nat \ {0}] /\ CacheLimits \subseteq Nat /\ CacheLimits # {}
  /\ AvatarSlots \in Nat \ {0} /\ MediaWorkers \in Nat \ {0} /\ MaxFailures \in Nat \ {0}
BY DesktopAssumption DEF DesktopAssumption, Icons!AvatarAssumption

Albums == Seq(Pictures)
Adds(s, f, n) == f \in [0 .. n -> Nat] /\ f[0] = 0 /\ \A i \in 1 .. n : f[i] = f[i - 1] + PictureCost[s[i]]

\* Each entry of a list of pictures is a picture and has a cost.
LEMMA AlbumOf ==
  ASSUME NEW s \in Albums
  PROVE  /\ Len(s) \in Nat /\ DOMAIN s = 1 .. Len(s)
         /\ \A i \in 1 .. Len(s) : s[i] \in Pictures /\ PictureCost[s[i]] \in Nat
BY LenProperties, ElementOfSeq, IconConstants DEF Albums

\* Every album has a ledger.
LEMMA LedgerOf == ASSUME NEW s \in Albums PROVE \E f : Adds(s, f, Len(s))
<1>1. SUFFICES ASSUME ~(\E f : Adds(s, f, Len(s))) PROVE FALSE
  OBVIOUS
<1> DEFINE T == {n \in 0 .. Len(s) : ~(\E f : Adds(s, f, n))}
<1>2. T \in SUBSET Nat /\ T # {}
  BY <1>1, AlbumOf
<1>3. PICK m \in T : \A n \in T : m <= n
  BY <1>2, LeastOf
<1>4. m \in 0 .. Len(s) /\ ~(\E f : Adds(s, f, m)) /\ Len(s) \in Nat
  BY AlbumOf
<1>5. m # 0
  <2> DEFINE f == [i \in 0 .. 0 |-> 0]
  <2>1. Adds(s, f, 0)
    BY DEF Adds
  <2> QED BY <1>4, <2>1
<1>6. m - 1 \in 0 .. Len(s) /\ ~(m - 1 \in T)
  BY <1>3, <1>4, <1>5
<1>7. PICK g : Adds(s, g, m - 1)
  BY <1>6
<1> DEFINE f == [i \in 0 .. m |-> IF i = m THEN g[m - 1] + PictureCost[s[m]] ELSE g[i]]
<1>8. m \in 1 .. Len(s) /\ PictureCost[s[m]] \in Nat
  BY <1>4, <1>5, AlbumOf
<1>9. f \in [0 .. m -> Nat] /\ f[0] = 0
  BY <1>7, <1>8 DEF Adds
<1>10. ASSUME NEW i \in 1 .. m PROVE f[i] = f[i - 1] + PictureCost[s[i]]
  <2>1. i - 1 \in 0 .. m - 1 /\ f[i - 1] = g[i - 1]
    BY <1>8
  <2>2. CASE i = m
    BY <1>8, <2>1, <2>2
  <2>3. CASE i # m
    BY <1>7, <1>8, <2>1, <2>3 DEF Adds
  <2> QED BY <2>2, <2>3
<1>11. Adds(s, f, m)
  BY <1>9, <1>10 DEF Adds
<1> QED BY <1>4, <1>11

\* The sum is what the ledger ends with.
LEMMA SumIs ==
  ASSUME NEW s \in Albums, NEW f, Adds(s, f, Len(s))
  PROVE  Icons!Sum(s) = f[Len(s)] /\ f[Len(s)] \in Nat
<1> DEFINE N == Len(s)
           g == CHOOSE h : h = [i \in 0 .. N |-> IF i = 0 THEN 0 ELSE h[i - 1] + PictureCost[s[i]]]
<1>1. N \in Nat
  BY AlbumOf
<1>2. f = [i \in 0 .. N |-> IF i = 0 THEN 0 ELSE f[i - 1] + PictureCost[s[i]]]
  <2>1. \A i \in 0 .. N : f[i] = IF i = 0 THEN 0 ELSE f[i - 1] + PictureCost[s[i]]
    BY <1>1 DEF Adds
  <2>2. f = [i \in 0 .. N |-> f[i]]
    BY DEF Adds
  <2> QED BY <2>1, <2>2
<1>3. g = [i \in 0 .. N |-> IF i = 0 THEN 0 ELSE g[i - 1] + PictureCost[s[i]]]
  BY <1>2
<1>4. Icons!Sum(s) = g[N]
  BY DEF Icons!Sum
<1> HIDE DEF g
<1>5. \A i \in 0 .. N : g[i] = f[i]
  <2>1. SUFFICES ASSUME NEW j \in 0 .. N, g[j] # f[j] PROVE FALSE
    OBVIOUS
  <2> DEFINE T == {n \in 0 .. N : g[n] # f[n]}
  <2>2. T \in SUBSET Nat /\ T # {}
    BY <1>1, <2>1
  <2>3. PICK m \in T : \A n \in T : m <= n
    BY <2>2, LeastOf
  <2>4. m \in 0 .. N /\ g[m] # f[m]
    OBVIOUS
  <2>5. m # 0
    BY <1>1, <1>3, <2>4 DEF Adds
  <2>6. m - 1 \in 0 .. N /\ ~(m - 1 \in T)
    BY <1>1, <2>3, <2>4, <2>5
  <2>7. g[m - 1] = f[m - 1]
    BY <2>6
  <2> HIDE DEF T
  <2>8. m \in 1 .. N
    BY <1>1, <2>4, <2>5
  <2>9. g[m] = g[m - 1] + PictureCost[s[m]]
    BY <1>1, <1>3, <2>8
  <2>10. f[m] = f[m - 1] + PictureCost[s[m]]
    BY <2>8 DEF Adds
  <2> QED BY <2>4, <2>7, <2>9, <2>10
<1> QED BY <1>1, <1>4, <1>5 DEF Adds

\* The cost of two lists joined is the cost of both.
LEMMA SumJoined ==
  ASSUME NEW s \in Albums, NEW t \in Albums
  PROVE  /\ s \o t \in Albums /\ Icons!Sum(s \o t) = Icons!Sum(s) + Icons!Sum(t)
         /\ Icons!Sum(s) \in Nat /\ Icons!Sum(t) \in Nat
<1> DEFINE u == s \o t
<1>1. u \in Albums /\ Len(u) = Len(s) + Len(t)
      /\ \A i \in 1 .. Len(s) + Len(t) : u[i] = IF i <= Len(s) THEN s[i] ELSE t[i - Len(s)]
  BY ConcatProperties DEF Albums
<1> HIDE DEF u
<1>2. PICK f : Adds(s, f, Len(s))
  BY LedgerOf
<1>3. PICK g : Adds(t, g, Len(t))
  BY LedgerOf
<1>4. Icons!Sum(s) = f[Len(s)] /\ f[Len(s)] \in Nat /\ Icons!Sum(t) = g[Len(t)] /\ g[Len(t)] \in Nat
  BY <1>2, <1>3, SumIs
<1>5. Len(s) \in Nat /\ Len(t) \in Nat
  BY AlbumOf
<1> DEFINE a == Len(s)
           h == [i \in 0 .. a + Len(t) |-> IF i <= a THEN f[i] ELSE f[a] + g[i - a]]
<1>6. Adds(u, h, a + Len(t))
  <2>1. h \in [0 .. a + Len(t) -> Nat] /\ h[0] = 0
    <3>1. ASSUME NEW i \in 0 .. a + Len(t) PROVE (IF i <= a THEN f[i] ELSE f[a] + g[i - a]) \in Nat
      <4>1. CASE i <= a
        BY <1>2, <1>5, <4>1 DEF Adds
      <4>2. CASE ~(i <= a)
        <5>1. i - a \in 0 .. Len(t)
          BY <1>5, <4>2
        <5>2. g[i - a] \in Nat
          BY <1>3, <5>1 DEF Adds
        <5> QED BY <1>4, <4>2, <5>2
      <4> QED BY <4>1, <4>2
    <3>2. h[0] = f[0]
      BY <1>5
    <3> QED BY <1>2, <3>1, <3>2 DEF Adds
  <2>2. ASSUME NEW i \in 1 .. a + Len(t) PROVE h[i] = h[i - 1] + PictureCost[u[i]]
    <3>1. CASE i <= a
      <4>1. h[i] = f[i] /\ h[i - 1] = f[i - 1] /\ u[i] = s[i] /\ i \in 1 .. a
        BY <1>1, <1>5, <3>1
      <4> QED BY <1>2, <4>1 DEF Adds
    <3>2. CASE i = a + 1
      <4>1. h[i] = f[a] + g[1] /\ h[i - 1] = f[a] /\ u[i] = t[1] /\ 1 \in 1 .. Len(t)
        BY <1>1, <1>5, <3>2
      <4>2. g[1] = g[1 - 1] + PictureCost[t[1]] /\ g[0] = 0 /\ PictureCost[t[1]] \in Nat
        BY <1>3, <4>1, AlbumOf DEF Adds
      <4>3. g[1] = PictureCost[t[1]]
        BY <4>2
      <4> QED BY <4>1, <4>3
    <3>3. CASE i > a + 1
      <4> DEFINE j == i - a
      <4>1. j \in 1 .. Len(t) /\ j - 1 \in 0 .. Len(t) /\ (i - 1) - a = j - 1
        BY <1>5, <3>3
      <4>2. h[i] = f[a] + g[j] /\ h[i - 1] = f[a] + g[j - 1] /\ u[i] = t[j]
        BY <1>1, <1>5, <3>3, <4>1
      <4> HIDE DEF j
      <4>3. g[j] = g[j - 1] + PictureCost[t[j]] /\ g[j - 1] \in Nat /\ PictureCost[t[j]] \in Nat
        BY <1>3, <4>1, AlbumOf DEF Adds
      <4> HIDE DEF h
      <4> QED BY <1>4, <4>2, <4>3
    <3> QED BY <1>5, <3>1, <3>2, <3>3
  <2> HIDE DEF h
  <2> QED BY <2>1, <2>2 DEF Adds
<1>7. Icons!Sum(u) = h[a + Len(t)]
  BY <1>1, <1>6, SumIs
<1>8. h[a + Len(t)] = f[a] + g[Len(t)]
  <2>1. CASE Len(t) = 0
    BY <1>3, <1>4, <1>5, <2>1 DEF Adds
  <2>2. CASE Len(t) # 0
    BY <1>5, <2>2
  <2> QED BY <2>1, <2>2
<1> QED BY <1>1, <1>4, <1>7, <1>8 DEF u

\* The cost of no picture, and of one.
LEMMA SumOfOne ==
  /\ <<>> \in Albums /\ Icons!Sum(<<>>) = 0
  /\ \A k \in Pictures : <<k>> \in Albums /\ Icons!Sum(<<k>>) = PictureCost[k] /\ PictureCost[k] \in Nat
<1>1. <<>> \in Albums /\ Len(<<>>) = 0
  BY EmptySeq DEF Albums
<1>2. Icons!Sum(<<>>) = 0
  <2>1. PICK f : Adds(<<>>, f, Len(<<>>))
    BY <1>1, LedgerOf
  <2> QED BY <1>1, <2>1, SumIs DEF Adds
<1>3. ASSUME NEW k \in Pictures PROVE <<k>> \in Albums /\ Icons!Sum(<<k>>) = PictureCost[k] /\ PictureCost[k] \in Nat
  <2> DEFINE s == <<k>>
  <2>1. s \in Albums /\ Len(s) = 1 /\ s[1] = k
    BY DEF Albums
  <2> HIDE DEF s
  <2>2. PICK f : Adds(s, f, 1)
    BY <2>1, LedgerOf
  <2>3. Icons!Sum(s) = f[1] /\ 1 \in 1 .. 1 /\ PictureCost[k] \in Nat
    <3>1. Icons!Sum(s) = f[1]
      BY <2>1, <2>2, SumIs
    <3>2. PictureCost[k] \in Nat
      BY IconConstants
    <3> QED BY <3>1, <3>2
  <2>4. f[1] = f[1 - 1] + PictureCost[s[1]] /\ f[0] = 0
    BY <2>2, <2>3 DEF Adds
  <2>5. Icons!Sum(s) = PictureCost[k]
    BY <2>1, <2>3, <2>4
  <2> QED BY <2>1, <2>3, <2>5 DEF s
<1> QED BY <1>1, <1>2, <1>3

\* A picture that leaves takes its cost with it.
LEMMA PoppedOf ==
  ASSUME NEW s \in Albums, NEW k \in Pictures
  PROVE  /\ Icons!Without(s, k) \in Albums
         /\ Icons!Sum(Icons!Without(s, k)) = Icons!Sum(s) - (IF k \in Icons!Range(s) THEN PictureCost[k] ELSE 0)
<1>1. Len(s) \in Nat /\ DOMAIN s = 1 .. Len(s) /\ Icons!Sum(s) \in Nat
  BY AlbumOf, SumJoined
<1>2. CASE k \notin Icons!Range(s)
  BY <1>1, <1>2 DEF Icons!Without
<1>3. CASE k \in Icons!Range(s)
  <2> DEFINE n == CHOOSE i \in 1 .. Len(s) : s[i] = k
  <2>1. n \in 1 .. Len(s) /\ s[n] = k
    BY <1>1, <1>3 DEF Icons!Range
  <2>2. Icons!Without(s, k) = SubSeq(s, 1, n - 1) \o SubSeq(s, n + 1, Len(s))
    BY <1>3 DEF Icons!Without, Icons!RemoveAt
  <2> HIDE DEF n
  <2> DEFINE a == SubSeq(s, 1, n - 1)
             c == SubSeq(s, n + 1, Len(s))
             b == SubSeq(s, 1, n)
             d == SubSeq(s, n, n)
  <2>3. a \in Albums /\ b \in Albums /\ c \in Albums /\ d \in Albums /\ Len(d) = 1 /\ d[1] = k
    <3>1. \A i \in 1 .. Len(s) : s[i] \in Pictures
      BY AlbumOf
    <3>2. a \in Albums /\ b \in Albums /\ c \in Albums
      BY <1>1, <2>1, <3>1, SubSeqProperties DEF Albums
    <3>3. d \in Albums /\ Len(d) = n - n + 1 /\ \A i \in 1 .. n - n + 1 : d[i] = s[n + i - 1]
      BY <1>1, <2>1, <3>1, SubSeqProperties DEF Albums
    <3> HIDE DEF d
    <3>4. Len(d) = 1 /\ d[1] = s[n + 1 - 1] /\ n + 1 - 1 = n
      BY <2>1, <3>3
    <3> QED BY <2>1, <3>2, <3>3, <3>4
  <2>4. d = <<k>>
    <3>1. <<k>> \in Albums /\ Len(<<k>>) = 1 /\ <<k>>[1] = k
      BY SumOfOne
    <3> HIDE DEF d
    <3>2. \A i \in 1 .. Len(d) : d[i] = <<k>>[i]
      BY <2>3, <3>1
    <3> QED BY <2>3, <3>1, <3>2, SeqEqual DEF Albums
  <2>5. a \o d = b
    <3>1. n - 1 \in 1 - 1 .. Len(s) /\ n \in n - 1 .. Len(s) /\ (n - 1) + 1 = n /\ 1 \in 1 .. Len(s) + 1
      BY <1>1, <2>1
    <3>2. SubSeq(s, 1, n - 1) \o SubSeq(s, (n - 1) + 1, n) = SubSeq(s, 1, n)
      BY <3>1, ConcatAdjacentSubSeq DEF Albums
    <3> QED BY <3>1, <3>2
  <2>6. b \o c = s
    <3>1. n \in 1 - 1 .. Len(s) /\ Len(s) \in n .. Len(s) /\ 1 \in 1 .. Len(s) + 1
      BY <1>1, <2>1
    <3>2. b \o c = SubSeq(s, 1, Len(s))
      BY <3>1, ConcatAdjacentSubSeq DEF Albums
    <3> QED BY <3>2, SubSeqFull DEF Albums
  <2> HIDE DEF a, b, c, d
  <2>7. Icons!Sum(d) = PictureCost[k] /\ PictureCost[k] \in Nat
    BY <2>4, SumOfOne
  <2>8. Icons!Sum(b) = Icons!Sum(a) + Icons!Sum(d) /\ Icons!Sum(a) \in Nat
    BY <2>3, <2>5, SumJoined
  <2>9. Icons!Sum(s) = Icons!Sum(b) + Icons!Sum(c) /\ Icons!Sum(c) \in Nat
    BY <2>3, <2>6, SumJoined
  <2>10. a \o c \in Albums /\ Icons!Sum(a \o c) = Icons!Sum(a) + Icons!Sum(c)
    BY <2>3, SumJoined
  <2>11. Icons!Without(s, k) = a \o c
    BY <2>2 DEF a, c
  <2>12. Icons!Sum(a) + Icons!Sum(c) = Icons!Sum(s) - PictureCost[k]
    BY <2>7, <2>8, <2>9
  <2> QED BY <1>3, <2>10, <2>11, <2>12
<1> QED BY <1>2, <1>3

\* A picture appended adds its cost.
LEMMA AddedOf ==
  ASSUME NEW s \in Albums, NEW k \in Pictures
  PROVE  Append(s, k) \in Albums /\ Icons!Sum(Append(s, k)) = Icons!Sum(s) + PictureCost[k]
<1>1. Append(s, k) = s \o <<k>>
  BY AppendIsConcat DEF Albums
<1> QED BY <1>1, SumOfOne, SumJoined

\* What is left after an eviction fits, and is counted.
LEMMA Evicted ==
  ASSUME NEW s \in Albums, quota' \in Nat, Icons!Evict(s, Icons!Sum(s))
  PROVE  images' \in Albums /\ bytes' = Icons!Sum(images') /\ bytes' <= quota' /\ bytes' \in Nat
<1>1. Len(s) \in Nat /\ DOMAIN s = 1 .. Len(s) /\ \A i \in 1 .. Len(s) : s[i] \in Pictures
  BY AlbumOf
<1> DEFINE Front(m) == SubSeq(s, 1, m)
           Rest(m) == SubSeq(s, m + 1, Len(s))
           Fits(m) == Icons!Sum(s) - Icons!Sum(Front(m)) <= quota' \/ m = Len(s)
<1>2. ASSUME NEW m \in 0 .. Len(s)
      PROVE  /\ Front(m) \in Albums /\ Rest(m) \in Albums
             /\ Icons!Sum(s) = Icons!Sum(Front(m)) + Icons!Sum(Rest(m))
             /\ Icons!Sum(Front(m)) \in Nat /\ Icons!Sum(Rest(m)) \in Nat
  <2>1. Front(m) \in Albums /\ Rest(m) \in Albums
    BY <1>1, <1>2, SubSeqProperties DEF Albums
  <2>2. Front(m) \o Rest(m) = s
    <3>1. m \in 1 - 1 .. Len(s) /\ Len(s) \in m .. Len(s) /\ 1 \in 1 .. Len(s) + 1
      BY <1>1
    <3>2. Front(m) \o Rest(m) = SubSeq(s, 1, Len(s))
      BY <3>1, ConcatAdjacentSubSeq DEF Albums
    <3> QED BY <3>2, SubSeqFull DEF Albums
  <2> QED BY <2>1, <2>2, SumJoined
<1> DEFINE n == CHOOSE m \in 0 .. Len(s) :
                  Fits(m) /\ \A j \in 0 .. m - 1 : Icons!Sum(s) - Icons!Sum(Front(j)) > quota'
<1>3. n \in 0 .. Len(s) /\ Fits(n)
  <2> DEFINE T == {m \in 0 .. Len(s) : Fits(m)}
  <2> HIDE DEF Fits
  <2>1. T \in SUBSET Nat /\ T # {}
    <3>1. Len(s) \in 0 .. Len(s) /\ Fits(Len(s))
      BY <1>1 DEF Fits
    <3> QED BY <1>1, <3>1
  <2>2. PICK m \in T : \A j \in T : m <= j
    BY <2>1, LeastOf
  <2>3. m \in 0 .. Len(s) /\ Fits(m)
    OBVIOUS
  <2>4. ASSUME NEW j \in 0 .. m - 1 PROVE Icons!Sum(s) - Icons!Sum(Front(j)) > quota'
    <3>1. j \in 0 .. Len(s) /\ ~(m <= j)
      BY <1>1, <2>3
    <3>2. ~Fits(j)
      BY <2>2, <3>1
    <3>3. Icons!Sum(s) \in Nat /\ Icons!Sum(Front(j)) \in Nat
      BY <1>2, <3>1
    <3> HIDE DEF Front
    <3> QED BY <3>2, <3>3 DEF Fits
  <2> HIDE DEF T, Front
  <2> QED BY <2>3, <2>4
<1>4. images' = Rest(n) /\ bytes' = Icons!Sum(s) - Icons!Sum(Front(n))
  BY DEF Icons!Evict
<1> HIDE DEF n, Rest
<1>5. Icons!Sum(s) = Icons!Sum(Front(n)) + Icons!Sum(Rest(n)) /\ Icons!Sum(Front(n)) \in Nat
      /\ Icons!Sum(Rest(n)) \in Nat /\ Rest(n) \in Albums
  BY <1>2, <1>3
<1> HIDE DEF Front
<1>6. bytes' = Icons!Sum(Rest(n))
  BY <1>4, <1>5
<1>7. bytes' <= quota'
  <2>1. CASE Icons!Sum(s) - Icons!Sum(Front(n)) <= quota'
    BY <1>4, <2>1
  <2>2. CASE n = Len(s)
    <3>1. Rest(n) = <<>>
      BY <1>1, <2>2, SubSeqEmpty DEF Rest
    <3> QED BY <1>6, <3>1, SumOfOne
  <2> QED BY <1>3, <2>1, <2>2
<1> QED BY <1>4, <1>5, <1>6, <1>7

Jobs == {Icons!Free} \cup ({"load", "release"} \X Pictures)
Answers == Pictures \X BOOLEAN
IconType ==
  /\ wanted \subseteq Pictures /\ quota \in CacheLimits /\ queue \in Albums /\ received \in Seq(Answers)
  /\ running \in [1 .. MediaWorkers -> Jobs] /\ slots \in Int /\ ended \in BOOLEAN
CacheInv == images \in Albums /\ bytes = Icons!Sum(images) /\ bytes <= quota

\* An answer that arrives leaves the cache with the sum of what it holds.
LEMMA CacheAdds ==
  ASSUME IconType, CacheInv, NEW k \in Pictures, NEW good \in BOOLEAN, Icons!OnAvatar(k, good)
  PROVE  CacheInv'
<1>1. quota' = quota /\ quota \in Nat /\ IF good THEN Icons!Add(k) ELSE UNCHANGED <<images, bytes>>
  BY IconConstants DEF Icons!OnAvatar, IconType
<1>2. CASE good = TRUE
  <2> DEFINE s == Icons!Without(images, k)
             held == Append(s, k)
  <2>1. s \in Albums /\ Icons!Sum(s) = bytes - (IF k \in Icons!Range(images) THEN PictureCost[k] ELSE 0)
    BY PoppedOf DEF CacheInv
  <2>2. Icons!Evict(held, bytes - (IF k \in Icons!Range(images) THEN PictureCost[k] ELSE 0) + PictureCost[k])
    BY <1>1, <1>2 DEF Icons!Add
  <2> HIDE DEF s
  <2>3. held \in Albums /\ Icons!Sum(held) = Icons!Sum(s) + PictureCost[k]
    BY <2>1, AddedOf
  <2>4. Icons!Evict(held, Icons!Sum(held))
    BY <2>1, <2>2, <2>3
  <2> HIDE DEF held
  <2> QED BY <1>1, <2>3, <2>4, Evicted DEF CacheInv
<1>3. CASE good = FALSE
  BY <1>1, <1>3 DEF CacheInv
<1> QED BY <1>2, <1>3

\* Every step of the pictures keeps the invariant of the cache.
LEMMA CacheKept == ASSUME IconType, CacheInv, Icons!Next PROVE CacheInv'
<1>1. ASSUME UNCHANGED <<images, bytes, quota>> PROVE CacheInv'
  BY <1>1 DEF CacheInv
<1>2. ASSUME NEW k \in Pictures,
             Icons!Request(k) \/ Icons!Refused(k) \/ Icons!Ignored(k) \/ Icons!Paint(k) \/ Icons!Cool(k)
      PROVE  CacheInv'
  <2>1. CASE Icons!Request(k) \/ Icons!Ignored(k) \/ Icons!Cool(k)
    BY <1>1, <2>1 DEF Icons!Request, Icons!Ignored, Icons!Cool, Icons!cache
  <2>2. CASE Icons!Refused(k)
    BY <2>2, CacheAdds DEF Icons!Refused
  <2>3. CASE Icons!Paint(k)
    <3>1. k \in Icons!Range(images) /\ images' = Append(Icons!Without(images, k), k) /\ UNCHANGED <<bytes, quota>>
      BY <2>3 DEF Icons!Paint
    <3> DEFINE s == Icons!Without(images, k)
    <3>2. s \in Albums /\ Icons!Sum(s) = bytes - PictureCost[k]
      BY <3>1, PoppedOf DEF CacheInv
    <3>3. images' = Append(s, k)
      BY <3>1
    <3> HIDE DEF s
    <3>4. images' \in Albums /\ Icons!Sum(images') = Icons!Sum(s) + PictureCost[k]
      BY <3>2, <3>3, AddedOf
    <3>5. bytes \in Nat /\ PictureCost[k] \in Nat
      BY SumJoined, SumOfOne DEF CacheInv
    <3> QED BY <3>1, <3>2, <3>4, <3>5 DEF CacheInv
  <2> QED BY <1>2, <2>1, <2>2, <2>3
<1>3. ASSUME NEW w \in 1 .. MediaWorkers, Icons!Work(w) PROVE CacheInv'
  BY <1>1, <1>3 DEF Icons!Work, Icons!Begin, Icons!Complete, Icons!Release, Icons!cache
<1>4. CASE Icons!Receive
  <2>1. received # <<>> /\ Icons!OnAvatar(Head(received)[1], Head(received)[2])
    BY <1>4 DEF Icons!Receive
  <2>2. Head(received) \in Answers
    BY <2>1, HeadTailProperties DEF IconType
  <2>3. Head(received)[1] \in Pictures /\ Head(received)[2] \in BOOLEAN
    BY <2>2 DEF Answers
  <2> QED BY <2>1, <2>3, CacheAdds
<1>5. ASSUME NEW n \in CacheLimits, Icons!SetLimit(n) PROVE CacheInv'
  <2>1. quota' \in Nat /\ Icons!Evict(images, Icons!Sum(images))
    BY <1>5, IconConstants DEF Icons!SetLimit, CacheInv
  <2> QED BY <2>1, Evicted DEF CacheInv
<1>6. CASE Icons!Close \/ Icons!Cancel
  BY <1>1, <1>6 DEF Icons!Close, Icons!Cancel, Icons!cache
<1> QED BY <1>2, <1>3, <1>4, <1>5, <1>6 DEF Icons!Next

\* Where an address may be: among the jobs that wait, with a worker, among the
\* answers.  While the program runs, an address that was asked for is at one
\* of these places, and nowhere twice.
Single(line) == \A i, j \in DOMAIN line : line[i] = line[j] => i = j
Names(line) == [i \in 1 .. Len(line) |-> line[i][1]]
Loads(w, k) == running[w][1] = "load" /\ running[w][2] = k
Loading(k) == \E w \in 1 .. MediaWorkers : Loads(w, k)
Apart ==
  /\ Single(queue) /\ Single(Names(received))
  /\ \A v, w \in 1 .. MediaWorkers : \A k \in Pictures : Loads(v, k) /\ Loads(w, k) => v = w
  /\ \A k \in Pictures : ~(InLine(k, queue) /\ Loading(k)) /\ ~(InLine(k, queue) /\ InLine(k, Names(received)))
                         /\ ~(Loading(k) /\ InLine(k, Names(received)))
Asked == \A k \in Pictures : k \in wanted <=> InLine(k, queue) \/ Loading(k) \/ InLine(k, Names(received))
Busy == {w \in 1 .. MediaWorkers : running[w] # Icons!Free}
SlotsHeld == slots = Len(queue) + Cardinality(Busy)
PlaceInv == IconType /\ (ended = FALSE => Apart /\ Asked /\ SlotsHeld)
IconInv == part = "icons" => CacheInv /\ PlaceInv

\* What is appended to a line is in it, once if it was not there.
LEMMA SingleGrows ==
  ASSUME NEW S, NEW line \in Seq(S), NEW x \in S
  PROVE  /\ Append(line, x) \in Seq(S) /\ Len(Append(line, x)) = Len(line) + 1
         /\ \A k : InLine(k, Append(line, x)) <=> InLine(k, line) \/ k = x
         /\ Single(line) /\ ~InLine(x, line) => Single(Append(line, x))
<1> DEFINE t == Append(line, x)
<1>1. t \in Seq(S) /\ Len(t) = Len(line) + 1 /\ t[Len(line) + 1] = x /\ \A i \in 1 .. Len(line) : t[i] = line[i]
  BY AppendProperties
<1> HIDE DEF t
<1>2. Len(line) \in Nat /\ DOMAIN line = 1 .. Len(line) /\ DOMAIN t = 1 .. Len(line) + 1
  BY <1>1, LenProperties
<1>3. \A i \in DOMAIN t : (i \in DOMAIN line /\ t[i] = line[i]) \/ (i = Len(line) + 1 /\ t[i] = x)
  BY <1>1, <1>2
<1>4. Len(line) + 1 \in DOMAIN t /\ DOMAIN line \subseteq DOMAIN t
  BY <1>2
<1>5. \A k : InLine(k, t) <=> InLine(k, line) \/ k = x
  BY <1>1, <1>2, <1>3, <1>4 DEF InLine
<1>6. ASSUME Single(line), ~InLine(x, line), NEW i \in DOMAIN t, NEW j \in DOMAIN t, t[i] = t[j] PROVE i = j
  BY <1>3, <1>6 DEF Single, InLine
<1> QED BY <1>1, <1>5, <1>6 DEF t, Single

\* What is taken off a line is its first entry; of a line without
\* repetition it is then no longer in it.
LEMMA SingleServed ==
  ASSUME NEW S, NEW line \in Seq(S), line # <<>>
  PROVE  /\ Tail(line) \in Seq(S) /\ Head(line) \in S /\ Len(Tail(line)) = Len(line) - 1
         /\ InLine(Head(line), line)
         /\ Single(line) => Single(Tail(line))
                            /\ \A k : InLine(k, Tail(line)) <=> InLine(k, line) /\ k # Head(line)
<1> DEFINE t == Tail(line)
<1>1. t \in Seq(S) /\ Len(t) = Len(line) - 1 /\ \A i \in 1 .. Len(t) : t[i] = line[i + 1]
  BY HeadTailProperties
<1> HIDE DEF t
<1>2. Len(line) \in Nat /\ DOMAIN line = 1 .. Len(line) /\ DOMAIN t = 1 .. Len(line) - 1
  BY <1>1, LenProperties
<1>3. Head(line) \in S /\ Head(line) = line[1] /\ 1 \in DOMAIN line
  <2>1. Head(line) \in S /\ Head(line) = line[1]
    BY HeadTailProperties
  <2>2. Len(line) # 0
    BY EmptySeq, SeqEqual
  <2> QED BY <1>2, <2>1, <2>2
<1>4. \A i \in DOMAIN t : i + 1 \in DOMAIN line /\ i + 1 # 1 /\ t[i] = line[i + 1]
  BY <1>1, <1>2
<1>5. \A i \in DOMAIN line : i # 1 => i - 1 \in DOMAIN t /\ t[i - 1] = line[i]
  BY <1>1, <1>2
<1>6. ASSUME Single(line) PROVE Single(t)
  <2>1. ASSUME NEW i \in DOMAIN t, NEW j \in DOMAIN t, t[i] = t[j] PROVE i = j
    <3>1. i + 1 = j + 1
      BY <1>4, <1>6, <2>1 DEF Single
    <3>2. i \in Int /\ j \in Int
      BY <1>2
    <3> QED BY <3>1, <3>2
  <2> QED BY <2>1 DEF Single
<1>7. ASSUME Single(line), NEW k PROVE InLine(k, t) <=> InLine(k, line) /\ k # Head(line)
  <2>1. ASSUME NEW i \in DOMAIN t, t[i] = k PROVE InLine(k, line) /\ k # Head(line)
    BY <1>3, <1>4, <1>7, <2>1 DEF Single, InLine
  <2>2. ASSUME NEW i \in DOMAIN line, line[i] = k, k # Head(line) PROVE InLine(k, t)
    BY <1>3, <1>5, <2>2 DEF InLine
  <2> QED BY <2>1, <2>2 DEF InLine
<1>8. InLine(Head(line), line)
  BY <1>3 DEF InLine
<1> QED BY <1>1, <1>3, <1>6, <1>7, <1>8 DEF t

\* The addresses of the answers are a queue like the other.
LEMMA NamesOf ==
  ASSUME NEW line \in Seq(Answers)
  PROVE  /\ Names(line) \in Albums /\ Len(Names(line)) = Len(line)
         /\ \A a \in Answers : Append(line, a) \in Seq(Answers) /\ Names(Append(line, a)) = Append(Names(line), a[1])
         /\ line # <<>> => /\ Tail(line) \in Seq(Answers) /\ Head(line) \in Answers /\ Names(line) # <<>>
                           /\ Names(Tail(line)) = Tail(Names(line)) /\ Head(Names(line)) = Head(line)[1]
<1>1. Len(line) \in Nat /\ DOMAIN line = 1 .. Len(line) /\ \A i \in 1 .. Len(line) : line[i][1] \in Pictures
  <2>1. \A i \in 1 .. Len(line) : line[i] \in Answers
    BY ElementOfSeq
  <2> QED BY <2>1, LenProperties DEF Answers
<1>2. Names(line) \in [1 .. Len(line) -> Pictures]
  BY <1>1 DEF Names
<1>3. Names(line) \in Albums
  BY <1>1, <1>2, SeqDef DEF Albums
<1>4. Len(Names(line)) = Len(line)
  BY <1>1, <1>2, <1>3, LenProperties DEF Albums
<1>5. ASSUME NEW a \in Answers
      PROVE  Append(line, a) \in Seq(Answers) /\ Names(Append(line, a)) = Append(Names(line), a[1])
  <2> DEFINE t == Append(line, a)
             u == Append(Names(line), a[1])
  <2>1. t \in Seq(Answers) /\ Len(t) = Len(line) + 1 /\ t[Len(line) + 1] = a
        /\ \A i \in 1 .. Len(line) : t[i] = line[i]
    BY AppendProperties
  <2>2. a[1] \in Pictures
    BY DEF Answers
  <2>3. u \in Albums /\ Len(u) = Len(line) + 1 /\ u[Len(line) + 1] = a[1]
        /\ \A i \in 1 .. Len(line) : u[i] = Names(line)[i]
    BY <1>3, <1>4, <2>2, AppendProperties DEF Albums
  <2> HIDE DEF t, u
  <2>4. DOMAIN u = 1 .. Len(line) + 1 /\ u = [i \in DOMAIN u |-> u[i]]
    BY <1>1, <2>3, LenProperties, SeqDef DEF Albums
  <2>5. ASSUME NEW i \in 1 .. Len(line) + 1 PROVE u[i] = t[i][1]
    <3>1. CASE i = Len(line) + 1
      BY <2>1, <2>3, <3>1
    <3>2. CASE i \in 1 .. Len(line)
      BY <2>1, <2>3, <3>2 DEF Names
    <3> QED BY <1>1, <3>1, <3>2
  <2>6. Names(t) = u
    BY <2>1, <2>4, <2>5 DEF Names
  <2> QED BY <2>1, <2>6 DEF t, u
<1>6. ASSUME line # <<>>
      PROVE  /\ Tail(line) \in Seq(Answers) /\ Head(line) \in Answers /\ Names(line) # <<>>
             /\ Names(Tail(line)) = Tail(Names(line)) /\ Head(Names(line)) = Head(line)[1]
  <2> DEFINE t == Tail(line)
             u == Tail(Names(line))
  <2>1. t \in Seq(Answers) /\ Len(t) = Len(line) - 1 /\ (\A i \in 1 .. Len(t) : t[i] = line[i + 1])
        /\ Head(line) \in Answers /\ Head(line) = line[1]
    BY <1>6, HeadTailProperties
  <2>2. Len(line) # 0
    BY <1>6, EmptySeq, SeqEqual
  <2>3. Names(line) # <<>>
    BY <1>4, <2>2, EmptySeq
  <2>4. u \in Albums /\ Len(u) = Len(line) - 1 /\ (\A i \in 1 .. Len(u) : u[i] = Names(line)[i + 1])
        /\ Head(Names(line)) = Names(line)[1]
    BY <1>3, <1>4, <2>3, HeadTailProperties DEF Albums
  <2> HIDE DEF t, u
  <2>5. DOMAIN u = 1 .. Len(line) - 1 /\ u = [i \in DOMAIN u |-> u[i]]
    BY <1>1, <2>4, LenProperties, SeqDef DEF Albums
  <2>6. ASSUME NEW i \in 1 .. Len(line) - 1 PROVE u[i] = t[i][1]
    <3>1. i \in 1 .. Len(u) /\ i \in 1 .. Len(t) /\ i + 1 \in 1 .. Len(line)
      BY <1>1, <2>1, <2>4
    <3>2. u[i] = Names(line)[i + 1] /\ t[i] = line[i + 1]
      BY <2>1, <2>4, <3>1
    <3>3. Names(line)[i + 1] = line[i + 1][1]
      BY <3>1 DEF Names
    <3> QED BY <3>2, <3>3
  <2>7. Names(t) = u
    BY <2>1, <2>5, <2>6 DEF Names
  <2>8. Head(Names(line)) = Head(line)[1]
    BY <1>1, <2>1, <2>2, <2>4 DEF Names
  <2> QED BY <2>1, <2>3, <2>7, <2>8 DEF t, u
<1> QED BY <1>3, <1>4, <1>5, <1>6

\* One worker more or less among the busy ones changes their number by one.
LEMMA BusyOf ==
  ASSUME IconType, NEW w \in 1 .. MediaWorkers
  PROVE  /\ IsFiniteSet(Busy) /\ Cardinality(Busy) \in Nat
         /\ Cardinality(Busy \cup {w}) = IF w \in Busy THEN Cardinality(Busy) ELSE Cardinality(Busy) + 1
         /\ Cardinality(Busy \ {w}) = IF w \in Busy THEN Cardinality(Busy) - 1 ELSE Cardinality(Busy)
<1>1. 1 \in Int /\ MediaWorkers \in Int
  BY IconConstants
<1>2. IsFiniteSet(1 .. MediaWorkers) /\ Busy \in SUBSET (1 .. MediaWorkers)
  BY <1>1, FS_Interval DEF Busy
<1>3. IsFiniteSet(Busy)
  BY <1>2, FS_Subset
<1> QED BY <1>3, FS_CardinalityType, FS_AddElement, FS_RemoveElement

\* A row asks.
LEMMA PlaceRequested ==
  ASSUME PlaceInv, NEW k \in Pictures, Icons!Request(k) \/ Icons!Refused(k) \/ Icons!Ignored(k)
  PROVE  PlaceInv'
<1>1. IconType /\ queue \in Seq(Pictures)
  BY DEF PlaceInv, IconType, Albums
<1>2. CASE Icons!Request(k)
  <2>1. /\ ended = FALSE /\ k \notin wanted /\ wanted' = wanted \cup {k} /\ slots' = slots + 1
        /\ queue' = Append(queue, k) /\ UNCHANGED <<quota, running, received, ended>>
    BY <1>1, <1>2 DEF Icons!Request, Icons!Asks, Icons!Wants, Icons!cache, IconType
  <2>2. Apart /\ Asked /\ SlotsHeld
    BY <2>1 DEF PlaceInv
  <2>3. ~InLine(k, queue) /\ ~Loading(k) /\ ~InLine(k, Names(received))
    BY <2>1, <2>2 DEF Asked
  <2>4. /\ queue' \in Albums /\ Len(queue') = Len(queue) + 1 /\ Single(queue')
        /\ \A j : InLine(j, queue') <=> InLine(j, queue) \/ j = k
    BY <1>1, <2>1, <2>2, <2>3, SingleGrows DEF Apart, Albums
  <2>5. Apart'
    BY <2>1, <2>2, <2>3, <2>4 DEF Apart, Loading, Loads
  <2>6. Asked'
    BY <2>1, <2>2, <2>4 DEF Asked, Loading, Loads
  <2>7. SlotsHeld'
    <3>1. Busy' = Busy /\ Len(queue) \in Nat
      BY <1>1, <2>1, LenProperties DEF Busy
    <3>2. 1 \in 1 .. MediaWorkers
      BY IconConstants
    <3>3. Cardinality(Busy) \in Nat
      BY <1>1, <3>2, BusyOf
    <3> QED BY <2>1, <2>2, <2>4, <3>1, <3>3 DEF SlotsHeld
  <2>8. IconType'
    BY <1>1, <2>1, <2>4 DEF IconType
  <2> QED BY <2>5, <2>6, <2>7, <2>8 DEF PlaceInv
<1>3. CASE Icons!Refused(k)
  <2>1. k \notin wanted /\ wanted' = wanted \ {k} /\ UNCHANGED <<quota, queue, running, slots, received, ended>>
    BY <1>3 DEF Icons!Refused, Icons!Asks, Icons!Wants, Icons!OnAvatar, Icons!Discard, Icons!media
  <2>2. wanted' = wanted
    BY <2>1
  <2> QED BY <1>1, <2>1, <2>2 DEF PlaceInv, IconType, Apart, Asked, SlotsHeld, Loading, Loads, Busy
<1>4. CASE Icons!Ignored(k)
  <2>1. ended = TRUE /\ wanted' = wanted \cup {k} /\ UNCHANGED <<quota, queue, running, slots, received, ended>>
    BY <1>1, <1>4 DEF Icons!Ignored, Icons!cache, Icons!media, IconType
  <2> QED BY <1>1, <2>1 DEF PlaceInv, IconType
<1> QED BY <1>2, <1>3, <1>4

\* A worker begins with a job, completes it, and gives its slot back.
LEMMA PlaceWorked ==
  ASSUME PlaceInv, NEW w \in 1 .. MediaWorkers, Icons!Work(w)
  PROVE  PlaceInv'
<1>1. IconType /\ queue \in Seq(Pictures) /\ Len(queue) \in Nat
  BY LenProperties DEF PlaceInv, IconType, Albums
<1>2. IsFiniteSet(Busy) /\ Cardinality(Busy) \in Nat
  BY <1>1, BusyOf
<1>3. Icons!Free[1] = "free" /\ \A k \in Pictures : <<"load", k>>[1] = "load" /\ <<"release", k>>[1] = "release"
  BY DEF Icons!Free
<1>4. CASE Icons!Begin(w)
  <2> DEFINE k == Head(queue)
  <2>1. /\ queue # <<>> /\ running[w] = Icons!Free /\ queue' = Tail(queue)
        /\ running' = [running EXCEPT ![w] = <<"load", k>>] /\ UNCHANGED <<wanted, quota, slots, received, ended>>
    BY <1>4 DEF Icons!Begin, Icons!Goes, Icons!cache
  <2>2. /\ queue' \in Albums /\ k \in Pictures /\ Len(queue') = Len(queue) - 1 /\ InLine(k, queue)
        /\ Single(queue) => Single(queue') /\ \A j : InLine(j, queue') <=> InLine(j, queue) /\ j # k
    BY <1>1, <2>1, SingleServed DEF Albums
  <2> HIDE DEF k
  <2>3. running' \in [1 .. MediaWorkers -> Jobs]
    BY <1>1, <2>1, <2>2 DEF IconType, Jobs
  <2>4. IconType'
    BY <1>1, <2>1, <2>2, <2>3 DEF IconType
  <2>5. \A v \in 1 .. MediaWorkers : running'[v] = IF v = w THEN <<"load", k>> ELSE running[v]
    BY <1>1, <2>1 DEF IconType
  <2>6. \A v \in 1 .. MediaWorkers, j \in Pictures :
          (running'[v][1] = "load" /\ running'[v][2] = j) <=> (IF v = w THEN j = k ELSE Loads(v, j))
    BY <1>3, <2>5 DEF Loads
  <2>7. ASSUME ended' = FALSE PROVE Apart' /\ Asked' /\ SlotsHeld'
    <3>1. Apart /\ Asked /\ SlotsHeld
      BY <2>1, <2>7 DEF PlaceInv
    <3>2. ~Loading(k) /\ ~InLine(k, Names(received)) /\ ~Loads(w, k)
      BY <2>2, <3>1 DEF Apart, Loading
    <3>3. \A j \in Pictures : ~Loads(w, j)
      BY <1>3, <2>1 DEF Loads
    <3>4. \A j \in Pictures : Loading(j)' <=> Loading(j) \/ j = k
      BY <2>2, <2>6, <3>3 DEF Loading, Loads
    <3>5. \A u, v \in 1 .. MediaWorkers : \A j \in Pictures : Loads(u, j)' /\ Loads(v, j)' => u = v
      BY <2>6, <3>1, <3>2 DEF Apart, Loads, Loading
    <3>6. Apart'
      BY <2>1, <2>2, <3>1, <3>2, <3>4, <3>5 DEF Apart
    <3>7. Asked'
      <4>1. \A j : InLine(j, queue') <=> InLine(j, queue) /\ j # k
        BY <2>2, <3>1 DEF Apart
      <4>2. InLine(k, queue)
        BY <2>2
      <4>3. ASSUME NEW j \in Pictures
            PROVE  j \in wanted' <=> InLine(j, queue') \/ Loading(j)' \/ InLine(j, Names(received'))
        <5>1. j \in wanted <=> InLine(j, queue) \/ Loading(j) \/ InLine(j, Names(received))
          BY <3>1 DEF Asked
        <5>2. received' = received /\ wanted' = wanted
          BY <2>1
        <5> QED BY <3>4, <4>1, <4>2, <5>1, <5>2
      <4> QED BY <4>3 DEF Asked
    <3>8. Busy' = Busy \cup {w} /\ ~(w \in Busy)
      BY <1>3, <2>1, <2>5 DEF Busy
    <3>9. Cardinality(Busy') = Cardinality(Busy) + 1
      BY <1>1, <3>8, BusyOf
    <3>10. SlotsHeld'
      BY <1>1, <1>2, <2>1, <2>2, <3>1, <3>9 DEF SlotsHeld
    <3> QED BY <3>6, <3>7, <3>10
  <2> QED BY <2>4, <2>7 DEF PlaceInv
<1>5. ASSUME NEW good \in BOOLEAN, Icons!Complete(w, good) PROVE PlaceInv'
  <2>1. PICK k \in Pictures : running[w] = <<"load", k>>
    BY <1>1, <1>3, <1>5 DEF Icons!Complete, IconType, Jobs
  <2>2. /\ running' = [running EXCEPT ![w] = <<"release", k>>]
        /\ received' = IF ended THEN received ELSE Append(received, <<k, good>>)
        /\ UNCHANGED <<wanted, quota, queue, slots, ended>>
    BY <1>5, <2>1 DEF Icons!Complete, Icons!Goes, Icons!cache
  <2>3. <<k, good>> \in Answers /\ received \in Seq(Answers) /\ <<k, good>>[1] = k
    BY <1>1 DEF Answers, IconType
  <2>4. /\ Append(received, <<k, good>>) \in Seq(Answers) /\ Names(received) \in Seq(Pictures)
        /\ Names(Append(received, <<k, good>>)) = Append(Names(received), k)
    BY <2>3, NamesOf DEF Albums
  <2>5. running' \in [1 .. MediaWorkers -> Jobs]
    BY <1>1, <2>2 DEF IconType, Jobs
  <2>6. IconType'
    BY <1>1, <2>2, <2>4, <2>5 DEF IconType
  <2>7. \A v \in 1 .. MediaWorkers : running'[v] = IF v = w THEN <<"release", k>> ELSE running[v]
    BY <1>1, <2>2 DEF IconType
  <2>8. \A v \in 1 .. MediaWorkers, j \in Pictures :
          (running'[v][1] = "load" /\ running'[v][2] = j) <=> (v # w /\ Loads(v, j))
    BY <1>3, <2>7 DEF Loads
  <2>9. ASSUME ended' = FALSE PROVE Apart' /\ Asked' /\ SlotsHeld'
    <3>1. Apart /\ Asked /\ SlotsHeld /\ received' = Append(received, <<k, good>>)
      BY <2>2, <2>9 DEF PlaceInv
    <3>2. Loads(w, k) /\ Loading(k) /\ ~InLine(k, queue) /\ ~InLine(k, Names(received))
      BY <2>1, <3>1 DEF Apart, Loading, Loads
    <3>3. /\ \A j : InLine(j, Names(received')) <=> InLine(j, Names(received)) \/ j = k
          /\ Single(Names(received'))
      <4> DEFINE n == Names(received)
      <4>1. Names(received') = Append(n, k) /\ n \in Seq(Pictures) /\ Single(n) /\ ~InLine(k, n)
        BY <2>4, <3>1, <3>2 DEF Apart
      <4> HIDE DEF n
      <4>2. /\ \A j : InLine(j, Append(n, k)) <=> InLine(j, n) \/ j = k
            /\ Single(Append(n, k))
        BY <4>1, SingleGrows
      <4> QED BY <4>1, <4>2 DEF n
    <3>4. \A j \in Pictures : Loading(j)' <=> Loading(j) /\ j # k
      <4>1. ASSUME NEW j \in Pictures, Loading(j)' PROVE Loading(j) /\ j # k
        BY <2>8, <3>1, <3>2, <4>1 DEF Loading, Loads, Apart
      <4>2. ASSUME NEW j \in Pictures, Loading(j), j # k PROVE Loading(j)'
        <5>1. PICK v \in 1 .. MediaWorkers : Loads(v, j)
          BY <4>2 DEF Loading
        <5>2. v # w
          BY <3>2, <4>2, <5>1 DEF Loads
        <5> QED BY <2>8, <5>1, <5>2 DEF Loading, Loads
      <4> QED BY <4>1, <4>2
    <3>5. \A u, v \in 1 .. MediaWorkers : \A j \in Pictures : Loads(u, j)' /\ Loads(v, j)' => u = v
      BY <2>8, <3>1 DEF Apart, Loads
    <3>6. Apart'
      BY <2>2, <3>1, <3>2, <3>3, <3>4, <3>5 DEF Apart
    <3>7. Asked'
      BY <2>2, <3>1, <3>2, <3>3, <3>4 DEF Asked
    <3>8. Busy' = Busy
      BY <1>3, <2>1, <2>7 DEF Busy
    <3> QED BY <2>2, <3>1, <3>6, <3>7, <3>8 DEF SlotsHeld
  <2> QED BY <2>6, <2>9 DEF PlaceInv
<1>6. CASE Icons!Release(w)
  <2>1. PICK k \in Pictures : running[w] = <<"release", k>>
    BY <1>1, <1>3, <1>6 DEF Icons!Release, IconType, Jobs
  <2>2. /\ running' = [running EXCEPT ![w] = Icons!Free] /\ slots' = slots - 1
        /\ UNCHANGED <<wanted, quota, queue, received, ended>>
    BY <1>6 DEF Icons!Release, Icons!Goes, Icons!ReleaseSlot, Icons!cache
  <2>3. running' \in [1 .. MediaWorkers -> Jobs]
    BY <1>1, <2>2 DEF IconType, Jobs
  <2>4. IconType'
    BY <1>1, <2>2, <2>3 DEF IconType
  <2>5. \A v \in 1 .. MediaWorkers : running'[v] = IF v = w THEN Icons!Free ELSE running[v]
    BY <1>1, <2>2 DEF IconType
  <2>6. \A v \in 1 .. MediaWorkers, j \in Pictures :
          (running'[v][1] = "load" /\ running'[v][2] = j) <=> Loads(v, j)
    BY <1>3, <2>1, <2>5 DEF Loads
  <2>7. ASSUME ended' = FALSE PROVE Apart' /\ Asked' /\ SlotsHeld'
    <3>1. Apart /\ Asked /\ SlotsHeld
      BY <2>2, <2>7 DEF PlaceInv
    <3>2. \A j \in Pictures : Loading(j)' <=> Loading(j)
      BY <2>6 DEF Loading, Loads
    <3>3. \A u, v \in 1 .. MediaWorkers : \A j \in Pictures : Loads(u, j)' /\ Loads(v, j)' => u = v
      BY <2>6, <3>1 DEF Apart, Loads
    <3>4. Apart'
      BY <2>2, <3>1, <3>2, <3>3 DEF Apart
    <3>5. Asked'
      BY <2>2, <3>1, <3>2 DEF Asked
    <3>6. Busy' = Busy \ {w} /\ w \in Busy
      BY <1>3, <2>1, <2>5 DEF Busy
    <3>7. Cardinality(Busy') = Cardinality(Busy) - 1
      BY <1>1, <3>6, BusyOf
    <3>8. SlotsHeld'
      BY <1>1, <1>2, <2>2, <3>1, <3>7 DEF SlotsHeld
    <3> QED BY <3>4, <3>5, <3>8
  <2> QED BY <2>4, <2>7 DEF PlaceInv
<1> QED BY <1>4, <1>5, <1>6 DEF Icons!Work

\* The answer that arrives ends the request of its address, and of no
\* other.
LEMMA PlaceAnswered == ASSUME PlaceInv, Icons!Receive PROVE PlaceInv'
<1>1. IconType /\ received \in Seq(Answers)
  BY DEF PlaceInv, IconType
<1>2. /\ received # <<>> /\ received' = Tail(received) /\ UNCHANGED <<quota, slots, queue, running, ended>>
      /\ wanted' = wanted \ {Head(received)[1]}
  BY DEF Icons!Receive, Icons!OnAvatar, Icons!Discard, Icons!media
<1>3. /\ received' \in Seq(Answers) /\ Names(received) \in Seq(Pictures) /\ Names(received) # <<>>
      /\ Names(received') = Tail(Names(received)) /\ Head(Names(received)) = Head(received)[1]
  BY <1>1, <1>2, NamesOf DEF Albums
<1>4. IconType'
  BY <1>1, <1>2, <1>3 DEF IconType
<1>5. ASSUME ended' = FALSE PROVE Apart' /\ Asked' /\ SlotsHeld'
  <2>1. Apart /\ Asked /\ SlotsHeld
    BY <1>2, <1>5 DEF PlaceInv
  <2> DEFINE n == Names(received)
             k == Head(received)[1]
  <2>2. n \in Seq(Pictures) /\ n # <<>> /\ Single(n) /\ Names(received') = Tail(n) /\ Head(n) = k
    BY <1>3, <2>1 DEF Apart
  <2> HIDE DEF n, k
  <2>3. InLine(k, n) /\ Single(Tail(n)) /\ \A j : InLine(j, Tail(n)) <=> InLine(j, n) /\ j # k
    BY <2>2, SingleServed
  <2>4. \A j \in Pictures : Loading(j)' <=> Loading(j)
    BY <1>2 DEF Loading, Loads
  <2>5. Apart'
    <3>1. Single(queue') /\ Single(Names(received'))
      BY <1>2, <2>1, <2>2, <2>3 DEF Apart
    <3>2. \A v, w \in 1 .. MediaWorkers : \A j \in Pictures : Loads(v, j)' /\ Loads(w, j)' => v = w
      BY <1>2, <2>1 DEF Apart, Loads
    <3>3. ASSUME NEW j \in Pictures
          PROVE  /\ ~(InLine(j, queue') /\ Loading(j)') /\ ~(InLine(j, queue') /\ InLine(j, Names(received')))
                 /\ ~(Loading(j)' /\ InLine(j, Names(received')))
      <4>1. InLine(j, Names(received')) => InLine(j, Names(received))
        BY <2>2, <2>3 DEF n
      <4> QED BY <1>2, <2>1, <2>4, <4>1 DEF Apart
    <3> QED BY <3>1, <3>2, <3>3 DEF Apart
  <2>6. Asked'
    <3>1. ASSUME NEW j \in Pictures
          PROVE  j \in wanted' <=> InLine(j, queue') \/ Loading(j)' \/ InLine(j, Names(received'))
      <4>1. InLine(j, Names(received')) <=> InLine(j, Names(received)) /\ j # k
        BY <2>2, <2>3 DEF n
      <4>2. InLine(k, Names(received)) /\ queue' = queue /\ wanted' = wanted \ {k}
        BY <1>2, <2>3 DEF n, k
      <4>3. j = k => ~InLine(j, queue) /\ ~Loading(j)
        BY <2>1, <4>2 DEF Apart
      <4>4. j \in wanted <=> InLine(j, queue) \/ Loading(j) \/ InLine(j, Names(received))
        BY <2>1 DEF Asked
      <4> QED BY <2>4, <4>1, <4>2, <4>3, <4>4
    <3> QED BY <3>1 DEF Asked
  <2>7. SlotsHeld'
    BY <1>2, <2>1 DEF SlotsHeld, Busy
  <2> QED BY <2>5, <2>6, <2>7
<1> QED BY <1>4, <1>5 DEF PlaceInv

\* Every step keeps each address asked for at one place, and the slots with
\* the jobs.
LEMMA PlaceStep == ASSUME PlaceInv, Icons!Next PROVE PlaceInv'
<1>1. IconType /\ \A k \in Pictures : <<k>> \in Albums /\ <<>> \in Albums
  BY SumOfOne DEF PlaceInv
<1>2. ASSUME UNCHANGED <<wanted, queue, running, slots, received>>, quota' \in CacheLimits, ended' \in BOOLEAN,
             ended' = FALSE => ended = FALSE
      PROVE  PlaceInv'
  BY <1>1, <1>2 DEF PlaceInv, IconType, Apart, Asked, SlotsHeld, Loading, Loads, Busy
<1>3. ASSUME NEW k \in Pictures, Icons!Paint(k) \/ Icons!Cool(k) PROVE PlaceInv'
  BY <1>1, <1>2, <1>3 DEF Icons!Paint, Icons!Cool, Icons!media, Icons!cache, IconType
<1>4. ASSUME NEW n \in CacheLimits, Icons!SetLimit(n) PROVE PlaceInv'
  BY <1>1, <1>2, <1>4 DEF Icons!SetLimit, Icons!media, IconType
<1>5. CASE Icons!Close
  BY <1>1, <1>2, <1>5 DEF Icons!Close, Icons!media, Icons!cache, IconType
<1>6. CASE Icons!Cancel
  <2>1. ended = TRUE /\ queue' = <<>> /\ UNCHANGED <<wanted, quota, slots, running, received, ended>>
    BY <1>1, <1>6 DEF Icons!Cancel, Icons!cache, IconType
  <2>2. <<>> \in Albums
    BY SumOfOne
  <2> QED BY <1>1, <2>1, <2>2 DEF PlaceInv, IconType
<1> QED BY <1>3, <1>4, <1>5, <1>6, PlaceRequested, PlaceWorked, PlaceAnswered DEF Icons!Next

\* The invariants of the cache and of the places hold at the start.
LEMMA IconInit == ASSUME Icons!Init PROVE CacheInv /\ PlaceInv
<1>1. /\ wanted = {} /\ images = <<>> /\ bytes = 0 /\ quota \in CacheLimits /\ slots = 0 /\ queue = <<>>
      /\ running = [w \in 1 .. MediaWorkers |-> Icons!Free] /\ received = <<>> /\ ended = FALSE
  BY DEF Icons!Init
<1>2. CacheInv
  BY <1>1, SumOfOne, IconConstants DEF CacheInv
<1>3. <<>> \in Seq(Answers) /\ DOMAIN <<>> = {} /\ Len(<<>>) = 0
  BY EmptySeq
<1>4. running \in [1 .. MediaWorkers -> Jobs]
  BY <1>1 DEF Jobs
<1>5. IconType
  <2>1. queue \in Albums /\ received \in Seq(Answers)
    BY <1>1, <1>3, SumOfOne
  <2>2. wanted \subseteq Pictures /\ quota \in CacheLimits
    BY <1>1
  <2>3. slots \in Int
    BY <1>1
  <2>4. ended \in BOOLEAN
    BY <1>1
  <2> QED BY <1>4, <2>1, <2>2, <2>3, <2>4 DEF IconType
<1>6. Len(Names(received)) = 0 /\ Names(received) \in Albums
  BY <1>1, <1>3, NamesOf
<1>7. DOMAIN Names(received) = {} /\ DOMAIN queue = {}
  BY <1>1, <1>3, <1>6, LenProperties DEF Albums
<1>8. \A w \in 1 .. MediaWorkers : running[w] = Icons!Free /\ running[w][1] = "free"
  BY <1>1 DEF Icons!Free
<1>9. Apart
  BY <1>7, <1>8 DEF Apart, Single, InLine, Loads, Loading
<1>10. Asked
  BY <1>1, <1>7, <1>8 DEF Asked, InLine, Loads, Loading
<1>11. SlotsHeld
  <2>1. Busy = {}
    BY <1>8 DEF Busy
  <2> QED BY <1>1, <1>3, <2>1, FS_EmptySet DEF SlotsHeld
<1> QED BY <1>2, <1>5, <1>9, <1>10, <1>11 DEF PlaceInv

\* While another part runs, the invariant of the pictures stays.
LEMMA IconKept == ASSUME UNCHANGED part, UNCHANGED avatarVars, IconInv PROVE IconInv'
BY DEF avatarVars, IconInv, CacheInv, PlaceInv, IconType, Apart, Asked, SlotsHeld, Loading, Loads, Busy

\* For any pictures, costs, slots, workers and limits: an address asked for
\* is at one place, a slot taken belongs to one job, and the cache counts
\* what it holds (service.py, presenter.py, avatars.py).
THEOREM IconInvariance == DesktopSpec => []IconInv
<1>1. ASSUME DesktopInit PROVE IconInv
  BY <1>1, IconInit DEF DesktopInit, Starts, IconInv
<1>2. ASSUME IconInv, DesktopNext PROVE IconInv'
  <2>1. CASE part = "icons" /\ Icons!Next
    <3>1. CacheInv /\ PlaceInv /\ IconType
      BY <1>2, <2>1 DEF IconInv, PlaceInv
    <3>2. CacheInv' /\ PlaceInv'
      BY <2>1, <3>1, CacheKept, PlaceStep
    <3> QED BY <3>2 DEF IconInv
  <2>2. CASE UNCHANGED avatarVars
    BY <1>2, <2>2, IconKept DEF DesktopNext
  <2> QED BY <1>2, <2>1, <2>2 DEF DesktopNext, IconInv
<1>3. ASSUME IconInv, UNCHANGED <<part, vars, popoutVars, fileVars, monitorVars, feedVars, avatarVars>>
      PROVE  IconInv'
  BY <1>3, IconKept
<1> QED BY <1>1, <1>2, <1>3, PTL DEF DesktopSpec

\* What is somewhere once is counted once.
LEMMA CountOf ==
  ASSUME NEW S, \A i, j \in S : i = j
  PROVE  Icons!Cardinality(S) = IF S = {} THEN 0 ELSE 1
<1>1. Icons!Cardinality(S) = Cardinality(S)
  BY DEF Icons!Cardinality, Cardinality
<1>2. CASE S # {}
  <2>1. PICK i \in S : S = {i}
    BY <1>2
  <2>2. Cardinality({i}) = 1
    BY FS_Singleton
  <2> QED BY <1>1, <1>2, <2>1, <2>2
<1>3. CASE S = {}
  BY <1>1, <1>3, FS_EmptySet
<1> QED BY <1>2, <1>3

\* An address at one place is counted once among all places.
LEMMA WantedIsInFlight == ASSUME IconType, Apart, Asked, NEW k \in Pictures
                          PROVE  Icons!InFlight(k) = IF k \in wanted THEN 1 ELSE 0
<1> DEFINE Q == {i \in 1 .. Len(queue) : queue[i] = k}
           W == {w \in 1 .. MediaWorkers : running[w] = <<"load", k>>}
           R == {i \in 1 .. Len(received) : received[i][1] = k}
<1>1. DOMAIN queue = 1 .. Len(queue) /\ DOMAIN Names(received) = 1 .. Len(received)
  BY LenProperties DEF IconType, Albums, Names
<1>2. \A i \in 1 .. Len(received) : Names(received)[i] = received[i][1]
  BY DEF Names
<1>3. \A w \in 1 .. MediaWorkers : running[w] = <<"load", k>> <=> Loads(w, k)
  <2>1. ASSUME NEW w \in 1 .. MediaWorkers PROVE running[w] = <<"load", k>> <=> Loads(w, k)
    <3>1. running[w] \in Jobs
      BY DEF IconType
    <3>2. CASE running[w] = Icons!Free
      BY <3>2 DEF Loads, Icons!Free
    <3>3. CASE running[w] \in {"load", "release"} \X Pictures
      BY <3>3 DEF Loads
    <3> QED BY <3>1, <3>2, <3>3 DEF Jobs
  <2> QED BY <2>1
<1>4. (Q # {} <=> InLine(k, queue)) /\ \A i, j \in Q : i = j
  BY <1>1 DEF InLine, Apart, Single
<1>5. (W # {} <=> Loading(k)) /\ \A v, w \in W : v = w
  BY <1>3 DEF Loading, Apart
<1>6. (R # {} <=> InLine(k, Names(received))) /\ \A i, j \in R : i = j
  BY <1>1, <1>2 DEF InLine, Apart, Single
<1>7. Icons!InFlight(k) = Icons!Cardinality(Q) + Icons!Cardinality(W) + Icons!Cardinality(R)
  BY DEF Icons!InFlight
<1> HIDE DEF Q, W, R
<1>8. /\ Icons!Cardinality(Q) = IF InLine(k, queue) THEN 1 ELSE 0
      /\ Icons!Cardinality(W) = IF Loading(k) THEN 1 ELSE 0
      /\ Icons!Cardinality(R) = IF InLine(k, Names(received)) THEN 1 ELSE 0
  <2>1. Icons!Cardinality(Q) = IF Q = {} THEN 0 ELSE 1
    BY <1>4, CountOf
  <2>2. Icons!Cardinality(W) = IF W = {} THEN 0 ELSE 1
    BY <1>5, CountOf
  <2>3. Icons!Cardinality(R) = IF R = {} THEN 0 ELSE 1
    BY <1>6, CountOf
  <2> QED BY <1>4, <1>5, <1>6, <2>1, <2>2, <2>3
<1>9. ~(InLine(k, queue) /\ Loading(k)) /\ ~(InLine(k, queue) /\ InLine(k, Names(received)))
      /\ ~(Loading(k) /\ InLine(k, Names(received)))
      /\ (k \in wanted <=> InLine(k, queue) \/ Loading(k) \/ InLine(k, Names(received)))
  BY DEF Apart, Asked
<1> QED BY <1>7, <1>8, <1>9

\* No comment is stuck, missing or out of order, and no picture is fetched
\* twice, forgotten or miscounted, whatever the threads, the timer, the limits
\* and the end of the program do (events.py, presenter.py, model.py,
\* avatars.py, service.py).
THEOREM FeedShowsAll == DesktopSpec => []FeedIsComplete
<1>1. ASSUME ListInv, WayInv PROVE Feed!NothingStranded /\ Feed!NewestAreShown /\ Feed!InOrder
  BY <1>1, FeedShows
<1>2. ASSUME CacheInv, PlaceInv PROVE Icons!PendingIsInFlight /\ Icons!SlotsConserved /\ Icons!BytesAgree
  <2>1. IconType /\ (ended = FALSE => Apart /\ Asked /\ SlotsHeld)
    BY <1>2 DEF PlaceInv
  <2>2. Icons!PendingIsInFlight
    BY <2>1, WantedIsInFlight DEF Icons!PendingIsInFlight
  <2>3. Icons!Cardinality(Busy) = Cardinality(Busy)
    BY DEF Icons!Cardinality, Cardinality
  <2>4. Icons!SlotsConserved
    BY <2>1, <2>3 DEF Icons!SlotsConserved, SlotsHeld, Busy
  <2>5. Icons!BytesAgree
    BY <1>2 DEF CacheInv, Icons!BytesAgree
  <2> QED BY <2>2, <2>4, <2>5
<1>3. FeedInv /\ IconInv => FeedIsComplete
  BY <1>1, <1>2 DEF FeedInv, IconInv, FeedIsComplete
<1> QED BY <1>3, FeedInvariance, IconInvariance, PTL
=============================================================================
