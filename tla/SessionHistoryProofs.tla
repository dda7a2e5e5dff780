------------------------ MODULE SessionHistoryProofs ------------------------
(***************************************************************************)
(* What agents remember, for any number of sessions, runs and past turns,  *)
(* any clock and any even limits.  The argument: a prompt is the upper end *)
(* of the visible rows in the order of the index, where the rank of a row  *)
(* is the number of newer ones; that is an invariant, and the promises of  *)
(* the history follow from it and from the order in which a run stores.    *)
(***************************************************************************)
EXTENDS SessionHistory, FiniteSetTheorems, SequenceTheorems, TLAPS

-----------------------------------------------------------------------------
(* Ranks *)

Rank(i, rows) == Cardinality(NewerThan(i, rows))

\* Rows have natural numbers for times.
LEMMA RowTypes ==
  ASSUME table \in Seq(Row), NEW i \in DOMAIN table
  PROVE  /\ i \in Nat /\ i \in 1..Len(table)
         /\ table[i].run \in Run /\ table[i].role \in Role
         /\ table[i].at \in 0..MaxTime /\ table[i].at \in Nat
<1>1. i \in Nat /\ i \in 1..Len(table) /\ table[i] \in Row
  OBVIOUS
<1>2. table[i].run \in Run /\ table[i].role \in Role /\ table[i].at \in 0..MaxTime
  BY <1>1 DEF Row
<1>3. table[i].at \in Nat
  BY <1>2, HistoryAssumption
<1>4. QED
  BY <1>1, <1>2, <1>3

\* The index puts the rows in a strict total order.
LEMMA OlderIsTotal ==
  ASSUME table \in Seq(Row)
  PROVE  /\ \A i, j \in DOMAIN table : i # j => Older(i, j) \/ Older(j, i)
         /\ \A i, j \in DOMAIN table : ~(Older(i, j) /\ Older(j, i))
         /\ \A i, j, k \in DOMAIN table : Older(i, j) /\ Older(j, k) => Older(i, k)
<1>1. \A i \in DOMAIN table : i \in Nat /\ table[i].at \in Nat
  BY RowTypes
<1>2. QED
  BY <1>1 DEF Older

\* In a set of rows the ranks are 0, 1, 2 ... from the newest row on.
LEMMA RankFacts ==
  ASSUME table \in Seq(Row), NEW V \in SUBSET (DOMAIN table)
  PROVE  /\ IsFiniteSet(V) /\ Cardinality(V) \in Nat
         /\ \A i \in V : IsFiniteSet(NewerThan(i, V)) /\ Rank(i, V) \in 0..(Cardinality(V) - 1)
         /\ \A i, j \in V : Older(i, j) => Rank(j, V) < Rank(i, V)
         /\ \A i, j \in V : Rank(i, V) = Rank(j, V) => i = j
         /\ \A i, j \in V : Rank(j, V) < Rank(i, V) => Older(i, j)
         /\ \A k \in 0..(Cardinality(V) - 1) : \E i \in V : Rank(i, V) = k
<1> DEFINE n == Cardinality(V)
<1>1. IsFiniteSet(V) /\ n \in Nat
  <2>1. DOMAIN table = 1..Len(table) /\ Len(table) \in Nat
    OBVIOUS
  <2>2. IsFiniteSet(DOMAIN table)
    BY <2>1, FS_Interval
  <2>3. QED
    BY <2>2, FS_Subset, FS_CardinalityType
<1>2. \A i \in V : /\ IsFiniteSet(NewerThan(i, V)) /\ Rank(i, V) \in Nat
                   /\ Rank(i, V) < n
  <2> SUFFICES ASSUME NEW i \in V
               PROVE  /\ IsFiniteSet(NewerThan(i, V)) /\ Rank(i, V) \in Nat
                      /\ Rank(i, V) < n
    OBVIOUS
  <2>1. NewerThan(i, V) \in SUBSET V /\ i \notin NewerThan(i, V)
    BY OlderIsTotal DEF NewerThan
  <2>2. /\ IsFiniteSet(NewerThan(i, V)) /\ Rank(i, V) <= n
        /\ n = Rank(i, V) => V = NewerThan(i, V)
    BY <1>1, <2>1, FS_Subset DEF Rank
  <2>3. Rank(i, V) \in Nat
    BY <2>2, FS_CardinalityType DEF Rank
  <2>4. QED
    BY <1>1, <2>1, <2>2, <2>3
<1>3. ASSUME NEW i \in V, NEW j \in V, Older(i, j)
      PROVE  Rank(j, V) < Rank(i, V)
  <2>1. NewerThan(j, V) \in SUBSET NewerThan(i, V)
    BY <1>3, OlderIsTotal DEF NewerThan
  <2>2. j \in NewerThan(i, V) /\ j \notin NewerThan(j, V)
    BY <1>3, OlderIsTotal DEF NewerThan
  <2>3. /\ Rank(j, V) <= Rank(i, V)
        /\ Rank(i, V) = Rank(j, V) => NewerThan(i, V) = NewerThan(j, V)
    BY <1>2, <2>1, FS_Subset DEF Rank
  <2>4. QED
    BY <1>2, <2>2, <2>3
<1>4. ASSUME NEW i \in V, NEW j \in V, Rank(i, V) = Rank(j, V)
      PROVE  i = j
  <2>1. SUFFICES ASSUME i # j PROVE FALSE
    OBVIOUS
  <2>2. Older(i, j) \/ Older(j, i)
    BY <2>1, OlderIsTotal
  <2>3. Rank(i, V) \in Nat /\ Rank(j, V) \in Nat
    BY <1>2
  <2>4. QED
    BY <1>3, <1>4, <2>2, <2>3
<1>5. ASSUME NEW i \in V, NEW j \in V, Rank(j, V) < Rank(i, V)
      PROVE  Older(i, j)
  <2>1. Rank(i, V) \in Nat /\ Rank(j, V) \in Nat
    BY <1>2
  <2>2. i # j /\ ~Older(j, i)
    BY <1>3, <1>5, <2>1
  <2>3. QED
    BY <2>2, OlderIsTotal
<1>6. ASSUME NEW k \in 0..(n - 1)
      PROVE  \E i \in V : Rank(i, V) = k
  <2> DEFINE f == [i \in V |-> Rank(i, V)]
             T == 0..(n - 1)
  <2>1. f \in [V -> T]
    BY <1>1, <1>2
  <2>2. f \in Injection(V, T)
    BY <1>4, <2>1 DEF Injection, IsInjective
  <2>3. IsFiniteSet(T) /\ Cardinality(T) = n
    BY <1>1, FS_Interval
  <2>4. f \in Surjection(V, T)
    <3> HIDE DEF f, T
    <3>1. QED
      BY <2>2, <2>3, FS_Injection
  <2>5. \E i \in V : f[i] = k
    BY <2>4 DEF Surjection
  <2>6. QED
    BY <2>5
<1>7. QED
  BY <1>1, <1>2, <1>3, <1>4, <1>5, <1>6

-----------------------------------------------------------------------------
(* Histories and prompts *)

Least(a, b) == IF a < b THEN a ELSE b

\* The sequence h is the newest part of the rows V, oldest first.
Window(h, V) ==
  /\ h \in Seq(Nat)
  /\ Len(h) <= Cardinality(V)
  /\ \A i \in DOMAIN h : h[i] \in V /\ Rank(h[i], V) = Len(h) - i

\* A row whose rank is smaller than the length of the window is in it.
LEMMA WindowHolds ==
  ASSUME table \in Seq(Row), NEW V \in SUBSET (DOMAIN table), NEW h, Window(h, V),
         NEW v \in V, Rank(v, V) < Len(h)
  PROVE  Len(h) - Rank(v, V) \in DOMAIN h /\ h[Len(h) - Rank(v, V)] = v
<1> DEFINE i == Len(h) - Rank(v, V)
<1>1. Rank(v, V) \in Nat /\ Len(h) \in Nat /\ DOMAIN h = 1..Len(h)
  BY RankFacts DEF Window
<1>2. i \in DOMAIN h
  BY <1>1
<1>3. h[i] \in V /\ Rank(h[i], V) = Len(h) - i
  BY <1>2 DEF Window
<1>4. Rank(h[i], V) = Rank(v, V)
  BY <1>1, <1>3
<1>5. h[i] = v
  BY <1>3, <1>4, RankFacts
<1>6. QED
  BY <1>2, <1>5

\* The query returns the newest rows of the session, up to the limit, the newest
\* of them first.
LEMMA QueryIsNewest ==
  ASSUME table \in Seq(Row), NEW s
  PROVE  /\ SelectNewest(s) \in Seq(Nat)
         /\ Len(SelectNewest(s)) = Least(Cardinality(RowsOf(s)), Limit)
         /\ Len(SelectNewest(s)) <= Cardinality(RowsOf(s))
         /\ \A k \in 1..Len(SelectNewest(s)) :
              SelectNewest(s)[k] \in RowsOf(s) /\ Rank(SelectNewest(s)[k], RowsOf(s)) = k - 1
<1> DEFINE V == RowsOf(s)
           n == Cardinality(V)
           m == IF n < Limit THEN n ELSE Limit
           sel == SelectNewest(s)
<1>1. V \in SUBSET (DOMAIN table) /\ V \in SUBSET Nat
  BY RowTypes DEF RowsOf
<1>2. n \in Nat /\ Limit \in Nat /\ m \in Nat /\ m <= n
  BY <1>1, RankFacts, HistoryAssumption
<1>3. sel = [k \in 1..m |-> CHOOSE i \in V : Rank(i, V) = k - 1]
  BY DEF SelectNewest, Rank
<1>3b. m = Least(n, Limit)
  BY DEF Least
<1> HIDE DEF sel, m, n
<1>4. \A k \in 1..m : sel[k] \in V /\ Rank(sel[k], V) = k - 1
  <2> SUFFICES ASSUME NEW k \in 1..m
               PROVE  sel[k] \in V /\ Rank(sel[k], V) = k - 1
    OBVIOUS
  <2>1. sel[k] = CHOOSE i \in V : Rank(i, V) = k - 1
    BY <1>3
  <2>2. k - 1 \in 0..(n - 1)
    BY <1>2
  <2>3. \E i \in V : Rank(i, V) = k - 1
    BY <1>1, <2>2, RankFacts DEF n
  <2>4. QED
    BY <2>1, <2>3
<1>5. sel \in Seq(Nat) /\ Len(sel) = m
  <2>1. sel \in [1..m -> Nat]
    BY <1>1, <1>3, <1>4
  <2>2. QED
    BY <1>2, <2>1
<1>6. QED
  BY <1>2, <1>3b, <1>4, <1>5 DEF sel, n

\* Rows that come newest first make a window when they are turned round.
LEMMA ReversedIsWindow ==
  ASSUME NEW V \in SUBSET Nat, Cardinality(V) \in Nat,
         NEW sel \in Seq(Nat), Len(sel) <= Cardinality(V),
         \A k \in 1..Len(sel) : sel[k] \in V /\ Rank(sel[k], V) = k - 1
  PROVE  Window(Reverse(sel), V) /\ Len(Reverse(sel)) = Len(sel)
<1> DEFINE m == Len(sel)
           h == Reverse(sel)
<1>1. m \in Nat
  OBVIOUS
<1>2. /\ h \in Seq(Nat) /\ Len(h) = m /\ DOMAIN h = 1..m
      /\ \A i \in 1..m : h[i] = sel[m - i + 1]
  <2>1. h = [i \in 1..m |-> sel[(m - i) + 1]]
    BY DEF Reverse
  <2>2. \A i \in 1..m : (m - i) + 1 \in 1..m
    BY <1>1
  <2>3. h \in [1..m -> Nat]
    BY <2>1, <2>2
  <2>4. h \in Seq(Nat) /\ Len(h) = m /\ DOMAIN h = 1..m
    BY <1>1, <2>3
  <2>5. QED
    BY <2>1, <2>4
<1> HIDE DEF h
<1>3. \A i \in DOMAIN h : h[i] \in V /\ Rank(h[i], V) = Len(h) - i
  <2> SUFFICES ASSUME NEW i \in 1..m
               PROVE  h[i] \in V /\ Rank(h[i], V) = m - i
    BY <1>2
  <2>1. m - i + 1 \in 1..m
    BY <1>1
  <2>2. h[i] \in V /\ Rank(h[i], V) = (m - i + 1) - 1
    BY <1>2, <2>1
  <2>3. QED
    BY <1>1, <2>2
<1>4. Window(h, V)
  BY <1>2, <1>3 DEF Window
<1>5. QED
  BY <1>2, <1>4 DEF h

\* GetHistory returns the newest rows of the session, up to the limit, the
\* oldest of them first; rows that break off leave a smaller window.
LEMMA HistoryIsWindow ==
  ASSUME table \in Seq(Row), NEW s
  PROVE  /\ Window(GetHistory(s), RowsOf(s))
         /\ Len(GetHistory(s)) = Least(Cardinality(RowsOf(s)), Limit)
         /\ \A n \in 0..Len(SelectNewest(s)) :
              Window(Reverse(SubSeq(SelectNewest(s), 1, n)), RowsOf(s))
<1> DEFINE V == RowsOf(s)
           sel == SelectNewest(s)
<1>1. V \in SUBSET (DOMAIN table) /\ V \in SUBSET Nat
  BY RowTypes DEF RowsOf
<1>2. Cardinality(V) \in Nat
  BY <1>1, RankFacts
<1>3. /\ sel \in Seq(Nat) /\ Len(sel) = Least(Cardinality(V), Limit)
      /\ Len(sel) <= Cardinality(V)
      /\ \A k \in 1..Len(sel) : sel[k] \in V /\ Rank(sel[k], V) = k - 1
  BY QueryIsNewest
<1>4. GetHistory(s) = Reverse(sel)
  BY DEF GetHistory
<1> HIDE DEF V, sel
<1>5. Window(Reverse(sel), V) /\ Len(Reverse(sel)) = Len(sel)
  BY <1>1, <1>2, <1>3, ReversedIsWindow
<1>6. ASSUME NEW n \in 0..Len(sel)
      PROVE  Window(Reverse(SubSeq(sel, 1, n)), V)
  <2> DEFINE cut == SubSeq(sel, 1, n)
  <2>1. Len(sel) \in Nat /\ n \in Nat /\ n <= Len(sel)
    BY <1>3
  <2>2. \A i \in 1..n : sel[i] \in Nat
    BY <1>3, <2>1
  <2>3. cut \in Seq(Nat) /\ Len(cut) = n /\ \A k \in 1..n : cut[k] = sel[k]
    <3>1. /\ cut \in Seq(Nat) /\ Len(cut) = IF 1 <= n THEN n - 1 + 1 ELSE 0
          /\ \A k \in 1..(n - 1 + 1) : cut[k] = sel[1 + k - 1]
      BY <2>1, <2>2, SubSeqProperties
    <3>2. n - 1 + 1 = n /\ \A k \in 1..n : 1 + k - 1 = k
      BY <2>1
    <3> HIDE DEF cut
    <3>3. Len(cut) = n
      BY <2>1, <3>1
    <3>4. QED
      BY <3>1, <3>2, <3>3
  <2> HIDE DEF cut
  <2>4. Len(cut) <= Cardinality(V)
    BY <1>2, <1>3, <2>1, <2>3
  <2>5. \A k \in 1..Len(cut) : cut[k] \in V /\ Rank(cut[k], V) = k - 1
    BY <1>3, <2>1, <2>3
  <2>6. QED
    BY <1>1, <1>2, <2>3, <2>4, <2>5, ReversedIsWindow DEF cut
<1>7. QED
  BY <1>3, <1>4, <1>5, <1>6 DEF V, sel

\* A sequence is its first k elements and the others.
LEMMA CutSequence ==
  ASSUME NEW h \in Seq(Nat), NEW k \in 0..Len(h)
  PROVE  LET a == SubSeq(h, 1, k)
             b == SubSeq(h, k + 1, Len(h))
         IN  /\ a \in Seq(Nat) /\ b \in Seq(Nat) /\ Len(b) = Len(h) - k
             /\ \A i \in 1..(Len(h) - k) : b[i] = h[k + i]
             /\ a \o b = h
<1> DEFINE n == Len(h)
           a == SubSeq(h, 1, k)
           b == SubSeq(h, k + 1, n)
<1>1. n \in Nat /\ k \in Nat /\ k <= n
  OBVIOUS
<1>2. \A i \in 1..n : h[i] \in Nat
  OBVIOUS
<1>3. /\ b \in Seq(Nat) /\ Len(b) = n - k
      /\ \A i \in 1..(n - k) : b[i] = h[k + i]
  <2>1. \A i \in (k + 1)..n : h[i] \in Nat
    BY <1>1, <1>2
  <2>2. /\ b \in Seq(Nat) /\ Len(b) = IF k + 1 <= n THEN n - (k + 1) + 1 ELSE 0
        /\ \A i \in 1..(n - (k + 1) + 1) : b[i] = h[(k + 1) + i - 1]
    BY <1>1, <2>1, SubSeqProperties
  <2>3. n - (k + 1) + 1 = n - k /\ \A i \in 1..(n - k) : (k + 1) + i - 1 = k + i
    BY <1>1
  <2>4. Len(b) = n - k
    BY <1>1, <2>2
  <2>5. \A i \in 1..(n - k) : b[i] = h[k + i]
    <3> HIDE DEF b, n
    <3>1. QED
      BY <2>2, <2>3
  <2>6. QED
    BY <2>2, <2>4, <2>5
<1>4. a \in Seq(Nat)
  <2>1. \A i \in 1..k : h[i] \in Nat
    BY <1>1, <1>2
  <2>2. QED
    BY <1>1, <2>1, SubSeqProperties
<1>5. a \o b = h
  <2>1. 1 \in 1..(n + 1) /\ k \in (1 - 1)..n /\ n \in k..n
    BY <1>1
  <2>2. a \o b = SubSeq(h, 1, n)
    BY <2>1, ConcatAdjacentSubSeq
  <2>3. QED
    BY <2>2, SubSeqFull
<1>6. QED
  BY <1>3, <1>4, <1>5

\* The context guard keeps the newest part of a history, up to KeepRecent;
\* with a summary the whole history is told.
LEMMA CompactIsWindow ==
  ASSUME NEW h, NEW V, Window(h, V), Cardinality(V) \in Nat, NEW b \in BOOLEAN
  PROVE  LET p == SemanticCompact(h, b)
         IN  /\ p.summary \in Seq(Nat)
             /\ Window(p.kept, V) /\ Len(p.kept) = Least(Len(h), KeepRecent)
             /\ p.summary # <<>> => p.summary \o p.kept = h
             /\ p.summary = <<>> => p.summary \o p.kept = p.kept
             /\ p = [summary |-> p.summary, kept |-> p.kept]
<1> DEFINE n == Len(h)
           split == IF n <= KeepRecent THEN 0 ELSE n - KeepRecent
           older == SubSeq(h, 1, split)
           kept == SubSeq(h, split + 1, n)
           p == SemanticCompact(h, b)
<1>1. /\ h \in Seq(Nat) /\ n \in Nat /\ n <= Cardinality(V)
      /\ \A i \in 1..n : h[i] \in V /\ Rank(h[i], V) = n - i
  BY DEF Window
<1>2. CompactHistory(h) = [summary |-> older, kept |-> kept]
  BY DEF CompactHistory
<1>3. p.kept = kept /\ p.summary \in {older, <<>>} /\ p = [summary |-> p.summary, kept |-> p.kept]
  <2> HIDE DEF older, kept
  <2>1. CASE b
    BY <1>2, <2>1 DEF SemanticCompact
  <2>2. CASE ~b
    BY <1>2, <2>2 DEF SemanticCompact
  <2>3. QED
    BY <2>1, <2>2
<1>4. split \in 0..n /\ n - split = Least(n, KeepRecent)
  <2> HIDE DEF n
  <2>1. KeepRecent \in Nat
    BY HistoryAssumption
  <2>2. QED
    BY <1>1, <2>1 DEF Least
<1> HIDE DEF split, p
<1>5. /\ older \in Seq(Nat) /\ kept \in Seq(Nat) /\ Len(kept) = n - split
      /\ \A i \in 1..(n - split) : kept[i] = h[split + i]
      /\ older \o kept = h
  BY <1>1, <1>4, CutSequence
<1> HIDE DEF older, kept
<1>6. Window(kept, V)
  <2>1. \A i \in DOMAIN kept : kept[i] \in V /\ Rank(kept[i], V) = Len(kept) - i
    <3> SUFFICES ASSUME NEW i \in 1..(n - split)
                 PROVE  kept[i] \in V /\ Rank(kept[i], V) = (n - split) - i
      BY <1>5
    <3>1. split + i \in 1..n
      BY <1>1, <1>4
    <3>2. h[split + i] \in V /\ Rank(h[split + i], V) = n - (split + i)
      BY <1>1, <3>1
    <3>3. kept[i] = h[split + i]
      BY <1>5
    <3>4. n - (split + i) = (n - split) - i
      BY <1>1, <1>4
    <3>5. QED
      BY <3>2, <3>3, <3>4
  <2>2. Len(kept) <= Cardinality(V)
    BY <1>1, <1>4, <1>5
  <2>3. QED
    BY <1>5, <2>1, <2>2 DEF Window
<1>7. <<>> \o kept = kept
  BY <1>5
<1>8. <<>> \in Seq(Nat)
  OBVIOUS
<1>9. QED
  BY <1>3, <1>4, <1>5, <1>6, <1>7, <1>8 DEF p

-----------------------------------------------------------------------------
(* The invariant *)

\* Times do not run ahead of the clock.  A run stores its question, then its
\* answer, each at most once and the answer no earlier, and not before it is
\* at that point.
StoreInv ==
  /\ \A r \in Run : stamp[r] <= now
  /\ \A i \in DOMAIN table : table[i].at <= now
  /\ \A i, j \in DOMAIN table : i < j /\ table[i].run = table[j].run =>
       /\ table[i].role = "user" /\ table[j].role = "assistant"
       /\ table[i].at <= table[j].at
  /\ \A i \in DOMAIN table :
       /\ pc[table[i].run] \notin {"idle", "running", "user", "insertUser"}
       /\ pc[table[i].run] \in {"assistant", "insertAssistant"} => table[i].role = "user"
       /\ pc[table[i].run] = "insertAssistant" => table[i].at <= stamp[table[i].run]

Stores(r, role) == \E i \in DOMAIN table : table[i].run = r /\ table[i].role = role

\* What a run that met no fault has stored.
StoredInv ==
  \A r \in Run \ damaged :
    /\ pc[r] \in {"assistant", "insertAssistant", "reply", "done"} => Stores(r, "user")
    /\ pc[r] \in {"reply", "done"} => Stores(r, "assistant")

\* The rows of a run whose result was out before s read the history were there
\* when s read it, and those of s come later.
BeforeInv ==
  \A s \in Run : \A r \in before[s] :
    /\ pc[r] = "done"
    /\ \A i, j \in DOMAIN table : table[i].run = r /\ table[j].run = s =>
         i < j /\ table[i].at <= table[j].at
    /\ \A i \in DOMAIN table : table[i].run = r =>
         /\ pc[s] \in {"insertUser", "insertAssistant"} => table[i].at <= stamp[s]
         /\ s \in Live => i <= seen[s]

\* The prompt of a run is the newest part of what it could see, and as much of
\* it as the limits allow if the run read the whole of its history.
PromptOf(q) ==
  /\ seen[q] <= Len(table)
  /\ Window(prompt[q].kept, Visible(q))
  /\ Window(Remembered(q), Visible(q))
  /\ before[q] # {} =>
       /\ Len(prompt[q].kept) = Least(Cardinality(Visible(q)), KeepRecent)
       /\ Len(Remembered(q)) >=
            Least(Cardinality(Visible(q)), IF prompt[q].summary = <<>> THEN KeepRecent ELSE Limit)

PromptInv == \A q \in Run : PromptOf(q)

HistoryInv == TypeOK /\ StoreInv /\ StoredInv /\ BeforeInv /\ PromptInv

\* The limits are natural numbers.
LEMMA Bounds == Limit \in Nat /\ KeepRecent \in Nat /\ KeepRecent <= Limit
               /\ MaxTime \in Nat /\ MaxFaults \in Nat
BY HistoryAssumption

\* Rows are only added.
Extended ==
  /\ Len(table) <= Len(table')
  /\ \A i \in DOMAIN table : i \in DOMAIN table' /\ table'[i] = table[i]

\* A run's prompt stays what it is when rows are added.
LEMMA PromptStays ==
  ASSUME table \in Seq(Row), table' \in Seq(Row), Extended,
         NEW q \in Run, seen[q] \in Nat, PromptOf(q),
         seen'[q] = seen[q], prompt'[q] = prompt[q], before'[q] = before[q]
  PROVE  PromptOf(q)'
<1> DEFINE V == Visible(q)
<1>1. 1..seen[q] \subseteq DOMAIN table /\ Len(table) \in Nat /\ Len(table') \in Nat
  BY DEF PromptOf
<1>2. \A i \in 1..seen[q] : table'[i] = table[i]
  BY <1>1 DEF Extended
<1>3. V' = V
  BY <1>2 DEF Visible
<1>4. V \subseteq 1..seen[q]
  BY DEF Visible
<1>5. \A i \in V : Rank(i, V)' = Rank(i, V)
  <2> SUFFICES ASSUME NEW i \in V PROVE NewerThan(i, V)' = NewerThan(i, V)
    BY DEF Rank
  <2>1. \A j \in V : Older(i, j)' <=> Older(i, j)
    BY <1>2, <1>4 DEF Older
  <2> HIDE DEF V
  <2>2. QED
    BY <1>3, <2>1 DEF NewerThan
<1>6. Remembered(q)' = Remembered(q)
  BY DEF Remembered
<1> HIDE DEF V
<1>7. \A h : Window(h, V) => \A i \in DOMAIN h : h[i] \in V /\ Rank(h[i], V) = Len(h) - i
  BY DEF Window
<1>8. Window(prompt[q].kept, V)'
  BY <1>3, <1>5, <1>7 DEF PromptOf, Window, V
<1>9. Window(Remembered(q), V)'
  BY <1>3, <1>5, <1>6, <1>7 DEF PromptOf, Window, V
<1>10. QED
  BY <1>1, <1>3, <1>6, <1>8, <1>9 DEF PromptOf, Extended, V

\* What the proofs use of the type invariant.
LEMMA Types ==
  ASSUME TypeOK
  PROVE  /\ table \in Seq(Row) /\ Len(table) \in Nat /\ DOMAIN table = 1..Len(table)
         /\ \A i \in DOMAIN table :
              /\ i \in Nat /\ table[i].run \in Run
              /\ table[i].role \in Role /\ table[i].at \in Nat
         /\ now \in Nat /\ now \in 0..MaxTime
         /\ pc \in [Run -> PCs] /\ stamp \in [Run -> Nat] /\ stamp \in [Run -> 0..MaxTime]
         /\ prompt \in [Run -> [kept : Seq(Nat), summary : Seq(Nat)]]
         /\ faults \in 0..MaxFaults
         /\ seen \in [Run -> Nat] /\ before \in [Run -> SUBSET Run] /\ damaged \subseteq Run
<1>1. table \in Seq(Row)
  BY DEF TypeOK
<1>2. Len(table) \in Nat /\ DOMAIN table = 1..Len(table)
  BY <1>1
<1>3. \A i \in DOMAIN table : /\ i \in Nat /\ table[i].run \in Run
                              /\ table[i].role \in Role /\ table[i].at \in Nat
  BY <1>1, RowTypes
<1>4. now \in Nat /\ stamp \in [Run -> Nat]
  BY Bounds DEF TypeOK
<1>5. QED
  BY <1>1, <1>2, <1>3, <1>4 DEF TypeOK

\* A run goes on without storing anything, or dies.
LEMMA MoveKeeps ==
  ASSUME HistoryInv, NEW r \in Run, NEW to \in {"running", "user", "failed", "done"},
         pc' = [pc EXCEPT ![r] = to],
         to \in {"running", "user"} => pc[r] \in {"idle", "running"},
         to = "done" => pc[r] = "reply",
         pc[r] # "done",
         UNCHANGED <<now, table, stamp, prompt, seen, before>>,
         damaged \subseteq damaged', damaged' \subseteq Run, faults' \in 0..MaxFaults
  PROVE  HistoryInv'
<1> USE DEF HistoryInv
<1>1. /\ table \in Seq(Row) /\ pc \in [Run -> PCs] /\ seen \in [Run -> Nat]
      /\ before \in [Run -> SUBSET Run]
      /\ \A i \in DOMAIN table : table[i].run \in Run
  BY Types
<1>2. TypeOK'
  BY DEF TypeOK, PCs
<1>3. /\ pc'[r] = to /\ \A x \in Run : x # r => pc'[x] = pc[x]
  BY <1>1
<1>4. StoreInv'
  BY <1>1, <1>3 DEF StoreInv
<1>5. StoredInv'
  <2>1. \A x \in Run, role \in Role : Stores(x, role)' <=> Stores(x, role)
    BY DEF Stores
  <2>2. QED
    BY <1>3, <2>1 DEF StoredInv, Role
<1>6. BeforeInv'
  BY <1>1, <1>3 DEF BeforeInv, Live
<1>7. PromptInv'
  <2>1. Extended /\ table' \in Seq(Row)
    BY <1>1 DEF Extended
  <2>2. QED
    BY <1>1, <2>1, PromptStays DEF PromptInv
<1>8. QED
  BY <1>2, <1>4, <1>5, <1>6, <1>7

\* AddMessage takes the time.
LEMMA StampKeeps ==
  ASSUME HistoryInv, NEW r \in Run, StampUser(r) \/ StampAssistant(r)
  PROVE  HistoryInv'
<1> USE DEF HistoryInv
<1>1. /\ table \in Seq(Row) /\ pc \in [Run -> PCs] /\ seen \in [Run -> Nat]
      /\ before \in [Run -> SUBSET Run] /\ stamp \in [Run -> Nat] /\ now \in Nat
      /\ \A i \in DOMAIN table : table[i].run \in Run /\ table[i].at \in Nat
  BY Types
<1>2. PICK to \in {"insertUser", "insertAssistant"} :
        /\ pc' = [pc EXCEPT ![r] = to]
        /\ to = "insertUser" => pc[r] = "user"
        /\ to = "insertAssistant" => pc[r] = "assistant"
  BY DEF StampUser, StampAssistant, Stamp, Goto
<1>3. /\ stamp' = [stamp EXCEPT ![r] = now]
      /\ UNCHANGED <<now, table, prompt, faults, seen, before, damaged>>
  BY DEF StampUser, StampAssistant, Stamp
<1>4. TypeOK'
  BY <1>2, <1>3 DEF TypeOK, PCs
<1>5. /\ pc'[r] = to /\ \A x \in Run : x # r => pc'[x] = pc[x]
      /\ stamp'[r] = now /\ \A x \in Run : x # r => stamp'[x] = stamp[x]
  BY <1>1, <1>2, <1>3
<1>6. StoreInv'
  BY <1>1, <1>2, <1>3, <1>5 DEF StoreInv
<1>7. StoredInv'
  <2>1. \A x \in Run, role \in Role : Stores(x, role)' <=> Stores(x, role)
    BY <1>3 DEF Stores
  <2>2. QED
    BY <1>2, <1>3, <1>5, <2>1 DEF StoredInv, Role
<1>8. BeforeInv'
  <2>1. \A i \in DOMAIN table : table[i].at <= now
    BY DEF StoreInv
  <2>2. pc[r] # "done"
    BY <1>2
  <2>3. QED
    BY <1>1, <1>3, <1>5, <2>1, <2>2 DEF BeforeInv, Live
<1>9. PromptInv'
  <2>1. Extended /\ table' \in Seq(Row)
    BY <1>1, <1>3 DEF Extended
  <2>2. QED
    BY <1>1, <1>3, <2>1, PromptStays DEF PromptInv
<1>10. QED
  BY <1>4, <1>6, <1>7, <1>8, <1>9

\* The clock ticks.
LEMMA TickKeeps ==
  ASSUME HistoryInv, Tick
  PROVE  HistoryInv'
<1> USE DEF HistoryInv
<1>1. /\ table \in Seq(Row) /\ seen \in [Run -> Nat] /\ stamp \in [Run -> Nat] /\ now \in Nat
      /\ \A i \in DOMAIN table : table[i].at \in Nat
  BY Types
<1>2. /\ now' = now + 1 /\ now < MaxTime
      /\ UNCHANGED <<table, pc, stamp, prompt, faults, seen, before, damaged>>
  BY DEF Tick
<1>3. TypeOK'
  BY <1>1, <1>2, Bounds DEF TypeOK
<1>4. StoreInv'
  BY <1>1, <1>2 DEF StoreInv
<1>5. StoredInv' /\ BeforeInv'
  BY <1>2 DEF StoredInv, Stores, BeforeInv, Live
<1>6. PromptInv'
  <2>1. Extended /\ table' \in Seq(Row)
    BY <1>1, <1>2 DEF Extended
  <2>2. QED
    BY <1>1, <1>2, <2>1, PromptStays DEF PromptInv
<1>7. QED
  BY <1>3, <1>4, <1>5, <1>6

\* AddMessage inserts, or fails to.
LEMMA InsertKeeps ==
  ASSUME HistoryInv, NEW r \in Run, InsertUser(r) \/ InsertAssistant(r)
  PROVE  HistoryInv'
<1> USE DEF HistoryInv
<1>1. /\ table \in Seq(Row) /\ Len(table) \in Nat /\ DOMAIN table = 1..Len(table)
      /\ pc \in [Run -> PCs] /\ seen \in [Run -> Nat]
      /\ before \in [Run -> SUBSET Run] /\ stamp \in [Run -> 0..MaxTime] /\ now \in Nat
      /\ \A i \in DOMAIN table : i \in Nat /\ table[i].run \in Run /\ table[i].at \in Nat
      /\ stamp \in [Run -> Nat]
  BY Types
<1>2. PICK role \in Role, to \in {"assistant", "reply"} :
        /\ pc' = [pc EXCEPT ![r] = to]
        /\ to = "assistant" => pc[r] = "insertUser" /\ role = "user"
        /\ to = "reply" => pc[r] = "insertAssistant" /\ role = "assistant"
        /\ \/ /\ table' = Append(table, [run |-> r, role |-> role, at |-> stamp[r]])
              /\ UNCHANGED <<faults, damaged>>
           \/ /\ faults < MaxFaults /\ faults' = faults + 1
              /\ damaged' = damaged \cup {r} /\ UNCHANGED table
        /\ UNCHANGED <<now, stamp, prompt, seen, before>>
  BY DEF InsertUser, InsertAssistant, Insert, Goto, Fault, Role
<1>3. /\ pc'[r] = to /\ \A x \in Run : x # r => pc'[x] = pc[x]
      /\ pc[r] # "done" /\ pc[r] \in {"insertUser", "insertAssistant"}
  BY <1>1, <1>2
<1>4. /\ pc' \in [Run -> PCs] /\ damaged' \subseteq Run /\ damaged \subseteq damaged'
  BY <1>1, <1>2 DEF PCs, TypeOK
<1>5. faults' \in 0..MaxFaults
  BY <1>2, Bounds DEF TypeOK
<1>6. CASE UNCHANGED table /\ r \in damaged'
  <2>1. TypeOK'
    BY <1>2, <1>4, <1>5, <1>6 DEF TypeOK
  <2>2. StoreInv'
    BY <1>1, <1>2, <1>3, <1>6 DEF StoreInv
  <2>3. StoredInv'
    <3>1. \A x \in Run, l \in Role : Stores(x, l)' <=> Stores(x, l)
      BY <1>6 DEF Stores
    <3>2. QED
      BY <1>3, <1>4, <1>6, <3>1 DEF StoredInv, Role
  <2>4. BeforeInv'
    <3>1. \A x \in Run : pc'[x] \in {"insertUser", "insertAssistant"} =>
                            pc[x] \in {"insertUser", "insertAssistant"}
      BY <1>2, <1>3
    <3>2. \A x \in Run : pc[x] = "done" => pc'[x] = "done"
      BY <1>3
    <3>3. before' = before /\ stamp' = stamp /\ seen' = seen /\ table' = table
      BY <1>2, <1>6
    <3>4. QED
      BY <1>1, <3>1, <3>2, <3>3 DEF BeforeInv, Live
  <2>5. PromptInv'
    <3>1. Extended /\ table' \in Seq(Row)
      BY <1>1, <1>6 DEF Extended
    <3>2. QED
      BY <1>1, <1>2, <3>1, PromptStays DEF PromptInv
  <2>6. QED
    BY <2>1, <2>2, <2>3, <2>4, <2>5
<1>7. CASE table' = Append(table, [run |-> r, role |-> role, at |-> stamp[r]])
           /\ UNCHANGED <<faults, damaged>>
  <2> DEFINE n == Len(table) + 1
             row == [run |-> r, role |-> role, at |-> stamp[r]]
  <2>1. row \in Row
    BY <1>1 DEF Row
  <2>2. row.run = r /\ row.role = role /\ row.at = stamp[r] /\ stamp[r] \in Nat
    BY <1>1
  <2> HIDE DEF row
  <2>3. table' = Append(table, row)
    BY <1>7 DEF row
  <2>4. /\ table' \in Seq(Row) /\ DOMAIN table' = 1..n /\ Len(table') = n
        /\ table'[n] = row /\ \A i \in DOMAIN table : table'[i] = table[i]
    BY <1>1, <2>1, <2>3
  <2>5. /\ n \in DOMAIN table' /\ n \notin DOMAIN table
        /\ \A i \in DOMAIN table' : i \in DOMAIN table \/ i = n
        /\ \A i \in DOMAIN table : i < n /\ i \in DOMAIN table'
    BY <1>1, <2>4
  <2>6. Extended
    BY <1>1, <2>4, <2>5 DEF Extended
  <2>7. TypeOK'
    BY <1>2, <1>4, <1>5, <2>4 DEF TypeOK
  <2>8. StoreInv'
    <3>1. \A i \in DOMAIN table : table[i].run = r =>
            role = "assistant" /\ to = "reply" /\ table[i].role = "user" /\ table[i].at <= stamp[r]
      BY <1>1, <1>2 DEF StoreInv
    <3>2. stamp[r] <= now
      BY DEF StoreInv
    <3> HIDE DEF n
    <3>3. (\A i \in DOMAIN table : table[i].at <= now)' /\ (\A x \in Run : stamp[x] <= now)'
      BY <1>2, <2>2, <2>4, <2>5, <3>2 DEF StoreInv
    <3>4. ASSUME NEW i \in DOMAIN table', NEW j \in DOMAIN table',
                 i < j, table'[i].run = table'[j].run
          PROVE  /\ table'[i].role = "user" /\ table'[j].role = "assistant"
                 /\ table'[i].at <= table'[j].at
      <4>1. i \in DOMAIN table /\ table'[i] = table[i]
        <5>1. i = n => FALSE
          BY <1>1, <2>4, <3>4 DEF n
        <5>2. QED
          BY <2>4, <2>5, <5>1
      <4>2. CASE j \in DOMAIN table
        BY <2>4, <3>4, <4>1, <4>2 DEF StoreInv
      <4>3. CASE j = n
        BY <2>2, <2>4, <3>1, <3>4, <4>1, <4>3
      <4>4. QED
        BY <2>5, <4>2, <4>3
    <3>5. ASSUME NEW i \in DOMAIN table'
          PROVE  LET x == table'[i].run
                 IN  /\ pc'[x] \notin {"idle", "running", "user", "insertUser"}
                     /\ pc'[x] \in {"assistant", "insertAssistant"} => table'[i].role = "user"
                     /\ pc'[x] = "insertAssistant" => table'[i].at <= stamp'[x]
      <4>1. CASE i = n
        BY <1>2, <1>3, <2>2, <2>4, <4>1 DEF Role
      <4>2. CASE i \in DOMAIN table /\ table[i].run = r
        BY <1>3, <2>4, <3>1, <4>2
      <4>3. CASE i \in DOMAIN table /\ table[i].run # r
        BY <1>1, <1>2, <1>3, <2>4, <4>3 DEF StoreInv
      <4>4. QED
        BY <2>5, <4>1, <4>2, <4>3
    <3>6. QED
      BY <3>3, <3>4, <3>5 DEF StoreInv
  <2>9. StoredInv'
    <3> HIDE DEF n
    <3>1. \A x \in Run, l \in Role : Stores(x, l) => Stores(x, l)'
      BY <2>4, <2>5 DEF Stores
    <3>2. Stores(r, role)'
      BY <2>2, <2>4, <2>5 DEF Stores
    <3>3. damaged' = damaged
      BY <1>7
    <3>4. ASSUME NEW x \in Run \ damaged, x # r
          PROVE  /\ pc'[x] \in {"assistant", "insertAssistant", "reply", "done"} =>
                      Stores(x, "user")'
                 /\ pc'[x] \in {"reply", "done"} => Stores(x, "assistant")'
      BY <1>3, <3>1, <3>4 DEF StoredInv, Role
    <3>5. r \notin damaged /\ to = "reply" => Stores(r, "user")'
      BY <1>2, <3>1 DEF StoredInv, Role
    <3>6. QED
      BY <1>2, <1>3, <3>2, <3>3, <3>4, <3>5 DEF StoredInv, Role
  <2>10. BeforeInv'
    <3> HIDE DEF n
    <3>1. SUFFICES ASSUME NEW y \in Run, NEW x \in before[y]
                   PROVE  /\ pc'[x] = "done"
                          /\ \A i, j \in DOMAIN table' : table'[i].run = x /\ table'[j].run = y =>
                               i < j /\ table'[i].at <= table'[j].at
                          /\ \A i \in DOMAIN table' : table'[i].run = x =>
                               /\ pc'[y] \in {"insertUser", "insertAssistant"} =>
                                    table'[i].at <= stamp'[y]
                               /\ y \in Live => i <= seen'[y]
      BY <1>2 DEF BeforeInv, Live
    <3>2. x \in Run /\ pc[x] = "done" /\ x # r
      BY <1>1, <1>3 DEF BeforeInv
    <3>3. \A i \in DOMAIN table' : table'[i].run = x => i \in DOMAIN table /\ table'[i] = table[i]
      BY <2>2, <2>4, <2>5, <3>2
    <3>4. \A i \in DOMAIN table : table[i].run = x =>
            /\ pc[y] \in {"insertUser", "insertAssistant"} => table[i].at <= stamp[y]
            /\ y \in Live => i <= seen[y]
      BY DEF BeforeInv
    <3>5. \A i \in DOMAIN table' : table'[i].run = x =>
            /\ pc'[y] \in {"insertUser", "insertAssistant"} => table'[i].at <= stamp'[y]
            /\ y \in Live => i <= seen'[y]
      BY <1>2, <1>3, <3>3, <3>4
    <3>6. ASSUME NEW i \in DOMAIN table', NEW j \in DOMAIN table',
                 table'[i].run = x, table'[j].run = y
          PROVE  i < j /\ table'[i].at <= table'[j].at
      <4>1. i \in DOMAIN table /\ table'[i] = table[i]
        BY <3>3, <3>6
      <4>2. CASE j \in DOMAIN table
        BY <2>4, <3>6, <4>1, <4>2 DEF BeforeInv
      <4>3. CASE j = n
        <5>1. y = r /\ table'[j].at = stamp[r] /\ i < n
          BY <2>2, <2>4, <2>5, <3>6, <4>1, <4>3
        <5>2. QED
          BY <1>3, <3>4, <3>6, <4>1, <4>3, <5>1
      <4>4. QED
        BY <2>5, <4>2, <4>3
    <3>7. QED
      BY <1>3, <3>2, <3>5, <3>6
  <2>11. PromptInv'
    BY <1>1, <1>2, <2>4, <2>6, PromptStays DEF PromptInv
  <2>12. QED
    BY <2>7, <2>8, <2>9, <2>10, <2>11
<1>8. QED
  BY <1>2, <1>6, <1>7

\* A run reads its history, or the newest rows of it: its prompt is the newest
\* part of the rows there are, and every run that is done has all its rows among
\* them.
LEMMA ReadKeeps ==
  ASSUME HistoryInv, NEW r \in Run, NEW h, NEW b \in BOOLEAN, NEW B \in SUBSET Run,
         Window(h, RowsOf(SessionOf[r])),
         B # {} => Len(h) = Least(Cardinality(RowsOf(SessionOf[r])), Limit),
         \A x \in B : pc[x] = "done",
         pc[r] = "idle", pc' = [pc EXCEPT ![r] = "running"],
         prompt' = [prompt EXCEPT ![r] = SemanticCompact(h, b)],
         seen' = [seen EXCEPT ![r] = Len(table)],
         before' = [before EXCEPT ![r] = B],
         faults' \in 0..MaxFaults, UNCHANGED <<now, table, stamp, damaged>>
  PROVE  HistoryInv'
<1> USE DEF HistoryInv
<1>1. /\ table \in Seq(Row) /\ Len(table) \in Nat /\ DOMAIN table = 1..Len(table)
      /\ pc \in [Run -> PCs] /\ seen \in [Run -> Nat]
      /\ before \in [Run -> SUBSET Run]
      /\ prompt \in [Run -> [kept : Seq(Nat), summary : Seq(Nat)]]
      /\ \A i \in DOMAIN table : i \in Nat /\ table[i].run \in Run
  BY Types
<1> DEFINE V == RowsOf(SessionOf[r])
<1> DEFINE p == SemanticCompact(h, b)
<1>4. V \in SUBSET (DOMAIN table)
  BY DEF RowsOf
<1>5. Cardinality(V) \in Nat
  BY <1>1, <1>4, RankFacts
<1>6. Window(h, V) /\ (B # {} => Len(h) = Least(Cardinality(V), Limit))
  OBVIOUS
<1> HIDE DEF V
<1>7. /\ p.summary \in Seq(Nat)
      /\ Window(p.kept, V) /\ Len(p.kept) = Least(Len(h), KeepRecent)
      /\ p.summary # <<>> => p.summary \o p.kept = h
      /\ p.summary = <<>> => p.summary \o p.kept = p.kept
      /\ p = [summary |-> p.summary, kept |-> p.kept]
  BY <1>5, <1>6, CompactIsWindow
<1> HIDE DEF p
<1>8. p.kept \in Seq(Nat) /\ p \in [kept : Seq(Nat), summary : Seq(Nat)]
  BY <1>7 DEF Window
<1>9. /\ pc'[r] = "running" /\ \A x \in Run : x # r => pc'[x] = pc[x]
      /\ seen'[r] = Len(table) /\ \A x \in Run : x # r => seen'[x] = seen[x]
      /\ \A x \in Run : x # r => before'[x] = before[x]
      /\ before'[r] = B
  BY <1>1
<1>10. prompt'[r] = p /\ \A x \in Run : x # r => prompt'[x] = prompt[x]
  BY <1>1 DEF p
<1>11. TypeOK'
  <2>1. prompt' \in [Run -> [kept : Seq(Nat), summary : Seq(Nat)]]
    BY <1>1, <1>8 DEF p
  <2>2. pc' \in [Run -> PCs] /\ seen' \in [Run -> Nat] /\ before' \in [Run -> SUBSET Run]
    BY <1>1 DEF PCs
  <2>3. QED
    BY <2>1, <2>2 DEF TypeOK
<1>12. StoreInv'
  BY <1>1, <1>9 DEF StoreInv
<1>13. StoredInv'
  <2>1. \A x \in Run, l \in Role : Stores(x, l)' <=> Stores(x, l)
    BY DEF Stores
  <2>2. QED
    BY <1>9, <2>1 DEF StoredInv, Role
<1>14. BeforeInv'
  <2>1. \A i \in DOMAIN table : table[i].run # r /\ i <= Len(table)
    BY <1>1 DEF StoreInv
  <2>2. \A s \in Run : \A x \in before'[s] : pc'[x] = "done"
    BY <1>1, <1>9 DEF BeforeInv
  <2>3. ASSUME NEW s \in Run, NEW x \in before'[s], s # r
        PROVE  /\ \A i, j \in DOMAIN table : table[i].run = x /\ table[j].run = s =>
                    i < j /\ table[i].at <= table[j].at
               /\ \A i \in DOMAIN table : table[i].run = x =>
                    /\ pc'[s] \in {"insertUser", "insertAssistant"} => table[i].at <= stamp[s]
                    /\ s \in Live => i <= seen'[s]
    BY <1>9, <2>3 DEF BeforeInv
  <2>4. ASSUME NEW s \in Run, NEW x \in before'[s], s = r
        PROVE  /\ \A i, j \in DOMAIN table : table[i].run = x /\ table[j].run = s =>
                    i < j /\ table[i].at <= table[j].at
               /\ \A i \in DOMAIN table : table[i].run = x =>
                    /\ pc'[s] \in {"insertUser", "insertAssistant"} => table[i].at <= stamp[s]
                    /\ s \in Live => i <= seen'[s]
    BY <1>9, <2>1, <2>4
  <2>5. QED
    BY <2>2, <2>3, <2>4 DEF BeforeInv, Live
<1>15. PromptInv'
  <2>1. Extended /\ table' = table /\ table' \in Seq(Row)
    BY <1>1 DEF Extended
  <2>2. \A q \in Run : q # r => PromptOf(q)'
    BY <1>1, <1>9, <1>10, <2>1, PromptStays DEF PromptInv
  <2>3. Visible(r)' = V
    BY <1>1, <1>9, <2>1 DEF Visible, RowsOf, V
  <2>5. Remembered(r)' = p.summary \o p.kept
    BY <1>10 DEF Remembered
  <2>6. Window(p.summary \o p.kept, V)
    BY <1>6, <1>7
  <2>7. /\ Limit \in Nat /\ KeepRecent \in Nat /\ KeepRecent <= Limit
        /\ Len(h) \in Nat
    BY <1>6, Bounds DEF Window
  <2>8. ASSUME B # {}
        PROVE  Len(p.kept) = Least(Cardinality(V), KeepRecent)
    BY <1>5, <1>6, <1>7, <2>7, <2>8 DEF Least
  <2>9. ASSUME B # {}
        PROVE  Len(p.summary \o p.kept) >=
                 Least(Cardinality(V), IF p.summary = <<>> THEN KeepRecent ELSE Limit)
    BY <2>9, <1>5, <1>6, <1>7, <2>7, <2>8 DEF Least
  <2>10. \A i, j : Older(i, j)' <=> Older(i, j)
    BY <2>1 DEF Older
  <2>11. \A i : Rank(i, Visible(r))' = Rank(i, V)
    BY <2>3, <2>10 DEF Rank, NewerThan
  <2>12. Window(prompt[r].kept, Visible(r))'
    BY <1>7, <1>10, <2>3, <2>11 DEF Window
  <2>13. Window(Remembered(r), Visible(r))'
    BY <2>3, <2>5, <2>6, <2>11 DEF Window
  <2>14. PromptOf(r)'
    <3>1. seen'[r] <= Len(table')
      BY <1>1, <1>9, <2>1
    <3>2. ASSUME before'[r] # {}
          PROVE  /\ Len(prompt'[r].kept) = Least(Cardinality(Visible(r)'), KeepRecent)
                 /\ Len(Remembered(r)') >=
                      Least(Cardinality(Visible(r)'),
                            IF prompt'[r].summary = <<>> THEN KeepRecent ELSE Limit)
      BY <3>2, <1>9, <1>10, <2>3, <2>5, <2>8, <2>9
    <3>3. QED
      BY <2>12, <2>13, <3>1, <3>2 DEF PromptOf, Least
  <2>15. QED
    BY <2>2, <2>14 DEF PromptInv
<1>16. QED
  BY <1>11, <1>12, <1>13, <1>14, <1>15

\* The past turns are whole and in order.
LEMMA InitHistory == Init => HistoryInv
<1> SUFFICES ASSUME Init PROVE HistoryInv
  OBVIOUS
<1> DEFINE n == Len(Past)
           T(i) == (i + 1) \div 2
           row(i) == [run |-> Past[T(i)], role |-> IF i % 2 = 1 THEN "user" ELSE "assistant",
                      at |-> 0]
<1>1. /\ n \in Nat /\ \A k \in 1..n : Past[k] \in Run
      /\ \A k, l \in 1..n : Past[k] = Past[l] => k = l
      /\ DOMAIN Past = 1..n
  BY HistoryAssumption
<1>2. /\ \A i \in 1..(2 * n) : T(i) \in 1..n
      /\ \A i, j \in 1..(2 * n) : i < j /\ T(i) = T(j) => i % 2 = 1 /\ j % 2 # 1
      /\ \A i, j \in 1..(2 * n) : T(i) < T(j) => i < j
  BY <1>1
<1>3. /\ DOMAIN table = 1..(2 * n) /\ \A i \in 1..(2 * n) : table[i] = row(i)
  BY DEF Init
<1>4. \A i \in 1..(2 * n) : row(i) \in Row
  BY <1>1, <1>2, Bounds DEF Row, Role
<1>5. table \in Seq(Row) /\ Len(table) = 2 * n
  <2>1. table \in [1..(2 * n) -> Row] /\ 2 * n \in Nat
    BY <1>1, <1>3, <1>4 DEF Init
  <2>2. QED
    BY <1>3, <2>1
<1>6. \A i \in DOMAIN table :
        /\ table[i].run = Past[T(i)] /\ table[i].at = 0
        /\ i % 2 = 1 => table[i].role = "user"
        /\ i % 2 # 1 => table[i].role = "assistant"
  BY <1>3
<1> HIDE DEF row, T
<1>7. \A k \in 1..n : pc[Past[k]] = "done"
  BY <1>1 DEF Init, Range
<1>8. /\ stamp = [r \in Run |-> 0] /\ now = 0 /\ seen = [r \in Run |-> 0] /\ damaged = {}
      /\ prompt = [r \in Run |-> Empty] /\ faults = 0
  BY DEF Init
<1>9. ASSUME NEW s \in Run
      PROVE  /\ \A x \in before[s] : \E k, l \in 1..n : k < l /\ Past[k] = x /\ Past[l] = s
             /\ before[s] \subseteq Run
  BY <1>1 DEF Init
<1>10. TypeOK
  <2>1. now \in 0..MaxTime /\ faults \in 0..MaxFaults /\ 0 \in 0..MaxTime
    BY <1>8, Bounds
  <2>2. <<>> \in Seq(Nat)
    OBVIOUS
  <2>3. Empty \in [kept : Seq(Nat), summary : Seq(Nat)]
    BY <2>2 DEF Empty
  <2>4. pc \in [Run -> PCs]
    BY DEF Init, PCs
  <2>5. before \in [Run -> SUBSET Run]
    BY <1>9 DEF Init
  <2>6. QED
    BY <1>5, <1>8, <2>1, <2>3, <2>4, <2>5 DEF TypeOK
<1>11. StoreInv
  <2>1. \A i \in DOMAIN table : pc[table[i].run] = "done"
    BY <1>2, <1>3, <1>6, <1>7 DEF T
  <2>2. \A i, j \in DOMAIN table : i < j /\ table[i].run = table[j].run =>
          table[i].role = "user" /\ table[j].role = "assistant"
    BY <1>1, <1>2, <1>3, <1>6 DEF T
  <2>3. QED
    BY <1>6, <1>8, <2>1, <2>2 DEF StoreInv
<1>12. StoredInv
  <2>1. SUFFICES ASSUME NEW r \in Run, pc[r] # "idle"
                 PROVE  Stores(r, "user") /\ Stores(r, "assistant")
    BY DEF StoredInv
  <2>2. PICK k \in 1..n : Past[k] = r
    BY <1>1, <2>1 DEF Init, Range
  <2>3. /\ 2 * k - 1 \in 1..(2 * n) /\ T(2 * k - 1) = k /\ (2 * k - 1) % 2 = 1
        /\ 2 * k \in 1..(2 * n) /\ T(2 * k) = k /\ (2 * k) % 2 # 1
    BY <1>1 DEF T
  <2>4. QED
    BY <1>3, <1>6, <2>2, <2>3 DEF Stores
<1>13. BeforeInv
  <2>1. SUFFICES ASSUME NEW s \in Run, NEW x \in before[s]
                 PROVE  /\ pc[x] = "done" /\ s \notin Live
                        /\ \A i, j \in DOMAIN table : table[i].run = x /\ table[j].run = s => i < j
    BY <1>6, <1>8 DEF BeforeInv
  <2>2. PICK k, l \in 1..n : k < l /\ Past[k] = x /\ Past[l] = s
    BY <1>9
  <2>3. pc[x] = "done" /\ s \notin Live
    BY <1>1, <1>7, <2>2 DEF Live, Range
  <2>4. \A i \in DOMAIN table : T(i) \in 1..n
    BY <1>2, <1>3
  <2>5. \A i, j \in DOMAIN table : table[i].run = x /\ table[j].run = s => T(i) = k /\ T(j) = l
    BY <1>1, <1>6, <2>2, <2>4
  <2>6. QED
    BY <1>2, <1>3, <2>2, <2>3, <2>5
<1>14. PromptInv
  <2> SUFFICES ASSUME NEW q \in Run PROVE PromptOf(q)
    BY DEF PromptInv
  <2>1. seen[q] = 0 /\ prompt[q].kept = <<>> /\ prompt[q].summary = <<>>
    BY <1>8 DEF Empty
  <2>2. Visible(q) = {}
    BY <2>1 DEF Visible
  <2>3. Cardinality(Visible(q)) = 0
    BY <2>2, FS_EmptySet
  <2>4. Window(<<>>, Visible(q))
    BY <2>3 DEF Window
  <2>5. Remembered(q) = <<>>
    BY <2>1 DEF Remembered
  <2>6. QED
    <3>1. seen[q] <= Len(table)
      BY <1>1, <1>5, <2>1
    <3>2. Len(<<>>) = 0 /\ Least(0, KeepRecent) = 0 /\ Least(0, Limit) = 0
      BY Bounds DEF Least
    <3>3. QED
      BY <2>1, <2>3, <2>4, <2>5, <3>1, <3>2 DEF PromptOf
<1>15. QED
  BY <1>10, <1>11, <1>12, <1>13, <1>14 DEF HistoryInv

\* The invariant holds in every reachable state.
LEMMA HistoryInvariant == Spec => []HistoryInv
<1>1. HistoryInv /\ [Next]_vars => HistoryInv'
  <2> SUFFICES ASSUME HistoryInv, [Next]_vars PROVE HistoryInv'
    OBVIOUS
  <2>1. CASE UNCHANGED vars
    <3>1. TypeOK' /\ StoreInv'
      BY <2>1 DEF vars, HistoryInv, TypeOK, StoreInv
    <3>2. StoredInv' /\ BeforeInv'
      BY <2>1 DEF vars, HistoryInv, StoredInv, Stores, BeforeInv, Live
    <3>3. table \in Seq(Row) /\ seen \in [Run -> Nat] /\ Len(table) \in Nat
      BY Types DEF HistoryInv
    <3>4. Extended /\ table' \in Seq(Row)
      BY <2>1, <3>3 DEF vars, Extended
    <3>5. PromptInv'
      BY <2>1, <3>3, <3>4, PromptStays DEF vars, HistoryInv, PromptInv
    <3>6. QED
      BY <3>1, <3>2, <3>5 DEF HistoryInv
  <2>2. CASE Tick
    BY <2>2, TickKeeps
  <2>3. ASSUME NEW r \in Run, Step(r) \/ Die(r)
        PROVE  HistoryInv'
    <3>1. CASE BuildMessages(r) \/ BuildMessagesCut(r)
      <4> DEFINE V == RowsOf(SessionOf[r])
                 sel == SelectNewest(SessionOf[r])
      <4>1. table \in Seq(Row) /\ faults \in 0..MaxFaults
        BY Types DEF HistoryInv
      <4>2. /\ Window(GetHistory(SessionOf[r]), V)
            /\ Len(GetHistory(SessionOf[r])) = Least(Cardinality(V), Limit)
            /\ \A n \in 0..Len(sel) : Window(Reverse(SubSeq(sel, 1, n)), V)
            /\ Len(sel) \in Nat
        BY <4>1, HistoryIsWindow, QueryIsNewest
      <4>3. CASE BuildMessages(r)
        <5>1. PICK b \in BOOLEAN :
                /\ IF b THEN UNCHANGED faults ELSE Fault
                /\ prompt' = [prompt EXCEPT ![r] = SemanticCompact(GetHistory(SessionOf[r]), b)]
          BY <4>3 DEF BuildMessages
        <5>2. faults' \in 0..MaxFaults
          <6>1. CASE b
            BY <4>1, <5>1, <6>1
          <6>2. CASE ~b
            BY <4>1, <5>1, <6>2, Bounds DEF Fault
          <6>3. QED
            BY <6>1, <6>2
        <5> DEFINE B == {q \in Run : pc[q] = "done"}
                   h == GetHistory(SessionOf[r])
        <5>3. /\ pc[r] = "idle" /\ pc' = [pc EXCEPT ![r] = "running"]
              /\ seen' = [seen EXCEPT ![r] = Len(table)]
              /\ before' = [before EXCEPT ![r] = B]
              /\ UNCHANGED <<now, table, stamp, damaged>>
          BY <4>3 DEF BuildMessages, Goto
        <5>4. B \in SUBSET Run /\ \A x \in B : pc[x] = "done"
          OBVIOUS
        <5> HIDE DEF B, h
        <5>5. QED
          BY <4>2, <5>1, <5>2, <5>3, <5>4, ReadKeeps DEF h
      <4>4. CASE BuildMessagesCut(r)
        <5>1. PICK n \in 0..(Len(sel) - 1), b \in BOOLEAN :
                prompt' = [prompt EXCEPT ![r] = SemanticCompact(Reverse(SubSeq(sel, 1, n)), b)]
          BY <4>4 DEF BuildMessagesCut
        <5> DEFINE h == Reverse(SubSeq(sel, 1, n))
        <5>2. Window(h, V)
          BY <4>2
        <5>3. /\ pc[r] = "idle" /\ pc' = [pc EXCEPT ![r] = "running"]
              /\ seen' = [seen EXCEPT ![r] = Len(table)]
              /\ before' = [before EXCEPT ![r] = {}]
              /\ UNCHANGED <<now, table, stamp, damaged>>
          BY <4>4 DEF BuildMessagesCut, Goto
        <5>4. faults' \in 0..MaxFaults
          BY <4>1, <4>4, Bounds DEF BuildMessagesCut, Fault
        <5> HIDE DEF h
        <5>5. QED
          BY <5>1, <5>2, <5>3, <5>4, ReadKeeps DEF h
      <4>5. QED
        BY <3>1, <4>3, <4>4
    <3>2. CASE StampUser(r) \/ StampAssistant(r)
      BY <3>2, StampKeeps
    <3>3. CASE InsertUser(r) \/ InsertAssistant(r)
      BY <3>3, InsertKeeps
    <3>4. damaged \subseteq Run /\ faults \in 0..MaxFaults
      BY Types DEF HistoryInv
    <3>5. CASE BuildMessagesBlind(r)
      <4>1. faults' \in 0..MaxFaults
        BY <3>4, <3>5, Bounds DEF BuildMessagesBlind, Fault
      <4>2. QED
        BY <3>4, <3>5, <4>1, MoveKeeps DEF BuildMessagesBlind, Goto
    <3>6. CASE RunFails(r) \/ RunSucceeds(r) \/ SendResult(r)
      BY <3>4, <3>6, MoveKeeps DEF RunFails, RunSucceeds, SendResult, Goto
    <3>7. CASE Die(r)
      <4>1. faults' \in 0..MaxFaults
        BY <3>4, <3>7, Bounds DEF Die, Fault
      <4>2. damaged \subseteq damaged' /\ damaged' \subseteq Run
        BY <3>4, <3>7 DEF Die
      <4>3. QED
        BY <3>7, <4>1, <4>2, MoveKeeps DEF Die, Goto
    <3>8. QED
      BY <2>3, <3>1, <3>2, <3>3, <3>5, <3>6, <3>7 DEF Step
  <2>4. QED
    BY <2>1, <2>2, <2>3 DEF Next
<1>2. QED
  BY InitHistory, <1>1, PTL DEF Spec

-----------------------------------------------------------------------------
(* The promises of the history *)

\* What a run can see are rows of the table.
LEMMA VisibleRows ==
  ASSUME HistoryInv, NEW q \in Run
  PROVE  /\ table \in Seq(Row) /\ Visible(q) \in SUBSET (DOMAIN table)
         /\ Cardinality(Visible(q)) \in Nat
         /\ \A i \in Visible(q) : i \in Nat /\ i <= seen[q]
         /\ \A i \in Visible(q) : SessionOf[table[i].run] = SessionOf[q]
<1>1. /\ table \in Seq(Row) /\ Len(table) \in Nat /\ DOMAIN table = 1..Len(table)
      /\ seen[q] \in Nat
  BY Types DEF HistoryInv
<1>2. seen[q] <= Len(table)
  BY DEF HistoryInv, PromptInv, PromptOf
<1>3. Visible(q) \in SUBSET (DOMAIN table)
  BY <1>1, <1>2 DEF Visible
<1>4. Cardinality(Visible(q)) \in Nat
  BY <1>1, <1>3, RankFacts
<1>5. \A i \in Visible(q) : i \in Nat /\ i <= seen[q]
  BY <1>1 DEF Visible
<1>6. \A i \in Visible(q) : SessionOf[table[i].run] = SessionOf[q]
  BY DEF Visible
<1>7. QED
  BY <1>1, <1>3, <1>4, <1>5, <1>6

\* Both messages of a run whose result was out are among what q could see, and
\* are in its prompt unless enough newer messages are.
LEMMA Remembers == HistoryInv => AnswerIsRemembered
<1> SUFFICES ASSUME HistoryInv, NEW q \in Live, NEW r \in before[q] \ damaged,
                    SessionOf[r] = SessionOf[q], NEW role \in Role
             PROVE  \E i \in Visible(q) :
                      /\ table[i].run = r /\ table[i].role = role
                      /\ \/ i \in Range(Remembered(q))
                         \/ Cardinality(NewerThan(i, Visible(q))) >=
                              IF prompt[q].summary = <<>> THEN KeepRecent ELSE Limit
  BY DEF AnswerIsRemembered
<1> USE DEF HistoryInv
<1> DEFINE V == Visible(q)
           bound == IF prompt[q].summary = <<>> THEN KeepRecent ELSE Limit
<1>1. q \in Run /\ r \in Run
  BY Types DEF Live
<1>2. /\ table \in Seq(Row) /\ V \in SUBSET (DOMAIN table) /\ Cardinality(V) \in Nat
  BY <1>1, VisibleRows
<1>3. pc[r] = "done"
  BY <1>1 DEF BeforeInv
<1>4. PICK i \in DOMAIN table : table[i].run = r /\ table[i].role = role
  <2>1. Stores(r, role)
    BY <1>1, <1>3 DEF StoredInv, Role
  <2>2. QED
    BY <2>1 DEF Stores
<1>5. i \in V
  <2>1. i <= seen[q] /\ i \in Nat /\ i >= 1 /\ seen[q] \in Nat
    BY <1>1, <1>4, Types DEF BeforeInv
  <2>2. QED
    BY <1>4, <2>1 DEF Visible
<1>6. /\ Rank(i, V) \in 0..(Cardinality(V) - 1) /\ Rank(i, V) \in Nat
  BY <1>2, <1>5, RankFacts
<1>7. PromptOf(q)
  BY <1>1 DEF PromptInv
<1>7a. before[q] # {}
  OBVIOUS
<1>8. bound \in Nat
  BY Bounds
<1>9. CASE Rank(i, V) >= bound
  BY <1>4, <1>5, <1>9 DEF Rank
<1>10. CASE Rank(i, V) < bound
  <2>1. Window(Remembered(q), V) /\ Len(Remembered(q)) >= Least(Cardinality(V), bound)
    BY <1>7, <1>7a DEF PromptOf
  <2>2. Len(Remembered(q)) \in Nat
    BY <2>1 DEF Window
  <2> HIDE DEF bound, V
  <2>3. Rank(i, V) < Least(Cardinality(V), bound)
    BY <1>2, <1>6, <1>8, <1>10 DEF Least
  <2>4. Least(Cardinality(V), bound) \in Nat
    BY <1>2, <1>8 DEF Least
  <2>5. Rank(i, V) < Len(Remembered(q))
    BY <1>6, <2>1, <2>2, <2>3, <2>4
  <2>6. /\ Len(Remembered(q)) - Rank(i, V) \in DOMAIN Remembered(q)
        /\ Remembered(q)[Len(Remembered(q)) - Rank(i, V)] = i
    BY <1>2, <1>5, <2>1, <2>5, WindowHolds
  <2>7. i \in Range(Remembered(q))
    BY <2>6 DEF Range
  <2>8. QED
    BY <1>4, <1>5, <2>7 DEF V
<1>11. QED
  BY <1>6, <1>8, <1>9, <1>10

\* Older rows come first, and of two rows of one run the question is older.
LEMMA TellsInOrder == HistoryInv => QuestionBeforeAnswer
<1> SUFFICES ASSUME HistoryInv, NEW q \in Live,
                    NEW i \in DOMAIN Remembered(q), NEW j \in DOMAIN Remembered(q), i < j
             PROVE  LET a == table[Remembered(q)[i]]
                        b == table[Remembered(q)[j]]
                    IN  a.at <= b.at /\ (a.run = b.run => a.role = "user" /\ b.role = "assistant")
  BY DEF QuestionBeforeAnswer
<1> USE DEF HistoryInv
<1> DEFINE V == Visible(q)
           h == Remembered(q)
<1>1. q \in Run
  BY DEF Live
<1>2. table \in Seq(Row) /\ V \in SUBSET (DOMAIN table)
  BY <1>1, VisibleRows
<1>3. Window(h, V)
  BY <1>1 DEF PromptInv, PromptOf
<1>4. /\ i \in Nat /\ j \in Nat /\ Len(h) \in Nat /\ i <= Len(h) /\ j <= Len(h)
      /\ h[i] \in V /\ h[j] \in V
      /\ Rank(h[i], V) = Len(h) - i /\ Rank(h[j], V) = Len(h) - j
  <2>1. DOMAIN h = 1..Len(h) /\ Len(h) \in Nat
    BY <1>3 DEF Window
  <2>2. QED
    BY <1>3, <2>1 DEF Window
<1>5. Rank(h[j], V) < Rank(h[i], V)
  BY <1>4
<1>6. Older(h[i], h[j])
  BY <1>2, <1>4, <1>5, RankFacts
<1> DEFINE x == h[i]
           y == h[j]
<1>7. x \in DOMAIN table /\ y \in DOMAIN table
  BY <1>2, <1>4
<1> HIDE DEF x, y
<1>8. x \in Nat /\ y \in Nat /\ table[x].at \in Nat /\ table[y].at \in Nat
  BY <1>7, Types
<1>9. Older(x, y)
  BY <1>6 DEF x, y
<1>10. table[x].at <= table[y].at
  BY <1>8, <1>9 DEF Older
<1>11. ASSUME table[x].run = table[y].run
       PROVE  table[x].role = "user" /\ table[y].role = "assistant"
  <2>1. x < y
    <3>1. SUFFICES ASSUME ~(x < y) PROVE FALSE
      OBVIOUS
    <3>2. x # y
      BY <1>8, <1>9 DEF Older
    <3>3. table[y].at <= table[x].at
      BY <1>7, <1>8, <1>11, <3>1, <3>2 DEF StoreInv
    <3>4. QED
      BY <1>8, <1>9, <3>1, <3>3 DEF Older
  <2>2. QED
    BY <1>7, <1>11, <2>1 DEF StoreInv
<1>12. QED
  BY <1>10, <1>11 DEF x, y

\* In a session used by one run at a time the rows that q could see are whole
\* turns, one after the other.
LEMMA TurnsAreWhole ==
  ASSUME HistoryInv, NEW q \in Live, Serial(q)
  PROVE  LET V == Visible(q)
         IN  /\ \A i \in V, role \in Role : \E j \in V :
                  table[j].run = table[i].run /\ table[j].role = role
             /\ \A i, j \in V :
                  table[i].run = table[j].run /\ table[i].role = table[j].role => i = j
             /\ \A i, j \in V : table[i].run = table[j].run /\ table[i].role = "user"
                                  /\ table[j].role = "assistant" => Older(i, j)
             /\ \A i, j, k, l \in V :
                  /\ Older(i, j) /\ table[i].run # table[j].run
                  /\ table[k].run = table[i].run /\ table[l].run = table[j].run
                  => Older(k, l)
<1> USE DEF HistoryInv
<1> DEFINE V == Visible(q)
<1>1. q \in Run
  BY DEF Live
<1>2. /\ table \in Seq(Row) /\ V \in SUBSET (DOMAIN table)
      /\ \A i \in V : SessionOf[table[i].run] = SessionOf[q]
  BY <1>1, VisibleRows
<1>3. \A i \in DOMAIN table : /\ i \in Nat /\ table[i].at \in Nat /\ table[i].run \in Run
                              /\ table[i].role \in Role
  BY Types
<1>4. \A i \in V : table[i].run \in before[q] \ damaged
  BY DEF Serial
<1>5. \A i \in V, role \in Role : \E j \in V :
        table[j].run = table[i].run /\ table[j].role = role
  <2> SUFFICES ASSUME NEW i \in V, NEW role \in Role
               PROVE  \E j \in V : table[j].run = table[i].run /\ table[j].role = role
    OBVIOUS
  <2>1. AnswerIsRemembered
    BY Remembers
  <2>2. table[i].run \in before[q] \ damaged /\ SessionOf[table[i].run] = SessionOf[q]
    BY <1>2, <1>4
  <2>3. QED
    BY <2>1, <2>2 DEF AnswerIsRemembered
<1>6. \A i, j \in V : table[i].run = table[j].run /\ table[i].role = table[j].role => i = j
  <2> SUFFICES ASSUME NEW i \in V, NEW j \in V, i # j, table[i].run = table[j].run
               PROVE  table[i].role # table[j].role
    OBVIOUS
  <2>1. i < j \/ j < i
    BY <1>2, <1>3
  <2>2. QED
    BY <1>2, <2>1 DEF StoreInv
<1>7. ASSUME NEW i \in V, NEW j \in V, table[i].run = table[j].run,
             table[i].role = "user", table[j].role = "assistant"
      PROVE  Older(i, j)
  <2>1. i \in DOMAIN table /\ j \in DOMAIN table /\ (i < j \/ j < i)
    BY <1>2, <1>3, <1>7
  <2>2. i < j /\ table[i].at <= table[j].at
    BY <1>7, <2>1 DEF StoreInv
  <2>3. QED
    BY <1>3, <2>1, <2>2 DEF Older
<1>8. ASSUME NEW r, NEW s \in Run, r \in before[s],
             NEW k \in DOMAIN table, NEW l \in DOMAIN table, table[k].run = r, table[l].run = s
      PROVE  Older(k, l)
  <2>1. k < l /\ table[k].at <= table[l].at
    BY <1>8 DEF BeforeInv
  <2>2. QED
    BY <1>3, <2>1 DEF Older
<1>9. ASSUME NEW i \in V, NEW j \in V, NEW k \in V, NEW l \in V,
             Older(i, j), table[i].run # table[j].run,
             table[k].run = table[i].run, table[l].run = table[j].run
      PROVE  Older(k, l)
  <2>1. i \in DOMAIN table /\ j \in DOMAIN table /\ k \in DOMAIN table /\ l \in DOMAIN table
    BY <1>2
  <2>2. table[i].run \in Run /\ table[j].run \in Run
    BY <1>3, <2>1
  <2>3. table[i].run \in before[table[j].run] \/ table[j].run \in before[table[i].run]
    BY <1>9 DEF Serial
  <2>4. ~(table[j].run \in before[table[i].run])
    BY <1>2, <1>8, <1>9, <2>1, <2>2, OlderIsTotal
  <2>5. QED
    BY <1>8, <1>9, <2>1, <2>2, <2>3, <2>4
<1>10. QED
  BY <1>5, <1>6, <1>7, <1>9

\* Whole turns are an even number of rows.
LEMMA WholeTurnsAreEven ==
  ASSUME table \in Seq(Row), NEW N \in SUBSET (DOMAIN table),
         \A i \in N, role \in Role : \E j \in N :
            table[j].run = table[i].run /\ table[j].role = role,
         \A i, j \in N : table[i].run = table[j].run /\ table[i].role = table[j].role => i = j
  PROVE  Cardinality(N) % 2 = 0
<1> DEFINE U == {i \in N : table[i].role = "user"}
           A == {i \in N : table[i].role = "assistant"}
           f == [i \in U |-> CHOOSE j \in A : table[j].run = table[i].run]
<1>1. IsFiniteSet(N)
  BY RankFacts
<1>2. IsFiniteSet(U) /\ IsFiniteSet(A) /\ Cardinality(U) \in Nat
  <2>1. U \in SUBSET N /\ A \in SUBSET N
    OBVIOUS
  <2> HIDE DEF U, A
  <2>2. QED
    BY <1>1, <2>1, FS_Subset, FS_CardinalityType
<1>3. N = U \cup A /\ U \cap A = {}
  BY RowTypes DEF Role
<1>4. \A i \in U : f[i] \in A /\ table[f[i]].run = table[i].run
  <2> SUFFICES ASSUME NEW i \in U PROVE f[i] \in A /\ table[f[i]].run = table[i].run
    OBVIOUS
  <2>1. \E j \in A : table[j].run = table[i].run
    BY DEF Role
  <2>2. f[i] = CHOOSE j \in A : table[j].run = table[i].run
    OBVIOUS
  <2> HIDE DEF A, f
  <2>3. QED
    BY <2>1, <2>2
<1>5. f \in Bijection(U, A)
  <2>1. f \in [U -> A] /\ DOMAIN f = U
    <3>1. DOMAIN f = U /\ f = [i \in U |-> f[i]]
      OBVIOUS
    <3> HIDE DEF f, U, A
    <3>2. QED
      BY <1>4, <3>1
  <2>2. \A i, j \in U : f[i] = f[j] => i = j
    <3> SUFFICES ASSUME NEW i \in U, NEW j \in U, f[i] = f[j] PROVE i = j
      OBVIOUS
    <3> HIDE DEF f
    <3>1. table[i].run = table[j].run
      <4> HIDE DEF U
      <4>1. table[f[i]].run = table[i].run /\ table[f[j]].run = table[j].run
        BY <1>4
      <4>2. QED
        BY <4>1
    <3>2. QED
      BY <3>1
  <2>3. \A a \in A : \E i \in U : f[i] = a
    <3> SUFFICES ASSUME NEW a \in A PROVE \E i \in U : f[i] = a
      OBVIOUS
    <3>1. PICK i \in U : table[i].run = table[a].run
      BY DEF Role
    <3>2. f[i] \in A /\ table[f[i]].run = table[a].run
      BY <1>4, <3>1
    <3> HIDE DEF f
    <3>3. f[i] = a
      BY <3>2
    <3>4. QED
      BY <3>3
  <2> HIDE DEF f, U, A
  <2>4. QED
    BY <2>1, <2>2, <2>3 DEF Bijection, Injection, Surjection, IsInjective
<1> HIDE DEF f, U, A
<1>6. Cardinality(A) = Cardinality(U)
  BY <1>2, <1>5, FS_Bijection DEF ExistsBijection
<1>7. Cardinality(N) = Cardinality(U) + Cardinality(A) - Cardinality(U \cap A)
  BY <1>2, <1>3, FS_Union
<1>8. Cardinality(N) = 2 * Cardinality(U)
  <2>1. Cardinality(U \cap A) = 0
    BY <1>3, FS_EmptySet
  <2>2. QED
    BY <1>2, <1>6, <1>7, <2>1
<1>9. QED
  BY <1>2, <1>8

\* The guard cuts between turns.
LEMMA KeepsTurns == HistoryInv => WholeTurns
<1> SUFFICES ASSUME HistoryInv, NEW q \in Live, Serial(q),
                    NEW i \in DOMAIN prompt[q].kept, i % 2 = 1
             PROVE  /\ table[prompt[q].kept[i]].role = "user"
                    /\ i < Len(prompt[q].kept)
                    /\ table[prompt[q].kept[i + 1]].role = "assistant"
                    /\ table[prompt[q].kept[i + 1]].run = table[prompt[q].kept[i]].run
  BY DEF WholeTurns
<1> DEFINE V == Visible(q)
           h == prompt[q].kept
<1>1. q \in Run
  BY DEF Live
<1>2. table \in Seq(Row) /\ V \in SUBSET (DOMAIN table) /\ Cardinality(V) \in Nat
  BY <1>1, VisibleRows
<1>3. Window(h, V) /\ Len(h) = Least(Cardinality(V), KeepRecent)
  <2>1. PromptOf(q)
    BY <1>1 DEF HistoryInv, PromptInv
  <2>2. before[q] # {}
    <3>1. Window(h, V) /\ i \in DOMAIN h
      BY <2>1 DEF PromptOf
    <3>2. h[i] \in V
      BY <3>1 DEF Window
    <3>3. table[h[i]].run \in before[q]
      BY <3>2 DEF Serial
    <3>4. QED
      BY <3>3
  <2>3. QED
    BY <2>1, <2>2 DEF PromptOf
<1>4. /\ \A a \in V, role \in Role : \E b \in V :
           table[b].run = table[a].run /\ table[b].role = role
      /\ \A a, b \in V : table[a].run = table[b].run /\ table[a].role = table[b].role => a = b
      /\ \A a, b \in V : table[a].run = table[b].run /\ table[a].role = "user"
                           /\ table[b].role = "assistant" => Older(a, b)
      /\ \A a, b, c, d \in V :
           /\ Older(a, b) /\ table[a].run # table[b].run
           /\ table[c].run = table[a].run /\ table[d].run = table[b].run
           => Older(c, d)
  BY TurnsAreWhole
<1> HIDE DEF V, h
<1>5. Cardinality(V) % 2 = 0
  BY <1>2, <1>4, WholeTurnsAreEven
<1>6. ASSUME NEW a \in V, table[a].role = "assistant"
      PROVE  Rank(a, V) % 2 = 0
  <2> DEFINE N == NewerThan(a, V)
  <2>1. N \in SUBSET V /\ \A b \in V : b \in N <=> Older(a, b)
    BY DEF NewerThan
  <2>2. \A b \in N : table[b].run # table[a].run
    <3> SUFFICES ASSUME NEW b \in V, Older(a, b), table[b].run = table[a].run PROVE FALSE
      BY <2>1
    <3>1. a \in DOMAIN table /\ b \in DOMAIN table /\ table[b].role \in Role
      BY <1>2, RowTypes
    <3>2. table[b].role = "user"
      <4>1. table[b].role = "assistant" => b = a
        BY <1>4, <1>6
      <4>2. a # b
        BY <1>2, <3>1, OlderIsTotal
      <4>3. QED
        BY <3>1, <4>1, <4>2 DEF Role
    <3>3. Older(b, a)
      BY <1>4, <1>6, <3>2
    <3>4. QED
      BY <1>2, <3>1, <3>3, OlderIsTotal
  <2>3. \A b \in N, c \in V : table[c].run = table[b].run => c \in N
    BY <1>4, <2>1, <2>2
  <2> HIDE DEF N
  <2>4. \A b \in N, role \in Role : \E c \in N : table[c].run = table[b].run /\ table[c].role = role
    BY <1>4, <2>1, <2>3
  <2>5. Cardinality(N) % 2 = 0
    BY <1>2, <1>4, <2>1, <2>4, WholeTurnsAreEven
  <2>6. QED
    BY <2>5 DEF Rank, N
<1>7. ASSUME NEW u \in V, table[u].role = "user",
             NEW a \in V, table[a].role = "assistant", table[a].run = table[u].run
      PROVE  Rank(u, V) = Rank(a, V) + 1
  <2>1. Older(u, a)
    BY <1>4, <1>7
  <2>2. u \in DOMAIN table /\ a \in DOMAIN table
    BY <1>2
  <2>3. ASSUME NEW b \in V, Older(u, b), b # a
        PROVE  Older(a, b)
    <3>1. b \in DOMAIN table /\ table[b].role \in Role
      BY <1>2, RowTypes
    <3>2. b # u
      BY <1>2, <2>2, <2>3, OlderIsTotal
    <3>3. table[b].run # table[u].run
      <4>1. table[b].run = table[u].run /\ table[b].role = "user" => b = u
        BY <1>4, <1>7
      <4>2. table[b].run = table[a].run /\ table[b].role = "assistant" => b = a
        BY <1>4, <1>7
      <4>3. QED
        BY <1>7, <2>3, <3>1, <3>2, <4>1, <4>2 DEF Role
    <3>4. table[a].run = table[u].run /\ table[u].run # table[b].run /\ Older(u, b)
      BY <1>7, <2>3, <3>3
    <3>5. QED
      BY <1>4, <3>4
  <2>4. ASSUME NEW b \in V, Older(a, b)
        PROVE  Older(u, b)
    BY <1>2, <2>1, <2>2, <2>4, OlderIsTotal
  <2>5. NewerThan(u, V) = NewerThan(a, V) \cup {a} /\ a \notin NewerThan(a, V)
    <3>1. ~Older(a, a)
      BY <1>2, <2>2, OlderIsTotal
    <3>2. QED
      BY <2>1, <2>3, <2>4, <3>1 DEF NewerThan
  <2>6. IsFiniteSet(NewerThan(a, V))
    BY <1>2, RankFacts
  <2>7. QED
    BY <2>5, <2>6, FS_AddElement DEF Rank
<1>8. /\ i \in Nat /\ i >= 1 /\ i <= Len(h) /\ Len(h) \in Nat /\ DOMAIN h = 1..Len(h) /\ i % 2 = 1
  <2>1. DOMAIN h = 1..Len(h) /\ Len(h) \in Nat
    BY <1>3 DEF Window
  <2>2. QED
    BY <2>1 DEF h
<1>9. Len(h) % 2 = 0
  BY <1>2, <1>3, <1>5, HistoryAssumption DEF Least
<1>10. i + 1 \in DOMAIN h /\ i < Len(h)
  BY <1>8, <1>9
<1>11. /\ h[i] \in V /\ Rank(h[i], V) = Len(h) - i
       /\ h[i + 1] \in V /\ Rank(h[i + 1], V) = Len(h) - (i + 1)
  <2>1. \A k \in DOMAIN h : h[k] \in V /\ Rank(h[k], V) = Len(h) - k
    BY <1>3 DEF Window
  <2>2. i \in DOMAIN h
    BY <1>8
  <2>3. QED
    BY <1>10, <2>1, <2>2
<1>12. (Len(h) - i) % 2 # 0
  BY <1>8, <1>9
<1>13. table[h[i]].role = "user"
  <2>1. table[h[i]].role # "assistant"
    BY <1>6, <1>11, <1>12
  <2>2. table[h[i]].role \in Role
    BY <1>2, <1>11, RowTypes
  <2>3. QED
    BY <2>1, <2>2 DEF Role
<1>14. PICK a \in V : table[a].run = table[h[i]].run /\ table[a].role = "assistant"
  BY <1>4, <1>11 DEF Role
<1>15. Rank(a, V) = Rank(h[i + 1], V)
  <2>1. Rank(a, V) \in Nat
    BY <1>2, RankFacts
  <2>2. Rank(h[i], V) = Rank(a, V) + 1
    BY <1>7, <1>11, <1>13, <1>14
  <2>3. QED
    BY <1>8, <1>11, <2>1, <2>2
<1>16. h[i + 1] = a
  BY <1>2, <1>11, <1>15, RankFacts
<1>17. QED
  BY <1>10, <1>13, <1>14, <1>16 DEF h

\* Every follow-up is prompted with the turn it follows, for any number of
\* agents and sessions on one file, unless an insert failed or newer messages
\* fill the window.
THEOREM FollowUpsRemember == Spec => []AnswerIsRemembered
BY HistoryInvariant, Remembers, PTL

\* Prompts tell a session in order however its runs interleave: in the order of
\* the stamps, and a question before its answer.
THEOREM PromptsAreOrdered == Spec => []QuestionBeforeAnswer
BY HistoryInvariant, TellsInOrder, PTL

\* The prompts of a session that one run uses at a time keep whole turns, for
\* any even limits.
THEOREM PromptsKeepTurns == Spec => []WholeTurns
BY HistoryInvariant, KeepsTurns, PTL
=============================================================================
