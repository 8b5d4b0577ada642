--------------------------- MODULE FeedSessionProofs ---------------------------
(***************************************************************************)
(* Theorems about the live feed sessions, for any articles, page sizes,    *)
(* limits, rankings and requests.                                          *)
(***************************************************************************)
EXTENDS FeedSession, FunctionTheorems, FiniteSetTheorems, SequenceTheorems, TLAPS

Row == [article : Article, under : Nat]
Page == [start : Nat, end : Nat, revision : Nat, rows : Seq(Row)]
Card == [article : Article, end : Nat]
Replay == [version : Nat, articles : SUBSET Article]
Session ==
    [items : Seq(Article), source : Nat, position : Nat, queue : Seq(Row), revision : Nat,
     deliveries : Seq(Page), eligible : SUBSET Card, version : Nat, replay : Replay,
     given : SUBSET Article]

FeedTypeOK ==
    /\ sessions \in [SessionId -> Session \cup {None}]
    /\ created \in 0..MaxSessions
    /\ version \in Nat /\ recorded \in Nat
    /\ history \in SUBSET Article

-----------------------------------------------------------------------------
Distinct(rows) == \A i, j \in 1..Len(rows) : rows[i].article = rows[j].article => i = j
OpenTo(st) == {card.article : card \in st.eligible}

\* Where every article is.  A reader has one card of an article that it has not
\* yet given feedback on.
Conserved(st) ==
    /\ \A i, j \in 1..Len(st.items) : st.items[i] = st.items[j] => i = j
    /\ st.source <= Len(st.items) /\ st.position + Len(st.queue) = st.source
    /\ Distinct(st.queue)
    /\ Articles(st.queue) \cup OpenTo(st) \cup st.given = Arrived(st)
    /\ Articles(st.queue) \cap (OpenTo(st) \cup st.given) = {}
    /\ OpenTo(st) \cap st.given = {}
    /\ \A card, other \in st.eligible : card.article = other.article => card = other

\* Pages that lead to a position, each with its rows and with their cards.  The
\* last conjunct says of the whole chain what follows from the one before it.
PageFits(page, revision, eligible) ==
    /\ page.start < page.end /\ Len(page.rows) = page.end - page.start
    /\ page.revision = revision /\ Distinct(page.rows)
    /\ \A i \in 1..Len(page.rows) : [article |-> page.rows[i].article, end |-> page.end] \in eligible
PagesFit(ds, position, revision, eligible) ==
    /\ \A k \in 1..Len(ds) : PageFits(ds[k], revision, eligible)
    /\ \A k, l \in 1..Len(ds) : k < l => ds[k].end <= ds[l].start
    /\ \A k \in 1..Len(ds) - 1 : ds[k].end = ds[k + 1].start
    /\ Len(ds) > 0 => ds[Len(ds)].end = position
    /\ \A p \in Nat : Len(ds) > 0 /\ ds[1].start < p /\ p <= position =>
         \E k \in 1..Len(ds) : ds[k].start < p /\ p <= ds[k].end
Replayable(st) == PagesFit(st.deliveries, st.position, st.revision, st.eligible)

\* The rules that ranked a row, at version v: those in force if the session was
\* ranked by them, and none older than those that proved the pairs of its article.
RowInForce(row, st, v) ==
    /\ row.under <= v
    /\ st.version = v => row.under = v
    /\ row.article \in st.replay.articles => st.replay.version <= row.under
InForce(st, v) ==
    /\ st.version <= v /\ st.replay.version <= v
    /\ \A i \in 1..Len(st.queue) : RowInForce(st.queue[i], st, v)
    /\ \A k \in 1..Len(st.deliveries) :
         \A i \in 1..Len(st.deliveries[k].rows) : RowInForce(st.deliveries[k].rows[i], st, v)

Sound(st, v) == st \in Session /\ Conserved(st) /\ Replayable(st) /\ InForce(st, v)

FeedInv ==
    /\ FeedTypeOK
    /\ \A s \in SessionId : sessions[s] # None => Sound(sessions[s], version)

-----------------------------------------------------------------------------
(* Sequences and sets                                                      *)

LEMMA Least ==
    ASSUME NEW T \in SUBSET Nat, T # {}
    PROVE  \E x \in T : \A y \in T : x <= y
<1> DEFINE R == {ss \in Nat \X Nat : ss[1] < ss[2]}
<1>1. IsWellFoundedOn(R, Nat)
  BY NatLessThanWellFounded DEF OpToRel
<1>2. PICK x \in T : \A y \in T : ~ (<<y, x>> \in R)
  <2> HIDE DEF R
  <2> QED
    BY <1>1, WFMin
<1>3. ASSUME NEW y \in T, y < x PROVE FALSE
  <2>1. <<y, x>> \in Nat \X Nat
    OBVIOUS
  <2>2. <<y, x>>[1] < <<y, x>>[2]
    BY <1>3
  <2>3. <<y, x>> \in R
    BY <2>1, <2>2
  <2> QED
    BY <1>2, <2>3
<1> QED
  BY <1>3

\* A ranking of a finite set is a sequence of its elements, each of them once.
LEMMA Rankings ==
    ASSUME NEW S, IsFiniteSet(S)
    PROVE  /\ \A s \in SetToSeqs(S) :
                /\ s \in Seq(S) /\ Len(s) = Cardinality(S) /\ ToSet(s) = S
                /\ \A i, j \in 1..Len(s) : s[i] = s[j] => i = j
           /\ SetToSeqs(S) # {}
<1> DEFINE n == Cardinality(S)
<1>1. n \in Nat /\ ExistsBijection(1..n, S)
  BY FS_CardinalityType
<1>2. IsFiniteSet(1..n) /\ Cardinality(1..n) = n
  BY <1>1, FS_Interval
<1> HIDE DEF n
<1>3. ASSUME NEW s \in SetToSeqs(S)
      PROVE  /\ s \in Seq(S) /\ Len(s) = Cardinality(S) /\ ToSet(s) = S
             /\ \A i, j \in 1..Len(s) : s[i] = s[j] => i = j
  <2>1. s \in [1..n -> S] /\ \A i, j \in 1..n : i # j => s[i] # s[j]
    BY DEF SetToSeqs, n
  <2>2. s \in Seq(S) /\ Len(s) = n
    BY <1>1, <2>1
  <2>3. s \in Injection(1..n, S)
    BY <2>1, Fun_IsInj
  <2>4. s \in Surjection(1..n, S)
    BY <1>2, <2>3, FS_Injection DEF n
  <2>5. \A x \in S : \E i \in 1..n : s[i] = x
    BY <2>4 DEF Surjection
  <2>6. ToSet(s) = S
    <3>1. ToSet(s) = {s[i] : i \in 1..n}
      BY <2>1 DEF ToSet
    <3>2. {s[i] : i \in 1..n} = S
      BY <2>1, <2>5
    <3> QED
      BY <3>1, <3>2
  <2> QED
    BY <2>1, <2>2, <2>6 DEF n
<1>4. SetToSeqs(S) # {}
  <2>1. PICK f : f \in Bijection(1..n, S)
    BY <1>1, Fun_ExistsBij
  <2>2. f \in [1..n -> S] /\ \A i, j \in 1..n : f[i] = f[j] => i = j
    BY <2>1, Fun_BijectionProperties
  <2>3. f \in SetToSeqs(S)
    BY <2>2 DEF SetToSeqs, n
  <2> QED
    BY <2>3
<1> QED
  BY <1>3, <1>4

LEMMA ArticlesOf ==
    ASSUME NEW rows \in Seq(Row)
    PROVE  /\ Articles(rows) = {rows[i].article : i \in 1..Len(rows)}
           /\ Articles(rows) \subseteq Article
<1>1. rows \in [1..Len(rows) -> Row] /\ DOMAIN rows = 1..Len(rows)
  BY LenProperties
<1>2. ToSet(rows) = {rows[i] : i \in 1..Len(rows)}
  BY <1>1 DEF ToSet
<1>3. \A i \in 1..Len(rows) : rows[i].article \in Article
  BY <1>1 DEF Row
<1>4. Articles(rows) = {rows[i].article : i \in 1..Len(rows)}
  BY <1>2 DEF Articles
<1> QED
  BY <1>3, <1>4

\* As many articles as rows, if no two rows are of one.
LEMMA DistinctCount ==
    ASSUME NEW rows \in Seq(Row), Distinct(rows)
    PROVE  IsFiniteSet(Articles(rows)) /\ Cardinality(Articles(rows)) = Len(rows)
<1> DEFINE f == [i \in 1..Len(rows) |-> rows[i].article]
<1>1. Articles(rows) = {rows[i].article : i \in 1..Len(rows)}
  BY ArticlesOf
<1>2. f \in [1..Len(rows) -> Articles(rows)]
  BY <1>1
<1>3. \A i, j \in 1..Len(rows) : f[i] = f[j] => i = j
  BY DEF Distinct
<1>4. \A a \in Articles(rows) : \E i \in 1..Len(rows) : f[i] = a
  BY <1>1
<1> HIDE DEF f
<1>5. f \in Bijection(1..Len(rows), Articles(rows))
  BY <1>2, <1>3, <1>4, Fun_IsBij
<1>6. ExistsBijection(1..Len(rows), Articles(rows)) /\ Len(rows) \in Nat
  BY <1>5, Fun_ExistsBij
<1>7. IsFiniteSet(1..Len(rows))
  BY <1>6, FS_Interval
<1> QED
  BY <1>6, <1>7, FS_CountingElements, FS_Bijection

\* Rows put together and taken apart.
LEMMA Joined ==
    ASSUME NEW a \in Seq(Row), NEW b \in Seq(Row)
    PROVE  /\ a \o b \in Seq(Row) /\ Len(a \o b) = Len(a) + Len(b)
           /\ Articles(a \o b) = Articles(a) \cup Articles(b)
           /\ \A i \in 1..Len(a \o b) : \/ \E j \in 1..Len(a) : (a \o b)[i] = a[j]
                                        \/ \E j \in 1..Len(b) : (a \o b)[i] = b[j]
           /\ Distinct(a) /\ Distinct(b) /\ Articles(a) \cap Articles(b) = {} => Distinct(a \o b)
<1> DEFINE c == a \o b
<1>1. /\ c \in Seq(Row) /\ Len(c) = Len(a) + Len(b) /\ Len(a) \in Nat /\ Len(b) \in Nat
      /\ \A i \in 1..Len(a) + Len(b) : c[i] = IF i <= Len(a) THEN a[i] ELSE b[i - Len(a)]
  BY ConcatProperties, LenProperties
<1> HIDE DEF c
<1>2. \A i \in 1..Len(a) : i \in 1..Len(a) + Len(b) /\ c[i] = a[i]
  BY <1>1
<1>3. \A i \in 1..Len(b) : Len(a) + i \in 1..Len(a) + Len(b) /\ c[Len(a) + i] = b[i]
  <2> SUFFICES ASSUME NEW i \in 1..Len(b)
               PROVE  Len(a) + i \in 1..Len(a) + Len(b) /\ c[Len(a) + i] = b[i]
    OBVIOUS
  <2>1. /\ Len(a) + i \in 1..Len(a) + Len(b) /\ ~(Len(a) + i <= Len(a))
        /\ (Len(a) + i) - Len(a) = i
    BY <1>1
  <2> QED
    BY <1>1, <2>1
<1>4. ASSUME NEW i \in 1..Len(a) + Len(b), ~(i <= Len(a))
      PROVE  i - Len(a) \in 1..Len(b) /\ c[i] = b[i - Len(a)]
  BY <1>1, <1>4
<1>5. ASSUME NEW i \in 1..Len(a) + Len(b)
      PROVE  \/ \E j \in 1..Len(a) : c[i] = a[j]
             \/ \E j \in 1..Len(b) : c[i] = b[j]
  <2>1. i <= Len(a) => i \in 1..Len(a)
    BY <1>1
  <2> QED
    BY <1>2, <1>4, <2>1
<1>6. /\ Articles(c) = {c[i].article : i \in 1..Len(a) + Len(b)}
      /\ Articles(a) = {a[i].article : i \in 1..Len(a)}
      /\ Articles(b) = {b[i].article : i \in 1..Len(b)}
  <2>1. Articles(c) = {c[i].article : i \in 1..Len(c)}
    BY <1>1, ArticlesOf
  <2> QED
    BY <1>1, <2>1, ArticlesOf
<1>7. Articles(c) = Articles(a) \cup Articles(b)
  <2>1. Articles(c) \subseteq Articles(a) \cup Articles(b)
    BY <1>5, <1>6
  <2>2. Articles(a) \subseteq Articles(c) /\ Articles(b) \subseteq Articles(c)
    BY <1>2, <1>3, <1>6
  <2> QED
    BY <2>1, <2>2
<1>8. ASSUME Distinct(a), Distinct(b), Articles(a) \cap Articles(b) = {},
             NEW i \in 1..Len(a) + Len(b), NEW j \in 1..Len(a) + Len(b), c[i].article = c[j].article
      PROVE  i = j
  <2>0. i \in Nat /\ j \in Nat
    OBVIOUS
  <2>1. CASE i <= Len(a) /\ j <= Len(a)
    <3>1. i \in 1..Len(a) /\ j \in 1..Len(a)
      BY <1>1, <2>1
    <3> QED
      BY <1>2, <1>8, <3>1 DEF Distinct
  <2>2. CASE i <= Len(a) /\ ~(j <= Len(a))
    <3>1. i \in 1..Len(a)
      BY <1>1, <2>2
    <3>2. c[i].article \in Articles(a) /\ c[j].article \in Articles(b)
      BY <1>2, <1>4, <1>6, <2>2, <3>1
    <3> QED
      BY <1>8, <3>2
  <2>3. CASE ~(i <= Len(a)) /\ j <= Len(a)
    <3>1. j \in 1..Len(a)
      BY <1>1, <2>3
    <3>2. c[j].article \in Articles(a) /\ c[i].article \in Articles(b)
      BY <1>2, <1>4, <1>6, <2>3, <3>1
    <3> QED
      BY <1>8, <3>2
  <2>4. CASE ~(i <= Len(a)) /\ ~(j <= Len(a))
    <3> DEFINE k == i - Len(a)
               l == j - Len(a)
    <3>2. k \in 1..Len(b) /\ c[i] = b[k] /\ l \in 1..Len(b) /\ c[j] = b[l]
      BY <1>4, <2>4
    <3> HIDE DEF k, l
    <3>3. k = l
      BY <1>8, <3>2 DEF Distinct
    <3>1. i - Len(a) = j - Len(a)
      BY <3>3 DEF k, l
    <3> QED
      BY <1>1, <2>0, <3>1
  <2> QED
    BY <2>1, <2>2, <2>3, <2>4
<1>9. Distinct(a) /\ Distinct(b) /\ Articles(a) \cap Articles(b) = {} => Distinct(c)
  BY <1>1, <1>8 DEF Distinct
<1> QED
  BY <1>1, <1>5, <1>7, <1>9 DEF c

\* What a page takes of a queue, and what it leaves.
Leading(q, n) == SubSeq(q, 1, n)
Left(q, n) == SubSeq(q, n + 1, Len(q))

LEMMA Cut ==
    ASSUME NEW q \in Seq(Row), NEW n \in 0..Len(q), Distinct(q)
    PROVE  /\ Leading(q, n) \in Seq(Row) /\ Len(Leading(q, n)) = n /\ Distinct(Leading(q, n))
           /\ Left(q, n) \in Seq(Row) /\ Len(Left(q, n)) = Len(q) - n /\ Distinct(Left(q, n))
           /\ \A i \in 1..n : Leading(q, n)[i] = q[i]
           /\ \A i \in 1..Len(Left(q, n)) : \E j \in 1..Len(q) : Left(q, n)[i] = q[j]
           /\ Articles(q) = Articles(Leading(q, n)) \cup Articles(Left(q, n))
           /\ Articles(Leading(q, n)) \cap Articles(Left(q, n)) = {}
<1> DEFINE first == Leading(q, n)
           rest == Left(q, n)
<1>0. Len(q) \in Nat /\ n \in Nat /\ n <= Len(q) /\ n \in Int /\ Len(q) \in Int
  BY LenProperties
<1>1. \A i \in 1..n : q[i] \in Row
  BY <1>0, ElementOfSeq
<1>2. first \in Seq(Row) /\ Len(first) = n /\ \A i \in 1..n : first[i] = q[i]
  <2>1. /\ SubSeq(q, 1, n) \in Seq(Row)
        /\ Len(SubSeq(q, 1, n)) = IF 1 <= n THEN n - 1 + 1 ELSE 0
        /\ \A i \in 1..n - 1 + 1 : SubSeq(q, 1, n)[i] = q[1 + i - 1]
    BY <1>0, <1>1, SubSeqProperties
  <2>2. n - 1 + 1 = n /\ \A i \in 1..n : 1 + i - 1 = i
    BY <1>0
  <2>3. Len(first) = n
    BY <1>0, <2>1, <2>2 DEF Leading
  <2>4. \A i \in 1..n : first[i] = q[i]
    BY <2>1, <2>2 DEF Leading
  <2> QED
    BY <2>1, <2>3, <2>4 DEF Leading
<1>3. \A i \in n + 1..Len(q) : q[i] \in Row
  BY <1>0, ElementOfSeq
<1>4. /\ rest \in Seq(Row) /\ Len(rest) = Len(q) - n
      /\ \A i \in 1..Len(q) - n : n + i \in 1..Len(q) /\ rest[i] = q[n + i]
  <2>1. n + 1 \in Int
    BY <1>0
  <2>2. /\ SubSeq(q, n + 1, Len(q)) \in Seq(Row)
        /\ Len(SubSeq(q, n + 1, Len(q))) = IF n + 1 <= Len(q) THEN Len(q) - (n + 1) + 1 ELSE 0
        /\ \A i \in 1..Len(q) - (n + 1) + 1 : SubSeq(q, n + 1, Len(q))[i] = q[(n + 1) + i - 1]
    BY <1>0, <1>3, <2>1, SubSeqProperties
  <2>3. Len(q) - (n + 1) + 1 = Len(q) - n
    BY <1>0
  <2>4. \A i \in 1..Len(q) - n : (n + 1) + i - 1 = n + i /\ n + i \in 1..Len(q)
    BY <1>0
  <2>7. (IF n + 1 <= Len(q) THEN Len(q) - (n + 1) + 1 ELSE 0) = Len(q) - n
    BY <1>0
  <2>5. Len(rest) = Len(q) - n
    BY <2>2, <2>7 DEF Left
  <2>6. \A i \in 1..Len(q) - n : rest[i] = q[n + i]
    BY <2>2, <2>3, <2>4 DEF Left
  <2> QED
    BY <2>2, <2>4, <2>5, <2>6 DEF Left
<1> HIDE DEF first, rest
<1>5. /\ Articles(first) = {q[i].article : i \in 1..n}
      /\ Articles(rest) = {q[n + i].article : i \in 1..Len(q) - n}
      /\ Articles(q) = {q[i].article : i \in 1..Len(q)}
  <2>1. /\ Articles(first) = {first[i].article : i \in 1..Len(first)}
        /\ Articles(rest) = {rest[i].article : i \in 1..Len(rest)}
    BY <1>2, <1>4, ArticlesOf
  <2>2. Articles(first) = {q[i].article : i \in 1..n}
    BY <1>2, <2>1
  <2>3. Articles(rest) = {q[n + i].article : i \in 1..Len(q) - n}
    <3> DEFINE m == Len(q) - n
    <3>1. /\ Articles(rest) = {rest[i].article : i \in 1..m}
          /\ \A i \in 1..m : rest[i] = q[n + i]
      BY <1>4, <2>1
    <3> HIDE DEF m
    <3> DEFINE moved(i) == q[n + i].article
               own(i) == rest[i].article
    <3>3. \A i \in 1..m : own(i) = moved(i)
      BY <3>1
    <3> HIDE DEF moved, own
    <3>4. {own(i) : i \in 1..m} = {moved(i) : i \in 1..m}
      BY <3>3
    <3>2. Articles(rest) = {q[n + i].article : i \in 1..m}
      BY <3>1, <3>4 DEF moved, own
    <3> QED
      BY <3>2 DEF m
  <2> QED
    BY <2>2, <2>3, ArticlesOf
<1>6. Articles(q) = Articles(first) \cup Articles(rest)
  <2>1. \A i \in 1..n : i \in 1..Len(q)
    BY <1>0
  <2>2. ASSUME NEW i \in 1..Len(q) PROVE q[i].article \in Articles(first) \cup Articles(rest)
    <3>1. CASE i <= n
      BY <1>0, <1>5, <3>1
    <3>2. CASE ~(i <= n)
      <4>1. i - n \in 1..Len(q) - n /\ n + (i - n) = i
        BY <1>0, <3>2
      <4> QED
        BY <1>5, <4>1
    <3> QED
      BY <3>1, <3>2
  <2> QED
    BY <1>4, <1>5, <2>1, <2>2
<1>7. Articles(first) \cap Articles(rest) = {}
  <2> SUFFICES ASSUME NEW i \in 1..n, NEW j \in 1..Len(q) - n, q[i].article = q[n + j].article
               PROVE  FALSE
    BY <1>5
  <2>1. i \in 1..Len(q) /\ n + j \in 1..Len(q) /\ i # n + j
    BY <1>0
  <2> QED
    BY <2>1 DEF Distinct
<1>8. Distinct(first)
  <2>1. \A i \in 1..n : i \in 1..Len(q)
    BY <1>0
  <2> QED
    BY <1>2, <2>1 DEF Distinct
<1>9. Distinct(rest)
  <2> SUFFICES ASSUME NEW i \in 1..Len(rest), NEW j \in 1..Len(rest),
                      rest[i].article = rest[j].article
               PROVE  i = j
    BY DEF Distinct
  <2>1. n + i = n + j
    BY <1>4 DEF Distinct
  <2> QED
    BY <1>0, <2>1
<1>10. \A i \in 1..Len(rest) : \E j \in 1..Len(q) : rest[i] = q[j]
  BY <1>4
<1> QED
  BY <1>2, <1>4, <1>6, <1>7, <1>8, <1>9, <1>10 DEF first, rest

-----------------------------------------------------------------------------
(* Deliveries                                                              *)

LEMMA PagesOf ==
    ASSUME NEW ds \in Seq(Page)
    PROVE  /\ Len(ds) \in Nat
           /\ \A k \in 1..Len(ds) : /\ ds[k] \in Page
                                   /\ ds[k].start \in Nat /\ ds[k].end \in Nat
                                   /\ ds[k].revision \in Nat /\ ds[k].rows \in Seq(Row)
<1>1. Len(ds) \in Nat
  BY LenProperties
<1>2. ASSUME NEW k \in 1..Len(ds) PROVE ds[k] \in Page
  BY ElementOfSeq
<1> QED
  BY <1>1, <1>2 DEF Page

LEMMA SuffixPages ==
    ASSUME NEW ds \in Seq(Page), NEW from \in 1..Len(ds) + 1
    PROVE  /\ SubSeq(ds, from, Len(ds)) \in Seq(Page)
           /\ Len(SubSeq(ds, from, Len(ds))) = Len(ds) - from + 1
           /\ \A i \in 1..Len(ds) - from + 1 : SubSeq(ds, from, Len(ds))[i] = ds[from + i - 1]
<1>1. Len(ds) \in Nat /\ from \in Int /\ Len(ds) \in Int
  BY LenProperties
<1>2. \A i \in from..Len(ds) : ds[i] \in Page
  BY <1>1, ElementOfSeq
<1> QED
  BY <1>1, <1>2, SubSeqProperties

LEMMA SuffixesFit ==
    ASSUME NEW ds \in Seq(Page), NEW from \in 1..Len(ds) + 1,
           NEW position \in Nat, NEW revision \in Nat, NEW eligible \in SUBSET Card,
           PagesFit(ds, position, revision, eligible)
    PROVE  PagesFit(SubSeq(ds, from, Len(ds)), position, revision, eligible)
<1> DEFINE rest == SubSeq(ds, from, Len(ds))
           n == Len(ds) - from + 1
<1>0. /\ Len(ds) \in Nat /\ n \in Nat
      /\ \A k \in 1..Len(ds) : ds[k].start \in Nat /\ ds[k].end \in Nat
  BY PagesOf
<1>1. Len(rest) = n /\ \A i \in 1..n : rest[i] = ds[from + i - 1]
  BY SuffixPages
<1> HIDE DEF rest
<1>2. ASSUME NEW i \in 1..n PROVE rest[i] = ds[from + i - 1] /\ from + i - 1 \in 1..Len(ds)
  BY <1>0, <1>1
<1>3. /\ \A k \in 1..Len(ds) : PageFits(ds[k], revision, eligible)
      /\ \A k, l \in 1..Len(ds) : k < l => ds[k].end <= ds[l].start
      /\ \A k \in 1..Len(ds) - 1 : ds[k].end = ds[k + 1].start
      /\ Len(ds) > 0 => ds[Len(ds)].end = position
      /\ \A p \in Nat : Len(ds) > 0 /\ ds[1].start < p /\ p <= position =>
           \E k \in 1..Len(ds) : ds[k].start < p /\ p <= ds[k].end
  BY DEF PagesFit
<1>4. \A k \in 1..n : PageFits(rest[k], revision, eligible)
  BY <1>2, <1>3
<1>5. ASSUME NEW k \in 1..n, NEW l \in 1..n, k < l PROVE rest[k].end <= rest[l].start
  <2>1. from + k - 1 \in 1..Len(ds) /\ from + l - 1 \in 1..Len(ds) /\ from + k - 1 < from + l - 1
    BY <1>0, <1>5
  <2>2. rest[k] = ds[from + k - 1] /\ rest[l] = ds[from + l - 1]
    BY <1>2
  <2> QED
    BY <1>3, <2>1, <2>2
<1>6. ASSUME NEW k \in 1..n - 1 PROVE rest[k].end = rest[k + 1].start
  <2>1. k \in 1..n /\ k + 1 \in 1..n /\ from + (k + 1) - 1 = (from + k - 1) + 1
    BY <1>0
  <2>2. from + k - 1 \in 1..Len(ds) - 1
    BY <1>0, <2>1
  <2> QED
    BY <1>2, <1>3, <2>1, <2>2
<1>7. ASSUME n > 0 PROVE rest[n].end = position
  <2>1. n \in 1..n /\ from + n - 1 = Len(ds) /\ Len(ds) > 0
    BY <1>0, <1>7
  <2>2. rest[n] = ds[from + n - 1]
    BY <1>2, <2>1
  <2> QED
    BY <1>3, <2>1, <2>2
<1>8. ASSUME NEW p \in Nat, n > 0, rest[1].start < p, p <= position
      PROVE  \E k \in 1..n : rest[k].start < p /\ p <= rest[k].end
  <2>1. rest[1] = ds[from] /\ from \in 1..Len(ds) /\ 1 \in 1..Len(ds) /\ Len(ds) > 0
    BY <1>0, <1>1, <1>8
  <2>2. ds[1].start <= ds[from].start
    <3>1. from > 1 => ds[1].start < ds[1].end /\ ds[1].end <= ds[from].start
      BY <1>0, <1>3, <2>1 DEF PageFits
    <3> QED
      BY <3>1, <2>1, <1>0
  <2>3. PICK k \in 1..Len(ds) : ds[k].start < p /\ p <= ds[k].end
    <3>1. ds[1].start < p
      BY <1>0, <1>8, <2>1, <2>2
    <3> QED
      BY <1>3, <1>8, <2>1, <3>1
  <2>4. k >= from
    <3> SUFFICES ASSUME k < from PROVE FALSE
      BY <2>1
    <3>1. ds[k].end <= ds[from].start
      BY <1>3, <2>1
    <3> QED
      BY <1>0, <1>8, <2>1, <2>3, <3>1
  <2>5. k - from + 1 \in 1..n /\ from + (k - from + 1) - 1 = k
    BY <1>0, <2>1, <2>4
  <2>6. rest[k - from + 1] = ds[k]
    BY <1>2, <2>5
  <2> QED
    BY <2>3, <2>5, <2>6
<1> QED
  BY <1>1, <1>4, <1>5, <1>6, <1>7, <1>8 DEF PagesFit, rest

\* The deliveries that end after a position are a suffix, and what is retained, too.
LEMMA EndingAfterIsSuffix ==
    ASSUME NEW ds \in Seq(Page), NEW p \in Nat
    PROVE  \E from \in 1..Len(ds) + 1 :
             /\ EndingAfter(ds, p) = SubSeq(ds, from, Len(ds))
             /\ \A i \in from..Len(ds) : ds[i].end > p
             /\ from > 1 => ds[from - 1].end <= p
<1> DEFINE Splits(k) == /\ \A i \in k..Len(ds) : ds[i].end > p
                        /\ k > 1 => ds[k - 1].end <= p
           T == {k \in 1..Len(ds) + 1 : \A i \in k..Len(ds) : ds[i].end > p}
<1>0. Len(ds) \in Nat /\ \A i \in 1..Len(ds) : ds[i].end \in Nat
  BY PagesOf
<1>1. T \in SUBSET Nat /\ Len(ds) + 1 \in T
  BY <1>0
<1>2. PICK x \in T : \A y \in T : x <= y
  <2> HIDE DEF T
  <2> QED
    BY <1>1, Least
<1>3. x \in 1..Len(ds) + 1 /\ \A i \in x..Len(ds) : ds[i].end > p
  BY <1>2
<1>4. ASSUME x > 1 PROVE ds[x - 1].end <= p
  <2>1. x - 1 \notin T /\ x - 1 \in 1..Len(ds) + 1
    <3>1. x - 1 \in 1..Len(ds) + 1 /\ ~(x <= x - 1)
      BY <1>0, <1>3, <1>4
    <3> HIDE DEF T
    <3> QED
      BY <1>2, <3>1
  <2>2. PICK i \in (x - 1)..Len(ds) : ~(ds[i].end > p)
    BY <2>1
  <2>3. i = x - 1
    BY <1>0, <1>3, <2>2
  <2> QED
    BY <1>0, <1>3, <1>4, <2>2, <2>3
<1>5. \E k \in 1..Len(ds) + 1 : Splits(k)
  BY <1>3, <1>4
<1> DEFINE from == CHOOSE k \in 1..Len(ds) + 1 : Splits(k)
<1>6. from \in 1..Len(ds) + 1 /\ Splits(from)
  <2> HIDE DEF Splits
  <2> QED
    BY <1>5
<1>7. EndingAfter(ds, p) = SubSeq(ds, from, Len(ds))
  BY DEF EndingAfter
<1> HIDE DEF from
<1> QED
  BY <1>6, <1>7

LEMMA RetainedIsSuffix ==
    ASSUME NEW ds \in Seq(Page), Len(ds) > 0
    PROVE  \E from \in 1..Len(ds) : Retained(ds) = SubSeq(ds, from, Len(ds))
<1> DEFINE Fits(k) == /\ Len(ds) - k < HistoryLimit
                      /\ ds[Len(ds)].end - ds[k].start <= RowLimit
           First(k) == /\ k = Len(ds) \/ Fits(k)
                       /\ \A i \in 1..k - 1 : ~Fits(i)
           T == {k \in 1..Len(ds) : k = Len(ds) \/ Fits(k)}
           from == CHOOSE k \in 1..Len(ds) : First(k)
<1>1. Len(ds) \in Nat /\ T \in SUBSET Nat /\ Len(ds) \in T
  BY LenProperties
<1>2. PICK x \in T : \A y \in T : x <= y
  <2> HIDE DEF T
  <2> QED
    BY <1>1, Least
<1> HIDE DEF Fits
<1>3. x \in 1..Len(ds) /\ First(x)
  BY <1>1, <1>2
<1>4. from \in 1..Len(ds)
  <2> HIDE DEF First
  <2> QED
    BY <1>3
<1>5. Retained(ds) = SubSeq(ds, from, Len(ds))
  BY DEF Retained, Fits
<1> HIDE DEF from
<1> QED
  BY <1>4, <1>5

LEMMA AppendFits ==
    ASSUME NEW ds \in Seq(Page), NEW page \in Page,
           NEW revision \in Nat, NEW eligible \in SUBSET Card, NEW more \in SUBSET Card,
           PagesFit(ds, page.start, revision, eligible), eligible \subseteq more,
           PageFits(page, revision, more)
    PROVE  PagesFit(Append(ds, page), page.end, revision, more)
<1> DEFINE all == Append(ds, page)
           n == Len(ds)
<1>1. /\ n \in Nat /\ Len(all) = n + 1 /\ all[n + 1] = page
      /\ \A i \in 1..n : all[i] = ds[i]
  BY AppendProperties, LenProperties
<1>2. /\ \A k \in 1..n : ds[k].start \in Nat /\ ds[k].end \in Nat
      /\ page.start \in Nat /\ page.end \in Nat /\ page.start < page.end
  BY PagesOf DEF Page, PageFits
<1> HIDE DEF all
<1>3. \A k \in 1..n : PageFits(ds[k], revision, eligible)
  BY DEF PagesFit
<1>4. \A k \in 1..n + 1 : PageFits(all[k], revision, more)
  BY <1>1, <1>3 DEF PageFits
<1>5. \A k \in 1..n : ds[k].end <= page.start
  <2> SUFFICES ASSUME NEW k \in 1..n PROVE ds[k].end <= page.start
    OBVIOUS
  <2>1. ds[n].end = page.start
    BY <1>1 DEF PagesFit
  <2>2. k < n => ds[k].end <= ds[n].start /\ ds[n].start < ds[n].end
    BY <1>1, <1>3 DEF PagesFit, PageFits
  <2> QED
    BY <1>1, <1>2, <2>1, <2>2
<1>6. ASSUME NEW k \in 1..n + 1, NEW l \in 1..n + 1, k < l
      PROVE  all[k].end <= all[l].start
  <2>1. k \in 1..n /\ all[k] = ds[k]
    BY <1>1, <1>6
  <2>2. CASE l = n + 1
    BY <1>1, <1>5, <2>1, <2>2
  <2>3. CASE l # n + 1
    <3>1. l \in 1..n /\ all[l] = ds[l]
      BY <1>1, <2>3
    <3> QED
      BY <1>6, <2>1, <3>1 DEF PagesFit
  <2> QED
    BY <2>2, <2>3
<1>7. ASSUME NEW k \in 1..n PROVE all[k].end = all[k + 1].start
  <2>1. CASE k = n
    BY <1>1, <2>1 DEF PagesFit
  <2>2. CASE k # n
    <3>1. k \in 1..n - 1 /\ k + 1 \in 1..n
      BY <1>1, <2>2
    <3> QED
      BY <1>1, <3>1 DEF PagesFit
  <2> QED
    BY <2>1, <2>2
<1>8. ASSUME NEW p \in Nat, all[1].start < p, p <= page.end
      PROVE  \E k \in 1..n + 1 : all[k].start < p /\ p <= all[k].end
  <2>1. CASE page.start < p
    BY <1>1, <1>8, <2>1
  <2>2. CASE p <= page.start
    <3>1. n > 0 /\ all[1] = ds[1]
      BY <1>1, <1>2, <1>8, <2>2
    <3>2. PICK k \in 1..n : ds[k].start < p /\ p <= ds[k].end
      BY <1>8, <2>2, <3>1 DEF PagesFit
    <3> QED
      BY <1>1, <3>2
  <2> QED
    BY <1>2, <2>1, <2>2
<1> QED
  BY <1>1, <1>4, <1>6, <1>7, <1>8 DEF PagesFit, all

\* The pages reach back to a position; a reader has one card of an article.
Reach(ds, p, q) == p < q => Len(ds) > 0 /\ ds[1].start <= p
OneCardEach(eligible) ==
    \A card, other \in eligible : card.article = other.article => card = other

\* The rows between a position that the pages reach and the one they lead to: each
\* of them is in a page, and no two are of one article.
LEMMA RowsBetweenFits ==
    ASSUME NEW ds \in Seq(Page), NEW p \in Nat, NEW q \in Nat, p <= q,
           NEW revision \in Nat, NEW eligible \in SUBSET Card,
           PagesFit(ds, q, revision, eligible),
           Reach(ds, p, q), OneCardEach(eligible)
    PROVE  /\ RowsBetween(ds, p, q) \in Seq(Row) /\ Len(RowsBetween(ds, p, q)) = q - p
           /\ Distinct(RowsBetween(ds, p, q))
           /\ \A i \in 1..q - p : \E k \in 1..Len(ds) : \E j \in 1..Len(ds[k].rows) :
                RowsBetween(ds, p, q)[i] = ds[k].rows[j] /\ p < ds[k].end
<1> DEFINE rows == RowsBetween(ds, p, q)
           Covers(k, i) == ds[k].start < p + i /\ p + i <= ds[k].end
           at == [i \in 1..q - p |-> CHOOSE k \in 1..Len(ds) : Covers(k, i)]
<1>0. /\ Len(ds) \in Nat /\ DOMAIN ds = 1..Len(ds) /\ q - p \in Nat
      /\ \A k \in 1..Len(ds) : /\ ds[k].start \in Nat /\ ds[k].end \in Nat
                               /\ ds[k].rows \in Seq(Row)
  BY PagesOf, LenProperties
<1>1. ASSUME NEW i \in 1..q - p
      PROVE  at[i] \in 1..Len(ds) /\ Covers(at[i], i)
  <2>1. p + i \in Nat /\ p < q /\ p + i <= q /\ p < p + i
    BY <1>0
  <2>2. Len(ds) > 0 /\ ds[1].start < p + i
    BY <1>0, <2>1 DEF Reach
  <2>3. \E k \in 1..Len(ds) : Covers(k, i)
    BY <2>1, <2>2 DEF PagesFit
  <2> HIDE DEF Covers
  <2> QED
    BY <2>3
<1>2. rows = [i \in 1..q - p |-> ds[at[i]].rows[p + i - ds[at[i]].start]]
  BY <1>0 DEF RowsBetween
<1> HIDE DEF at, rows
<1>3. ASSUME NEW i \in 1..q - p
      PROVE  /\ rows[i] = ds[at[i]].rows[p + i - ds[at[i]].start]
             /\ p + i - ds[at[i]].start \in 1..Len(ds[at[i]].rows)
             /\ rows[i] \in Row
  <2>1. rows[i] = ds[at[i]].rows[p + i - ds[at[i]].start]
    BY <1>2
  <2>2. PageFits(ds[at[i]], revision, eligible)
    BY <1>1 DEF PagesFit
  <2>3. p + i - ds[at[i]].start \in 1..Len(ds[at[i]].rows)
    <3> DEFINE start == ds[at[i]].start
               end == ds[at[i]].end
               x == p + i
               len == Len(ds[at[i]].rows)
    <3>1. start \in Nat /\ end \in Nat /\ x \in Nat /\ start < x /\ x <= end
      <4>1. i \in Nat
        BY <1>0
      <4>2. at[i] \in 1..Len(ds) /\ start < x /\ x <= end
        BY <1>1
      <4>3. start \in Nat /\ end \in Nat
        BY <1>0, <4>2
      <4> QED
        BY <4>1, <4>2, <4>3
    <3>2. len = end - start
      BY <2>2 DEF PageFits
    <3>3. p + i - start \in 1..len
      <4> HIDE DEF start, end, len
      <4> QED
        BY <3>1, <3>2
    <3> QED
      BY <3>3
  <2>4. rows[i] \in Row
    BY <1>0, <1>1, <2>1, <2>3, ElementOfSeq
  <2> QED
    BY <2>1, <2>3, <2>4
<1>4. rows \in Seq(Row) /\ Len(rows) = q - p
  <2> DEFINE n == q - p
  <2>1. rows \in [1..n -> Row] /\ n \in Nat
    BY <1>0, <1>2, <1>3
  <2> HIDE DEF n
  <2>2. rows \in Seq(Row) /\ Len(rows) = n
    BY <2>1
  <2> QED
    BY <2>2 DEF n
<1>5. ASSUME NEW i \in 1..q - p, NEW j \in 1..q - p, rows[i].article = rows[j].article
      PROVE  i = j
  <2> DEFINE k == at[i]
             l == at[j]
             x == p + i - ds[k].start
             y == p + j - ds[l].start
  <2>1. /\ k \in 1..Len(ds) /\ rows[i] = ds[k].rows[x] /\ x \in 1..Len(ds[k].rows)
        /\ l \in 1..Len(ds) /\ rows[j] = ds[l].rows[y] /\ y \in 1..Len(ds[l].rows)
    BY <1>1, <1>3
  <2>2. PageFits(ds[k], revision, eligible) /\ PageFits(ds[l], revision, eligible)
    BY <2>1 DEF PagesFit
  <2>3. /\ [article |-> rows[i].article, end |-> ds[k].end] \in eligible
        /\ [article |-> rows[j].article, end |-> ds[l].end] \in eligible
    BY <2>1, <2>2 DEF PageFits
  <2>4. [article |-> rows[i].article, end |-> ds[k].end] = [article |-> rows[j].article, end |-> ds[l].end]
    <3> DEFINE one == [article |-> rows[i].article, end |-> ds[k].end]
               other == [article |-> rows[j].article, end |-> ds[l].end]
    <3>1. one \in eligible /\ other \in eligible /\ one.article = other.article
      BY <1>5, <2>3
    <3> HIDE DEF one, other
    <3>2. one = other
      BY <3>1 DEF OneCardEach
    <3> QED
      BY <3>2 DEF one, other
  <2>5. ds[k].end = ds[l].end
    BY <2>4
  <2> HIDE DEF k, l
  <2>8. /\ ds[k].start \in Nat /\ ds[k].end \in Nat /\ k \in Nat
        /\ ds[l].start \in Nat /\ ds[l].end \in Nat /\ l \in Nat
    BY <1>0, <2>1
  <2>6. k = l
    <3>1. ASSUME k < l PROVE FALSE
      <4>1. ds[k].end <= ds[l].start /\ ds[l].start < ds[l].end
        BY <2>1, <2>2, <3>1 DEF PagesFit, PageFits
      <4> QED
        BY <2>5, <2>8, <4>1
    <3>2. ASSUME l < k PROVE FALSE
      <4>1. ds[l].end <= ds[k].start /\ ds[k].start < ds[k].end
        BY <2>1, <2>2, <3>2 DEF PagesFit, PageFits
      <4> QED
        BY <2>5, <2>8, <4>1
    <3> QED
      BY <2>8, <3>1, <3>2
  <2>7. x = y
    <3> HIDE DEF x, y
    <3>1. ds[k].rows[x].article = ds[k].rows[y].article /\ y \in 1..Len(ds[k].rows)
      BY <1>5, <2>1, <2>6
    <3> QED
      BY <2>1, <2>2, <3>1 DEF PageFits, Distinct
  <2> QED
    BY <2>6, <2>7, <2>8
<1>6. Distinct(rows)
  BY <1>4, <1>5 DEF Distinct
<1>7. ASSUME NEW i \in 1..q - p
      PROVE  \E k \in 1..Len(ds) : \E j \in 1..Len(ds[k].rows) :
               rows[i] = ds[k].rows[j] /\ p < ds[k].end
  <2>1. p < ds[at[i]].end
    BY <1>0, <1>1
  <2> QED
    BY <1>1, <1>3, <2>1
<1> QED
  BY <1>4, <1>6, <1>7 DEF rows

-----------------------------------------------------------------------------
(* Pages                                                                   *)

LEMMA SessionOf ==
    ASSUME NEW st \in Session
    PROVE  /\ st.items \in Seq(Article) /\ st.source \in Nat /\ st.position \in Nat
           /\ st.queue \in Seq(Row) /\ st.revision \in Nat /\ st.deliveries \in Seq(Page)
           /\ st.eligible \in SUBSET Card /\ st.version \in Nat /\ st.replay \in Replay
           /\ st.given \in SUBSET Article
           /\ st.replay.version \in Nat /\ st.replay.articles \in SUBSET Article
           /\ Len(st.items) \in Nat /\ Len(st.queue) \in Nat /\ Len(st.deliveries) \in Nat
BY LenProperties DEF Session, Replay

\* A session that keeps what Conserved is about.
LEMMA ConservedSame ==
    ASSUME NEW st, NEW new, Conserved(st),
           new.items = st.items, new.source = st.source, new.position = st.position,
           new.queue = st.queue, new.eligible = st.eligible, new.given = st.given
    PROVE  Conserved(new)
BY DEF Conserved, OpenTo, Arrived

LEMMA NewSessionSound ==
    ASSUME FeedTypeOK
    PROVE  Sound(NewSession, version)
<1> DEFINE st == NewSession
           S == Article \ history
<1>1. IsFiniteSet(S)
  BY ArticleAssumption, FS_Subset
<1>2. NewSession.items \in SetToSeqs(S)
  <2>1. SetToSeqs(S) # {}
    BY <1>1, Rankings
  <2>2. NewSession.items = CHOOSE s \in SetToSeqs(S) : TRUE
    BY DEF NewSession
  <2> HIDE DEF S
  <2> QED
    BY <2>1, <2>2
<1>3. /\ st.items \in Seq(S)
      /\ \A i, j \in 1..Len(st.items) : st.items[i] = st.items[j] => i = j
  <2> HIDE DEF S
  <2> QED
    BY <1>1, <1>2, Rankings
<1>4. st.items \in Seq(Article)
  BY <1>3
<1>5. /\ st.source = 0 /\ st.position = 0 /\ st.queue = <<>> /\ st.revision = 0
      /\ st.deliveries = <<>> /\ st.eligible = {} /\ st.version = version
      /\ st.replay = [version |-> 0, articles |-> {}] /\ st.given = {}
      /\ st = [items |-> st.items, source |-> 0, position |-> 0, queue |-> <<>>, revision |-> 0,
               deliveries |-> <<>>, eligible |-> {}, version |-> version,
               replay |-> [version |-> 0, articles |-> {}], given |-> {}]
  BY DEF NewSession
<1> HIDE DEF st, S
<1>6. version \in Nat /\ <<>> \in Seq(Row) /\ <<>> \in Seq(Page) /\ Len(<<>>) = 0
  BY DEF FeedTypeOK
<1>7. st \in Session
  <2>1. [version |-> 0, articles |-> {}] \in Replay
    BY DEF Replay
  <2> DEFINE items == st.items
  <2> HIDE DEF items
  <2>2. [items |-> items, source |-> 0, position |-> 0, queue |-> <<>>, revision |-> 0,
         deliveries |-> <<>>, eligible |-> {}, version |-> version,
         replay |-> [version |-> 0, articles |-> {}], given |-> {}] \in Session
    BY <1>4, <1>6, <2>1 DEF Session, items
  <2> QED
    BY <1>5, <2>2 DEF items
<1>8. Conserved(st)
  <2>1. Articles(st.queue) = {}
    <3>1. Articles(<<>>) = {<<>>[i].article : i \in 1..Len(<<>>)}
      BY <1>6, ArticlesOf
    <3>2. 1..Len(<<>>) = {}
      BY <1>6
    <3> QED
      BY <1>5, <3>1, <3>2
  <2>2. OpenTo(st) = {} /\ Arrived(st) = {}
    BY <1>5 DEF OpenTo, Arrived
  <2>3. Len(st.items) \in Nat
    BY <1>4, LenProperties
  <2> QED
    BY <1>3, <1>5, <1>6, <2>1, <2>2, <2>3 DEF Conserved, Distinct
<1>9. Replayable(st)
  BY <1>5, <1>6 DEF Replayable, PagesFit
<1>10. InForce(st, version)
  BY <1>5, <1>6 DEF InForce
<1> QED
  BY <1>7, <1>8, <1>9, <1>10 DEF Sound, st

\* A cursor proves that the pages before it were received.
LEMMA AcknowledgedSound ==
    ASSUME NEW v \in Nat, NEW st, Sound(st, v), NEW p \in Nat
    PROVE  Sound([st EXCEPT !.deliveries = EndingAfter(@, p)], v)
<1> DEFINE ds == st.deliveries
           new == [st EXCEPT !.deliveries = EndingAfter(ds, p)]
<1>0. st \in Session /\ Conserved(st) /\ Replayable(st) /\ InForce(st, v)
  BY DEF Sound
<1>1. ds \in Seq(Page) /\ Len(ds) \in Nat
  BY <1>0, SessionOf
<1> HIDE DEF ds
<1>2. PICK from \in 1..Len(ds) + 1 : EndingAfter(ds, p) = SubSeq(ds, from, Len(ds))
  BY <1>1, EndingAfterIsSuffix
<1> DEFINE rest == SubSeq(ds, from, Len(ds))
<1>3. /\ rest \in Seq(Page) /\ Len(rest) = Len(ds) - from + 1
      /\ \A i \in 1..Len(ds) - from + 1 : rest[i] = ds[from + i - 1]
  BY <1>1, SuffixPages
<1>4. /\ new.deliveries = rest /\ new \in Session
      /\ new.items = st.items /\ new.source = st.source /\ new.position = st.position
      /\ new.queue = st.queue /\ new.eligible = st.eligible /\ new.given = st.given
      /\ new.revision = st.revision /\ new.version = st.version /\ new.replay = st.replay
  <2> HIDE DEF rest
  <2>1. rest \in Seq(Page) /\ new = [st EXCEPT !.deliveries = rest]
    BY <1>2, <1>3 DEF rest
  <2> HIDE DEF new
  <2> QED
    BY <1>0, <2>1 DEF Session
<1>5. PagesFit(rest, st.position, st.revision, st.eligible)
  BY <1>0, <1>1, SuffixesFit, SessionOf DEF Replayable, ds
<1> HIDE DEF new, rest
<1>6. Conserved(new)
  BY <1>0, <1>4, ConservedSame
<1>7. Replayable(new)
  BY <1>4, <1>5 DEF Replayable
<1>8. InForce(new, v)
  <2>1. ASSUME NEW k \in 1..Len(rest) PROVE \E l \in 1..Len(ds) : rest[k] = ds[l]
    <3>1. from + k - 1 \in 1..Len(ds) /\ k \in 1..Len(ds) - from + 1
      BY <1>1, <1>3
    <3> QED
      BY <1>3, <3>1
  <2>2. \A l \in 1..Len(ds) : \A i \in 1..Len(ds[l].rows) : RowInForce(ds[l].rows[i], st, v)
    BY <1>0 DEF InForce, ds
  <2>3. \A k \in 1..Len(rest) : \A i \in 1..Len(rest[k].rows) : RowInForce(rest[k].rows[i], st, v)
    BY <2>1, <2>2
  <2> QED
    BY <1>0, <1>4, <2>3 DEF InForce, RowInForce
<1> QED
  BY <1>4, <1>6, <1>7, <1>8 DEF Sound, new, ds

LEMMA OpenedSound ==
    ASSUME FeedInv, NEW req \in PageRequest, Accepts(req)
    PROVE  /\ Sound(Opened(req), version) /\ Opened(req).version = version
           /\ OpenedId(req) \in SessionId
<1>1. /\ req.session \in SessionId \cup {None} /\ req.cursor \in Progress \cup {None}
      /\ version \in Nat /\ created \in 0..MaxSessions
  BY DEF FeedInv, FeedTypeOK, PageRequest
<1>2. CASE Opens(req)
  <2>1. Sound(NewSession, version) /\ NewSession.version = version
    BY NewSessionSound DEF FeedInv, NewSession
  <2>2. created + 1 \in SessionId
    BY <1>1, <1>2, FeedBoundAssumption DEF Accepts, SessionId
  <2> QED
    BY <1>2, <2>1, <2>2 DEF Opened, OpenedId
<1>3. CASE ~Opens(req)
  <2> DEFINE st == sessions[req.session]
  <2>1. req.session # None /\ req.session \in SessionId /\ Found(req.session) = st
    BY <1>1, <1>3 DEF Opens, Found
  <2>2. st # None /\ st.version = version
    BY <1>3, <2>1 DEF Accepts, Opens, MustReset
  <2>3. Sound(st, version)
    BY <2>1, <2>2 DEF FeedInv
  <2>4. CASE req.cursor = None
    BY <1>3, <2>1, <2>2, <2>3, <2>4 DEF Opened, OpenedId
  <2>5. CASE req.cursor # None
    <3> DEFINE p == req.cursor.position
               new == [st EXCEPT !.deliveries = EndingAfter(@, p)]
    <3>1. p \in Nat
      BY <1>1, <2>5, ArticleAssumption, FS_CardinalityType DEF Progress
    <3>2. Opened(req) = new
      BY <1>3, <2>1, <2>5 DEF Opened
    <3>3. Sound(new, version)
      <4> HIDE DEF st, p
      <4> QED
        BY <1>1, <2>3, <3>1, AcknowledgedSound
    <3>4. new.version = st.version
      BY <2>3 DEF Sound, Session
    <3> QED
      BY <1>3, <2>1, <2>2, <3>2, <3>3, <3>4 DEF OpenedId
  <2> QED
    BY <2>4, <2>5
<1> QED
  BY <1>2, <1>3

\* The rows of the articles at the positions from+1..to, each of them ranked once.
\* The articles that arrive, and the rows they are ranked as.
Window(items, from, to) == {items[i] : i \in from + 1..to}
RowsOf(A, v) == {[article |-> a, under |-> v] : a \in A}

LEMMA RankedWindow ==
    ASSUME NEW items \in Seq(Article), NEW from \in Nat, NEW to \in 0..Len(items), from <= to,
           NEW v \in Nat,
           \A i, j \in 1..Len(items) : items[i] = items[j] => i = j,
           NEW ranked \in SetToSeqs(RowsOf(Window(items, from, to), v))
    PROVE  /\ ranked \in Seq(Row) /\ Len(ranked) = to - from /\ Distinct(ranked)
           /\ Articles(ranked) = Window(items, from, to)
           /\ \A i \in 1..Len(ranked) : ranked[i].under = v
<1> DEFINE A == Window(items, from, to)
           row(a) == [article |-> a, under |-> v]
           R == RowsOf(A, v)
           n == to - from
           f == [i \in 1..n |-> row(items[from + i])]
<1>0. Len(items) \in Nat /\ to \in Nat /\ n \in Nat /\ \A i \in 1..Len(items) : items[i] \in Article
  BY LenProperties, ElementOfSeq
<1>1. \A i \in 1..n : from + i \in from + 1..to /\ from + i \in 1..Len(items)
  BY <1>0
<1>2. \A j \in from + 1..to : j - from \in 1..n /\ from + (j - from) = j /\ j \in 1..Len(items)
  BY <1>0
<1>3. A \subseteq Article
  BY <1>0, <1>2 DEF Window
<1>4. R \subseteq Row
  BY <1>3 DEF Row, RowsOf
<1>6. f \in [1..n -> R]
  BY <1>1 DEF Window, RowsOf
<1>7. \A i, j \in 1..n : f[i] = f[j] => i = j
  <2> SUFFICES ASSUME NEW i \in 1..n, NEW j \in 1..n, f[i] = f[j] PROVE i = j
    OBVIOUS
  <2>1. items[from + i] = items[from + j]
    <3>1. row(items[from + i]).article = row(items[from + j]).article
      <4>1. f[i] = row(items[from + i]) /\ f[j] = row(items[from + j])
        OBVIOUS
      <4> HIDE DEF f, row
      <4> QED
        BY <4>1
    <3> QED
      BY <3>1
  <2>2. from + i = from + j
    BY <1>1, <2>1
  <2> QED
    BY <1>0, <2>2
<1>8. \A r \in R : \E i \in 1..n : f[i] = r
  <2> SUFFICES ASSUME NEW r \in R PROVE \E i \in 1..n : f[i] = r
    OBVIOUS
  <2>0. PICK j \in from + 1..to : r = row(items[j])
    BY DEF Window, RowsOf
  <2>1. j - from \in 1..n /\ from + (j - from) = j
    BY <1>2
  <2> DEFINE i == j - from
  <2>2. i \in 1..n /\ f[i] = row(items[from + i]) /\ from + i = j
    BY <2>1
  <2> QED
    BY <2>0, <2>2
<1>17. ranked \in SetToSeqs(R)
  OBVIOUS
<1> HIDE DEF f, n
<1>9. f \in Bijection(1..n, R)
  BY <1>6, <1>7, <1>8, Fun_IsBij
<1>10. ExistsBijection(1..n, R)
  BY <1>9, Fun_ExistsBij
<1>13a. IsFiniteSet(1..n)
  BY <1>0, FS_Interval
<1>11. IsFiniteSet(R) /\ Cardinality(R) = n
  BY <1>0, <1>10, <1>13a, FS_CountingElements, FS_Bijection
<1> HIDE DEF R
<1>12. /\ ranked \in Seq(R) /\ Len(ranked) = n /\ ToSet(ranked) = R
       /\ \A i, j \in 1..Len(ranked) : ranked[i] = ranked[j] => i = j
  BY <1>11, <1>17, Rankings
<1>13. ranked \in Seq(Row) /\ \A i \in 1..Len(ranked) : ranked[i] \in R
  BY <1>4, <1>12, ElementOfSeq
<1>14. \A r \in R : r.under = v /\ r = row(r.article)
  BY DEF R, RowsOf
<1>15. Distinct(ranked)
  <2> SUFFICES ASSUME NEW i \in 1..Len(ranked), NEW j \in 1..Len(ranked),
                      ranked[i].article = ranked[j].article
               PROVE  i = j
    BY DEF Distinct
  <2>1. ranked[i] = row(ranked[i].article) /\ ranked[j] = row(ranked[j].article)
    BY <1>13, <1>14
  <2>2. ranked[i] = ranked[j]
    BY <2>1
  <2> QED
    BY <1>12, <2>2
<1>16. Articles(ranked) = A
  <2>1. Articles(ranked) = {r.article : r \in R}
    BY <1>12 DEF Articles
  <2>2. {r.article : r \in R} = A
    <3>1. \A a \in A : row(a) \in R /\ row(a).article = a
      BY DEF R, RowsOf
    <3>2. \A r \in R : r.article \in A
      BY DEF R, RowsOf
    <3> HIDE DEF row
    <3> QED
      BY <3>1, <3>2
  <2> QED
    BY <2>1, <2>2
<1> QED
  BY <1>12, <1>13, <1>14, <1>15, <1>16 DEF n, R

LEMMA ArrivalsSound ==
    ASSUME version \in Nat, NEW st, Sound(st, version), st.version = version,
           NEW limit \in Nat \ {0}, NEW new \in Arrivals(st, limit)
    PROVE  Sound(new, version) /\ new.version = version
<1>0. /\ st \in Session /\ Conserved(st) /\ Replayable(st) /\ InForce(st, version)
  BY DEF Sound
<1>1. CASE ~NeedsArrivals(st, limit)
  BY <1>1 DEF Arrivals
<1>2. CASE NeedsArrivals(st, limit)
  <2> DEFINE items == st.items
             from == st.source
             to == Smaller(Len(items), from + Larger(limit, FeedWindow))
             arriving == Window(items, from, to)
             rows == RowsOf(arriving, version)
  <2>1. /\ items \in Seq(Article) /\ from \in Nat /\ Len(items) \in Nat /\ from < Len(items)
        /\ st.queue \in Seq(Row)
    BY <1>0, <1>2, SessionOf DEF NeedsArrivals
  <2>2. to \in 0..Len(items) /\ from <= to
    BY <2>1, SizeAssumption DEF Smaller, Larger
  <2>3. PICK ranked \in SetToSeqs(rows) :
          new = [st EXCEPT !.queue = @ \o ranked, !.source = to,
                           !.replay = [version |-> version, articles |-> arriving]]
    BY <1>2 DEF Arrivals, Window, RowsOf
  <2> HIDE DEF to
  <2>4. \A i, j \in 1..Len(items) : items[i] = items[j] => i = j
    BY <1>0 DEF Conserved
  <2>5. /\ ranked \in Seq(Row) /\ Len(ranked) = to - from /\ Distinct(ranked)
        /\ Articles(ranked) = arriving
        /\ \A i \in 1..Len(ranked) : ranked[i].under = version
    <3> HIDE DEF items, from
    <3> QED
      BY <2>1, <2>2, <2>3, <2>4, RankedWindow
  <2>6. arriving \subseteq Article
    BY <2>5, ArticlesOf
  <2> DEFINE queue == st.queue \o ranked
             replay == [version |-> version, articles |-> arriving]
  <2>7. /\ queue \in Seq(Row) /\ Len(queue) = Len(st.queue) + Len(ranked)
        /\ Articles(queue) = Articles(st.queue) \cup arriving
        /\ \A i \in 1..Len(queue) : \/ \E j \in 1..Len(st.queue) : queue[i] = st.queue[j]
                                    \/ \E j \in 1..Len(ranked) : queue[i] = ranked[j]
        /\ Articles(st.queue) \cap arriving = {} => Distinct(queue)
    <3> HIDE DEF arriving
    <3>1. Distinct(st.queue)
      BY <1>0 DEF Conserved
    <3> QED
      BY <2>1, <2>5, <3>1, Joined
  <2>8. replay \in Replay
    BY <2>6 DEF Replay
  <2> HIDE DEF arriving, queue, replay
  <2>9. /\ new \in Session /\ new.queue = queue /\ new.source = to /\ new.replay = replay
        /\ new.items = st.items /\ new.position = st.position /\ new.eligible = st.eligible
        /\ new.given = st.given /\ new.deliveries = st.deliveries
        /\ new.revision = st.revision /\ new.version = st.version
    <3>1. new = [st EXCEPT !.queue = queue, !.source = to, !.replay = replay]
      BY <2>3 DEF queue, replay, arriving
    <3>2. to \in Nat
      BY <2>2
    <3> QED
      BY <1>0, <2>7, <2>8, <3>1, <3>2 DEF Session
  <2>10. Arrived(st) \cap arriving = {}
    <3>1. \A i \in 1..from : \A j \in from + 1..to : items[i] # items[j]
      <4> SUFFICES ASSUME NEW i \in 1..from, NEW j \in from + 1..to PROVE items[i] # items[j]
        OBVIOUS
      <4>1. i \in 1..Len(items) /\ j \in 1..Len(items) /\ i # j
        BY <2>1, <2>2
      <4> QED
        BY <2>4, <4>1
    <3> QED
      BY <3>1 DEF Arrived, arriving, Window
  <2>11. Arrived(new) = Arrived(st) \cup arriving
    <3>1. \A i : i \in 1..to <=> i \in 1..from \/ i \in from + 1..to
      BY <2>1, <2>2
    <3> DEFINE item(i) == items[i]
    <3>2. /\ Arrived(new) = {item(i) : i \in 1..to} /\ Arrived(st) = {item(i) : i \in 1..from}
          /\ arriving = {item(i) : i \in from + 1..to}
      BY <2>9 DEF Arrived, arriving, Window
    <3> HIDE DEF item
    <3> QED
      BY <3>1, <3>2
  <2>12. Conserved(new)
    <3>1. /\ Articles(st.queue) \cup OpenTo(st) \cup st.given = Arrived(st)
          /\ Articles(st.queue) \cap (OpenTo(st) \cup st.given) = {}
          /\ OpenTo(st) \cap st.given = {}
          /\ \A card, other \in st.eligible : card.article = other.article => card = other
          /\ st.position + Len(st.queue) = from
      BY <1>0 DEF Conserved
    <3>2. OpenTo(new) = OpenTo(st)
      BY <2>9 DEF OpenTo
    <3>3. Distinct(queue)
      BY <2>7, <2>10, <3>1
    <3>4. /\ Articles(queue) \cup OpenTo(st) \cup st.given = Arrived(new)
          /\ Articles(queue) \cap (OpenTo(st) \cup st.given) = {}
      BY <2>7, <2>10, <2>11, <3>1
    <3>5. st.position + Len(queue) = to
      <4>1. /\ st.position \in Nat /\ Len(st.queue) \in Nat /\ to \in Nat
            /\ Len(queue) = Len(st.queue) + (to - from)
        BY <1>0, <2>2, <2>5, <2>7, SessionOf
      <4> QED
        BY <2>1, <3>1, <4>1
    <3>6. to <= Len(items)
      BY <2>2
    <3> QED
      BY <2>4, <2>9, <3>1, <3>2, <3>3, <3>4, <3>5, <3>6 DEF Conserved
  <2>13. Replayable(new)
    BY <1>0, <2>9 DEF Replayable
  <2>14. InForce(new, version)
    <3>1. \A i \in 1..Len(queue) : queue[i].under = version
      <4>1. \A i \in 1..Len(st.queue) : st.queue[i].under = version
        BY <1>0 DEF InForce, RowInForce
      <4> SUFFICES ASSUME NEW i \in 1..Len(queue) PROVE queue[i].under = version
        OBVIOUS
      <4>2. CASE \E j \in 1..Len(st.queue) : queue[i] = st.queue[j]
        BY <4>1, <4>2
      <4>3. CASE \E j \in 1..Len(ranked) : queue[i] = ranked[j]
        BY <2>5, <4>3
      <4> QED
        BY <2>7, <4>2, <4>3
    <3>2. \A k \in 1..Len(st.deliveries) : \A i \in 1..Len(st.deliveries[k].rows) :
            st.deliveries[k].rows[i].under = version
      BY <1>0 DEF InForce, RowInForce
    <3>3. new.version = version /\ new.replay.version = version
      BY <2>9 DEF replay
    <3> QED
      BY <2>9, <3>1, <3>2, <3>3 DEF InForce, RowInForce
  <2> QED
    BY <2>9, <2>12, <2>13, <2>14 DEF Sound
<1> QED
  BY <1>1, <1>2

\* What is retained of the pages and the page just taken: each is one of them.
\* The pages retained once another is delivered.
Kept(ds, page) == Retained(Append(ds, page))

LEMMA RetainedPages ==
    ASSUME NEW ds \in Seq(Page), NEW page \in Page,
           NEW revision \in Nat, NEW eligible \in SUBSET Card, NEW more \in SUBSET Card,
           PagesFit(ds, page.start, revision, eligible), eligible \subseteq more,
           PageFits(page, revision, more)
    PROVE  /\ Kept(ds, page) \in Seq(Page) /\ PagesFit(Kept(ds, page), page.end, revision, more)
           /\ \A k \in 1..Len(Kept(ds, page)) :
                Kept(ds, page)[k] = page \/ \E l \in 1..Len(ds) : Kept(ds, page)[k] = ds[l]
<1> DEFINE all == Append(ds, page)
           kept == Kept(ds, page)
<1>1. /\ all \in Seq(Page) /\ Len(all) = Len(ds) + 1 /\ Len(ds) \in Nat
      /\ all[Len(ds) + 1] = page /\ \A i \in 1..Len(ds) : all[i] = ds[i]
  BY AppendProperties, LenProperties
<1>2. PagesFit(all, page.end, revision, more)
  BY AppendFits
<1>3. page.end \in Nat
  BY DEF Page
<1> HIDE DEF all
<1>4. PICK from \in 1..Len(all) : Retained(all) = SubSeq(all, from, Len(all))
  <2>1. all \in Seq(Page) /\ Len(all) > 0
    BY <1>1
  <2> QED
    BY <2>1, RetainedIsSuffix
<1>5. from \in 1..Len(all) + 1 /\ kept = SubSeq(all, from, Len(all))
  BY <1>1, <1>4 DEF all, Kept
<1> HIDE DEF kept
<1>6. PagesFit(kept, page.end, revision, more)
  BY <1>1, <1>2, <1>3, <1>5, SuffixesFit
<1>7. /\ kept \in Seq(Page) /\ Len(kept) = Len(all) - from + 1
      /\ \A i \in 1..Len(all) - from + 1 : kept[i] = all[from + i - 1]
  BY <1>1, <1>5, SuffixPages
<1>8. ASSUME NEW k \in 1..Len(kept)
      PROVE  kept[k] = page \/ \E l \in 1..Len(ds) : kept[k] = ds[l]
  <2>1. from + k - 1 \in 1..Len(ds) + 1 /\ kept[k] = all[from + k - 1]
    BY <1>1, <1>5, <1>7
  <2>2. from + k - 1 = Len(ds) + 1 \/ from + k - 1 \in 1..Len(ds)
    BY <1>1, <2>1
  <2> QED
    BY <1>1, <2>1, <2>2
<1> QED
  BY <1>6, <1>7, <1>8 DEF kept

LEMMA DeliverSound ==
    ASSUME NEW v \in Nat, NEW st, Sound(st, v), NEW limit \in Nat \ {0}
    PROVE  Sound(Deliver(st, limit), v)
<1> DEFINE n == Smaller(limit, Len(st.queue))
           rows == SubSeq(st.queue, 1, n)
           rest == SubSeq(st.queue, n + 1, Len(st.queue))
           end == st.position + n
           page == [start |-> st.position, end |-> end, revision |-> st.revision, rows |-> rows]
           cards == {[article |-> a, end |-> end] : a \in Articles(rows)}
           more == st.eligible \cup cards
           kept == IF n = 0 THEN st.deliveries ELSE Retained(Append(st.deliveries, page))
           new == Deliver(st, limit)
<1>0. st \in Session /\ Conserved(st) /\ Replayable(st) /\ InForce(st, v)
  BY DEF Sound
<1>1. /\ n \in 0..Len(st.queue) /\ n \in Nat /\ st.queue \in Seq(Row) /\ Len(st.queue) \in Nat
      /\ Distinct(st.queue)
  BY <1>0, SessionOf DEF Smaller, Conserved
<1>2. new = [st EXCEPT !.queue = rest, !.position = end, !.eligible = more, !.deliveries = kept]
  <2> HIDE DEF rest, end, kept, n
  <2> QED
    BY <1>0 DEF Deliver, Session, rest, end, kept, n
<1> HIDE DEF n, new
<1>3. /\ rows \in Seq(Row) /\ Len(rows) = n /\ Distinct(rows)
      /\ rest \in Seq(Row) /\ Len(rest) = Len(st.queue) - n /\ Distinct(rest)
      /\ \A i \in 1..n : rows[i] = st.queue[i]
      /\ \A i \in 1..Len(rest) : \E j \in 1..Len(st.queue) : rest[i] = st.queue[j]
      /\ Articles(st.queue) = Articles(rows) \cup Articles(rest)
      /\ Articles(rows) \cap Articles(rest) = {}
  <2> DEFINE q == st.queue
  <2>1. /\ rows = Leading(q, n) /\ rest = Left(q, n)
        /\ q \in Seq(Row) /\ n \in 0..Len(q) /\ Distinct(q)
    BY <1>1 DEF Leading, Left
  <2> HIDE DEF rows, rest, q
  <2>2. /\ rows \in Seq(Row) /\ Len(rows) = n /\ Distinct(rows)
        /\ rest \in Seq(Row) /\ Len(rest) = Len(q) - n /\ Distinct(rest)
        /\ \A i \in 1..n : rows[i] = q[i]
        /\ \A i \in 1..Len(rest) : \E j \in 1..Len(q) : rest[i] = q[j]
        /\ Articles(q) = Articles(rows) \cup Articles(rest)
        /\ Articles(rows) \cap Articles(rest) = {}
    <3>1. /\ Leading(q, n) \in Seq(Row) /\ Len(Leading(q, n)) = n /\ Distinct(Leading(q, n))
          /\ Left(q, n) \in Seq(Row) /\ Len(Left(q, n)) = Len(q) - n /\ Distinct(Left(q, n))
          /\ \A i \in 1..n : Leading(q, n)[i] = q[i]
          /\ \A i \in 1..Len(Left(q, n)) : \E j \in 1..Len(q) : Left(q, n)[i] = q[j]
          /\ Articles(q) = Articles(Leading(q, n)) \cup Articles(Left(q, n))
          /\ Articles(Leading(q, n)) \cap Articles(Left(q, n)) = {}
      BY <2>1, Cut
    <3> QED
      BY <2>1, <3>1
  <2> QED
    BY <2>2 DEF q
<1> HIDE DEF rows, rest
<1>4. /\ st.position \in Nat /\ st.revision \in Nat /\ st.eligible \in SUBSET Card
      /\ st.deliveries \in Seq(Page) /\ end \in Nat /\ end = st.position + n
      /\ st.position + Len(st.queue) = st.source /\ st.source \in Nat
  BY <1>0, <1>1, SessionOf DEF Conserved
<1> HIDE DEF end
<1>5. cards \in SUBSET Card
  BY <1>3, <1>4, ArticlesOf DEF Card
<1>6. \A card \in cards : card.end = end /\ card.article \in Articles(rows)
  OBVIOUS
<1>7. \A i \in 1..n : [article |-> rows[i].article, end |-> end] \in cards
  <2>1. \A i \in 1..n : rows[i].article \in Articles(rows)
    BY <1>3, ArticlesOf
  <2> QED
    BY <2>1
<1>7a. {card.article : card \in cards} = Articles(rows)
  <2>1. \A a \in Articles(rows) : /\ [article |-> a, end |-> end] \in cards
                                  /\ [article |-> a, end |-> end].article = a
    OBVIOUS
  <2> HIDE DEF cards
  <2> QED
    BY <1>6, <2>1
<1> HIDE DEF cards
<1>8. more \in SUBSET Card
  BY <1>4, <1>5
<1>9. page \in Page /\ page.start = st.position /\ page.end = end /\ page.rows = rows
      /\ page.revision = st.revision
  BY <1>3, <1>4 DEF Page
<1>10. PagesFit(st.deliveries, st.position, st.revision, st.eligible)
  BY <1>0 DEF Replayable
<1> HIDE DEF page
<1>11. /\ kept \in Seq(Page) /\ PagesFit(kept, end, st.revision, more)
       /\ \A k \in 1..Len(kept) : \/ n > 0 /\ kept[k] = page
                                  \/ \E l \in 1..Len(st.deliveries) : kept[k] = st.deliveries[l]
  <2>1. CASE n = 0
    <3>1. end = st.position /\ kept = st.deliveries
      BY <1>4, <2>1
    <3>2. st.eligible \subseteq more
      OBVIOUS
    <3> HIDE DEF kept, more
    <3>3. PagesFit(st.deliveries, st.position, st.revision, more)
      BY <1>10, <3>2 DEF PagesFit, PageFits
    <3> QED
      BY <1>4, <3>1, <3>3
  <2>2. CASE n # 0
    <3>1. n > 0 /\ st.position < end
      BY <1>1, <1>4, <2>2
    <3>2. PageFits(page, st.revision, more)
      <4>1. Len(page.rows) = page.end - page.start /\ page.start < page.end
        BY <1>1, <1>3, <1>4, <1>9, <3>1
      <4>2. \A i \in 1..Len(page.rows) : [article |-> page.rows[i].article, end |-> page.end] \in more
        BY <1>3, <1>7, <1>9
      <4> QED
        BY <1>3, <1>9, <4>1, <4>2 DEF PageFits
    <3>3. kept = Retained(Append(st.deliveries, page)) /\ st.eligible \subseteq more
      BY <2>2
    <3> HIDE DEF kept
    <3> DEFINE ds == st.deliveries
               revision == st.revision
               eligible == st.eligible
    <3>4. /\ PagesFit(ds, page.start, revision, eligible) /\ kept = Kept(ds, page)
          /\ eligible \subseteq more /\ PageFits(page, revision, more)
          /\ ds \in Seq(Page) /\ revision \in Nat /\ eligible \in SUBSET Card
      BY <1>4, <1>9, <1>10, <3>2, <3>3 DEF Kept
    <3> HIDE DEF more, ds, revision, eligible
    <3>5. /\ kept \in Seq(Page) /\ PagesFit(kept, page.end, revision, more)
          /\ \A k \in 1..Len(kept) : kept[k] = page \/ \E l \in 1..Len(ds) : kept[k] = ds[l]
      BY <1>8, <1>9, <3>4, RetainedPages
    <3> QED
      BY <1>9, <3>1, <3>5 DEF ds, revision
  <2> QED
    BY <2>1, <2>2
<1> HIDE DEF kept, more
<1>12. /\ new \in Session /\ new.queue = rest /\ new.position = end /\ new.eligible = more
       /\ new.deliveries = kept /\ new.items = st.items /\ new.source = st.source
       /\ new.revision = st.revision /\ new.version = st.version /\ new.replay = st.replay
       /\ new.given = st.given
  BY <1>0, <1>2, <1>3, <1>4, <1>8, <1>11 DEF Session
<1>13. Conserved(new)
  <2>1. /\ Articles(st.queue) \cup OpenTo(st) \cup st.given = Arrived(st)
        /\ Articles(st.queue) \cap (OpenTo(st) \cup st.given) = {}
        /\ OpenTo(st) \cap st.given = {}
        /\ \A card, other \in st.eligible : card.article = other.article => card = other
        /\ \A i, j \in 1..Len(st.items) : st.items[i] = st.items[j] => i = j
        /\ st.source <= Len(st.items)
    BY <1>0 DEF Conserved
  <2>2. OpenTo(new) = OpenTo(st) \cup Articles(rows)
    BY <1>7a, <1>12 DEF OpenTo, more
  <2>3. Arrived(new) = Arrived(st)
    BY <1>12 DEF Arrived
  <2>4. end + Len(rest) = st.source
    <3> DEFINE p == st.position
               l == Len(st.queue)
               r == Len(rest)
               m == st.source
    <3>1. /\ p \in Nat /\ l \in Nat /\ n \in Nat /\ m \in Nat
          /\ p + l = m /\ end = p + n /\ r = l - n
      BY <1>1, <1>3, <1>4
    <3> HIDE DEF p, l, r, m
    <3>2. end + r = m
      BY <3>1
    <3> QED
      BY <3>2 DEF r, m
  <2>5. ASSUME NEW card \in more, NEW other \in more, card.article = other.article
        PROVE  card = other
    <3>1. \A c \in st.eligible : c.article \notin Articles(rows)
      BY <1>3, <2>1 DEF OpenTo
    <3>2. CASE card \in cards /\ other \in cards
      <4>1. card.end = other.end
        BY <1>6, <3>2 DEF cards
      <4>2. card \in Card /\ other \in Card
        BY <1>5, <3>2
      <4> QED
        BY <2>5, <4>1, <4>2 DEF Card
    <3>3. CASE card \in st.eligible /\ other \in st.eligible
      BY <2>1, <2>5, <3>3
    <3>4. CASE card \in cards /\ other \in st.eligible
      BY <1>6, <2>5, <3>1, <3>4
    <3>5. CASE card \in st.eligible /\ other \in cards
      BY <1>6, <2>5, <3>1, <3>5
    <3> QED
      BY <3>2, <3>3, <3>4, <3>5 DEF more
  <2>6. /\ Articles(rest) \cup OpenTo(new) \cup st.given = Arrived(new)
        /\ Articles(rest) \cap (OpenTo(new) \cup st.given) = {}
        /\ OpenTo(new) \cap st.given = {}
    BY <1>3, <2>1, <2>2, <2>3
  <2> QED
    BY <1>3, <1>12, <2>1, <2>4, <2>5, <2>6 DEF Conserved
<1>14. Replayable(new)
  BY <1>11, <1>12 DEF Replayable
<1>15. InForce(new, v)
  <2>1. /\ st.version <= v /\ st.replay.version <= v
        /\ \A i \in 1..Len(st.queue) : RowInForce(st.queue[i], st, v)
        /\ \A k \in 1..Len(st.deliveries) :
             \A i \in 1..Len(st.deliveries[k].rows) : RowInForce(st.deliveries[k].rows[i], st, v)
    BY <1>0 DEF InForce
  <2>2. \A i \in 1..Len(rest) : RowInForce(rest[i], st, v)
    BY <1>3, <2>1
  <2>3. \A i \in 1..Len(rows) : RowInForce(rows[i], st, v)
    <3>1. \A i \in 1..n : i \in 1..Len(st.queue)
      BY <1>1
    <3> QED
      BY <1>3, <2>1, <3>1
  <2>4. \A k \in 1..Len(kept) : \A i \in 1..Len(kept[k].rows) : RowInForce(kept[k].rows[i], st, v)
    BY <1>9, <1>11, <2>1, <2>3
  <2> QED
    BY <1>12, <2>1, <2>2, <2>4 DEF InForce, RowInForce
<1> QED
  BY <1>12, <1>13, <1>14, <1>15 DEF Sound, new

-----------------------------------------------------------------------------
(* Feedback                                                                *)

\* A chain of the pages that end after a position, if it starts there, is all that
\* the rows between it and the session's position need.
LEMMA PendingReach ==
    ASSUME NEW ds \in Seq(Page), NEW p \in Nat, NEW q \in Nat, p < q,
           NEW revision, NEW eligible, PagesFit(ds, q, revision, eligible),
           Chain(EndingAfter(ds, p), p, q)
    PROVE  Len(ds) > 0 /\ ds[1].start <= p
<1> DEFINE pending == EndingAfter(ds, p)
<1>1. Len(ds) \in Nat /\ \A k \in 1..Len(ds) : ds[k].start \in Nat /\ ds[k].end \in Nat
  BY PagesOf
<1>2. PICK from \in 1..Len(ds) + 1 : pending = SubSeq(ds, from, Len(ds))
  BY EndingAfterIsSuffix
<1>3. /\ Len(pending) = Len(ds) - from + 1
      /\ \A i \in 1..Len(ds) - from + 1 : pending[i] = ds[from + i - 1]
  BY <1>2, SuffixPages
<1> HIDE DEF pending
<1>4. pending # <<>> /\ pending[1].start = p
  BY DEF Chain, pending
<1>5. from \in 1..Len(ds) /\ Len(ds) > 0
  <2> SUFFICES ASSUME from = Len(ds) + 1 PROVE FALSE
    BY <1>1
  <2>1. Len(pending) = 0 /\ pending \in Seq(Page)
    BY <1>1, <1>2, <1>3, SuffixPages
  <2> QED
    BY <1>4, <2>1, EmptySeq
<1>6. pending[1] = ds[from]
  <2>1. 1 \in 1..Len(ds) - from + 1 /\ from + 1 - 1 = from
    BY <1>1, <1>5
  <2> QED
    BY <1>3, <2>1
<1>7. ds[1].start <= ds[from].start
  <2>1. from > 1 => ds[1].start < ds[1].end /\ ds[1].end <= ds[from].start
    BY <1>1, <1>5 DEF PagesFit, PageFits
  <2> QED
    BY <1>1, <1>5, <2>1
<1> QED
  BY <1>4, <1>5, <1>6, <1>7

\* The rows of the pages from a position on are back at the head of the queue; a
\* card that its reader had received by then stays open.
LEMMA RecoverSound ==
    ASSUME NEW v \in Nat, NEW st, Sound(st, v), NEW accepted \in Progress \cup {None},
           accepted # None => Recoverable(st, accepted)
    PROVE  /\ Sound(Recover(st, accepted), v)
           /\ \A card \in st.eligible :
                (accepted # None => card.end <= accepted.position) =>
                  card \in Recover(st, accepted).eligible
<1>0. st \in Session /\ Conserved(st) /\ Replayable(st) /\ InForce(st, v)
  BY DEF Sound
<1>1. CASE accepted = None
  BY <1>1 DEF Recover
<1>2. CASE accepted # None
  <2> DEFINE p == accepted.position
             q == st.position
             ds == st.deliveries
             rows == RowsBetween(ds, p, q)
             queue == rows \o st.queue
             open == {card \in st.eligible : card.article \notin Articles(rows)}
             new == Recover(st, accepted)
  <2>1. /\ p \in Nat /\ q \in Nat /\ p <= q /\ ds \in Seq(Page) /\ st.queue \in Seq(Row)
        /\ st.revision \in Nat /\ st.eligible \in SUBSET Card
        /\ Chain(EndingAfter(ds, p), p, q)
    BY <1>0, <1>2, SessionOf, ArticleAssumption, FS_CardinalityType DEF Progress, Recoverable
  <2>2. /\ PagesFit(ds, q, st.revision, st.eligible)
        /\ \A card, other \in st.eligible : card.article = other.article => card = other
    BY <1>0 DEF Replayable, Conserved
  <2>3. new = [st EXCEPT !.queue = queue, !.eligible = open, !.position = p, !.deliveries = <<>>]
    <3> HIDE DEF rows, p
    <3> QED
      BY <1>0, <1>2 DEF Recover, Session, rows, p
  <2>4. /\ rows \in Seq(Row) /\ Len(rows) = q - p /\ Distinct(rows)
        /\ \A i \in 1..q - p : \E k \in 1..Len(ds) : \E j \in 1..Len(ds[k].rows) :
             rows[i] = ds[k].rows[j] /\ p < ds[k].end
    <3> DEFINE revision == st.revision
               eligible == st.eligible
    <3>1. /\ PagesFit(ds, q, revision, eligible) /\ revision \in Nat /\ eligible \in SUBSET Card
          /\ OneCardEach(eligible)
      BY <2>1, <2>2 DEF OneCardEach
    <3> HIDE DEF p, q, ds, revision, eligible
    <3>2. Reach(ds, p, q)
      BY <2>1, <3>1, PendingReach DEF Reach
    <3>3. /\ p \in Nat /\ q \in Nat /\ p <= q /\ ds \in Seq(Page)
      BY <2>1
    <3>4. /\ RowsBetween(ds, p, q) \in Seq(Row) /\ Len(RowsBetween(ds, p, q)) = q - p
          /\ Distinct(RowsBetween(ds, p, q))
          /\ \A i \in 1..q - p : \E k \in 1..Len(ds) : \E j \in 1..Len(ds[k].rows) :
               RowsBetween(ds, p, q)[i] = ds[k].rows[j] /\ p < ds[k].end
      BY <3>1, <3>2, <3>3, RowsBetweenFits
    <3> QED
      BY <3>4
  <2>5. ASSUME NEW i \in 1..q - p
        PROVE  \E card \in st.eligible : card.article = rows[i].article /\ p < card.end
    <3>1. PICK k \in 1..Len(ds) : \E j \in 1..Len(ds[k].rows) : rows[i] = ds[k].rows[j] /\ p < ds[k].end
      BY <2>4
    <3>2. PICK j \in 1..Len(ds[k].rows) : rows[i] = ds[k].rows[j]
      BY <3>1
    <3>3. [article |-> ds[k].rows[j].article, end |-> ds[k].end] \in st.eligible
      BY <2>2 DEF PagesFit, PageFits
    <3> DEFINE card == [article |-> ds[k].rows[j].article, end |-> ds[k].end]
    <3>4. card.article = rows[i].article /\ p < card.end
      BY <3>1, <3>2
    <3> HIDE DEF card
    <3> QED
      BY <3>3, <3>4 DEF card
  <2>6. \A a \in Articles(rows) : \E card \in st.eligible : card.article = a /\ p < card.end
    <3>1. Articles(rows) = {rows[i].article : i \in 1..Len(rows)}
      BY <2>4, ArticlesOf
    <3> HIDE DEF rows, p, q
    <3> QED
      BY <2>4, <2>5, <3>1
  <2> HIDE DEF rows
  <2>7. /\ Articles(st.queue) \cup OpenTo(st) \cup st.given = Arrived(st)
        /\ Articles(st.queue) \cap (OpenTo(st) \cup st.given) = {}
        /\ OpenTo(st) \cap st.given = {} /\ Distinct(st.queue)
        /\ \A i, j \in 1..Len(st.items) : st.items[i] = st.items[j] => i = j
        /\ st.source <= Len(st.items) /\ q + Len(st.queue) = st.source
    BY <1>0 DEF Conserved
  <2>8. Articles(rows) \subseteq OpenTo(st)
    BY <2>6 DEF OpenTo
  <2>9. /\ queue \in Seq(Row) /\ Len(queue) = Len(rows) + Len(st.queue)
        /\ Articles(queue) = Articles(rows) \cup Articles(st.queue)
        /\ \A i \in 1..Len(queue) : \/ \E j \in 1..Len(rows) : queue[i] = rows[j]
                                    \/ \E j \in 1..Len(st.queue) : queue[i] = st.queue[j]
        /\ Distinct(queue)
    <3>1. Articles(rows) \cap Articles(st.queue) = {}
      BY <2>7, <2>8
    <3> DEFINE waiting == st.queue
    <3>2. rows \in Seq(Row) /\ waiting \in Seq(Row) /\ Distinct(rows) /\ Distinct(waiting)
      BY <2>1, <2>4, <2>7
    <3> HIDE DEF waiting
    <3>3. Articles(rows) \cap Articles(waiting) = {}
      BY <3>1 DEF waiting
    <3>4. /\ rows \o waiting \in Seq(Row) /\ Len(rows \o waiting) = Len(rows) + Len(waiting)
          /\ Articles(rows \o waiting) = Articles(rows) \cup Articles(waiting)
          /\ \A i \in 1..Len(rows \o waiting) :
               \/ \E j \in 1..Len(rows) : (rows \o waiting)[i] = rows[j]
               \/ \E j \in 1..Len(waiting) : (rows \o waiting)[i] = waiting[j]
          /\ Distinct(rows \o waiting)
      BY <3>2, <3>3, Joined
    <3> QED
      BY <3>4 DEF waiting
  <2>10. /\ open \in SUBSET Card /\ open \subseteq st.eligible
    BY <2>1
  <2> HIDE DEF queue, new
  <2>11. /\ new \in Session /\ new.queue = queue /\ new.eligible = open /\ new.position = p
         /\ new.deliveries = <<>> /\ new.items = st.items /\ new.source = st.source
         /\ new.revision = st.revision /\ new.version = st.version
         /\ new.replay = st.replay /\ new.given = st.given
    <3> HIDE DEF open, p
    <3>1. <<>> \in Seq(Page)
      OBVIOUS
    <3> QED
      BY <1>0, <2>1, <2>3, <2>9, <2>10, <3>1 DEF Session
  <2>12. OpenTo(new) = OpenTo(st) \ Articles(rows)
    BY <2>11 DEF OpenTo
  <2>13. Conserved(new)
    <3>1. /\ Articles(queue) \cup OpenTo(new) \cup st.given = Arrived(st)
          /\ Articles(queue) \cap (OpenTo(new) \cup st.given) = {}
          /\ OpenTo(new) \cap st.given = {}
      BY <2>7, <2>8, <2>9, <2>12
    <3>2. Arrived(new) = Arrived(st)
      BY <2>11 DEF Arrived
    <3>3. p + Len(queue) = st.source
      <4> DEFINE r == Len(rows)
                 l == Len(st.queue)
                 m == st.source
      <4>1. l \in Nat /\ r = q - p /\ q + l = m /\ Len(queue) = r + l
        BY <2>1, <2>4, <2>7, <2>9, LenProperties
      <4> HIDE DEF r, l, m, p, q
      <4>2. p + Len(queue) = m
        BY <2>1, <4>1
      <4> QED
        BY <4>2 DEF m
    <3>4. \A card, other \in open : card.article = other.article => card = other
      BY <2>2
    <3> HIDE DEF open
    <3> QED
      BY <2>7, <2>9, <2>11, <3>1, <3>2, <3>3, <3>4 DEF Conserved
  <2>14. Replayable(new)
    <3>1. Len(new.deliveries) = 0
      BY <2>11
    <3> QED
      BY <3>1 DEF Replayable, PagesFit
  <2>15. InForce(new, v)
    <3>1. /\ st.version <= v /\ st.replay.version <= v
          /\ \A i \in 1..Len(st.queue) : RowInForce(st.queue[i], st, v)
          /\ \A k \in 1..Len(ds) : \A j \in 1..Len(ds[k].rows) : RowInForce(ds[k].rows[j], st, v)
      BY <1>0 DEF InForce
    <3>2. \A j \in 1..Len(rows) : RowInForce(rows[j], st, v)
      <4> HIDE DEF p, q, ds
      <4> QED
        BY <2>4, <3>1
    <3>3. \A i \in 1..Len(queue) : RowInForce(queue[i], st, v)
      BY <2>9, <3>1, <3>2
    <3>4. Len(new.deliveries) = 0
      BY <2>11
    <3> QED
      BY <2>11, <3>1, <3>3, <3>4 DEF InForce, RowInForce
  <2>16. ASSUME NEW card \in st.eligible, card.end <= p PROVE card \in new.eligible
    <3>1. ASSUME card.article \in Articles(rows) PROVE FALSE
      <4>1. PICK other \in st.eligible : other.article = card.article /\ p < other.end
        BY <2>6, <3>1
      <4>2. card = other
        BY <2>2, <4>1
      <4>3. card.end \in Nat
        BY <2>1 DEF Card
      <4> HIDE DEF p
      <4> QED
        BY <2>1, <2>16, <4>1, <4>2, <4>3
    <3> QED
      BY <2>11, <3>1
  <2> QED
    BY <1>2, <2>11, <2>13, <2>14, <2>15, <2>16 DEF Sound, new
<1> QED
  BY <1>1, <1>2

LEMMA TakenSound ==
    ASSUME NEW v \in Nat, NEW st, Sound(st, v), NEW req \in FeedbackRequest, Matches(st, req)
    PROVE  Sound(Taken(st, req), v) /\ Taken(st, req).deliveries = <<>>
<1> DEFINE old == Recover(st, req.accepted)
           a == req.article
           open == {card \in old.eligible : card.article # a}
           given == old.given \cup {a}
           new == Taken(st, req)
<1>1. a \in Article /\ req.accepted \in Progress \cup {None}
  BY DEF FeedbackRequest
<1>2. /\ Sound(old, v)
      /\ \A card \in st.eligible :
           (req.accepted # None => card.end <= req.accepted.position) => card \in old.eligible
  BY <1>1, RecoverSound DEF Matches
<1>3. a \in OpenTo(old)
  <2>1. PICK card \in st.eligible :
          card.article = a /\ (req.accepted # None => card.end <= req.accepted.position)
    BY DEF Matches
  <2>2. card \in old.eligible
    BY <1>2, <2>1
  <2> HIDE DEF old
  <2> QED
    BY <2>1, <2>2 DEF OpenTo
<1>4. new = [old EXCEPT !.eligible = open, !.given = given, !.deliveries = <<>>,
                        !.revision = old.revision + 1]
  <2>1. old \in Session
    BY <1>2 DEF Sound
  <2> HIDE DEF old
  <2> QED
    BY <2>1 DEF Taken, Session, old
<1> HIDE DEF new, old
<1>5. /\ old \in Session /\ Conserved(old) /\ InForce(old, v)
      /\ old.revision \in Nat /\ old.eligible \in SUBSET Card /\ old.given \in SUBSET Article
  BY <1>2, SessionOf DEF Sound
<1>6. /\ new \in Session /\ new.eligible = open /\ new.given = given /\ new.deliveries = <<>>
      /\ new.queue = old.queue /\ new.position = old.position /\ new.items = old.items
      /\ new.source = old.source /\ new.version = old.version /\ new.replay = old.replay
  <2>1. /\ open \in SUBSET Card /\ given \in SUBSET Article /\ <<>> \in Seq(Page)
        /\ old.revision + 1 \in Nat
    BY <1>1, <1>5
  <2> HIDE DEF open, given
  <2> QED
    BY <1>4, <1>5, <2>1 DEF Session
<1>7. OpenTo(new) = OpenTo(old) \ {a}
  BY <1>6 DEF OpenTo
<1>8. Conserved(new)
  <2>1. /\ Articles(old.queue) \cup OpenTo(old) \cup old.given = Arrived(old)
        /\ Articles(old.queue) \cap (OpenTo(old) \cup old.given) = {}
        /\ OpenTo(old) \cap old.given = {}
        /\ \A card, other \in old.eligible : card.article = other.article => card = other
    BY <1>5 DEF Conserved
  <2>2. /\ Articles(new.queue) \cup OpenTo(new) \cup given = Arrived(old)
        /\ Articles(new.queue) \cap (OpenTo(new) \cup given) = {}
        /\ OpenTo(new) \cap given = {}
    BY <1>3, <1>6, <1>7, <2>1
  <2>3. Arrived(new) = Arrived(old)
    BY <1>6 DEF Arrived
  <2>4. \A card, other \in open : card.article = other.article => card = other
    BY <2>1
  <2>5. /\ \A i, j \in 1..Len(old.items) : old.items[i] = old.items[j] => i = j
        /\ old.source <= Len(old.items) /\ old.position + Len(old.queue) = old.source
        /\ Distinct(old.queue)
    BY <1>5 DEF Conserved
  <2> HIDE DEF open, given
  <2> QED
    BY <1>6, <2>2, <2>3, <2>4, <2>5 DEF Conserved
<1>9. Replayable(new)
  <2>1. Len(new.deliveries) = 0
    BY <1>6
  <2> QED
    BY <2>1 DEF Replayable, PagesFit
<1>10. InForce(new, v)
  <2>1. Len(new.deliveries) = 0
    BY <1>6
  <2> QED
    BY <1>5, <1>6, <2>1 DEF InForce, RowInForce
<1> QED
  BY <1>6, <1>8, <1>9, <1>10 DEF Sound, new

\* A row that is ranked anew, or keeps the proofs of the rules in force.
Renewed(row, changed, v) == IF row \in changed THEN [row EXCEPT !.under = v] ELSE row

LEMMA RenewedRow ==
    ASSUME NEW row \in Row, NEW changed, NEW v \in Nat
    PROVE  /\ Renewed(row, changed, v) \in Row
           /\ Renewed(row, changed, v).article = row.article
           /\ row \in changed \/ row.under = v => Renewed(row, changed, v).under = v
BY DEF Renewed, Row

LEMMA RankedAnew ==
    ASSUME NEW queue \in Seq(Row), Distinct(queue), NEW v \in Nat, NEW changed,
           \A i \in 1..Len(queue) : queue[i] \in changed \/ queue[i].under = v,
           NEW ranked \in SetToSeqs({Renewed(r, changed, v) : r \in ToSet(queue)})
    PROVE  /\ ranked \in Seq(Row) /\ Len(ranked) = Len(queue) /\ Distinct(ranked)
           /\ Articles(ranked) = Articles(queue)
           /\ \A i \in 1..Len(ranked) : ranked[i].under = v
<1> DEFINE rows == ToSet(queue)
           new(r) == Renewed(r, changed, v)
           all == {new(r) : r \in rows}
<1>0. /\ Len(queue) \in Nat /\ rows = {queue[i] : i \in 1..Len(queue)}
      /\ \A i \in 1..Len(queue) : queue[i] \in Row
  <2>1. queue \in [1..Len(queue) -> Row] /\ DOMAIN queue = 1..Len(queue) /\ Len(queue) \in Nat
    BY LenProperties
  <2> QED
    BY <2>1 DEF ToSet
<1>1. \A r \in rows : /\ r \in Row /\ (r \in changed \/ r.under = v)
                      /\ \A o \in rows : r.article = o.article => r = o
  BY <1>0 DEF Distinct
<1> HIDE DEF rows, new
<1>2. \A r \in rows : new(r) \in Row /\ new(r).article = r.article /\ new(r).under = v
  BY <1>1, RenewedRow DEF new
<1>3. \A x \in all : x \in Row /\ x.under = v /\ \E r \in rows : x = new(r) /\ x.article = r.article
  BY <1>2
<1>4. \A x, y \in all : x.article = y.article => x = y
  <2> SUFFICES ASSUME NEW x \in all, NEW y \in all, x.article = y.article PROVE x = y
    OBVIOUS
  <2>1. PICK r \in rows : x = new(r) /\ x.article = r.article
    BY <1>3
  <2>2. PICK o \in rows : y = new(o) /\ y.article = o.article
    BY <1>3
  <2>3. r = o
    BY <1>1, <2>1, <2>2
  <2> QED
    BY <2>1, <2>2, <2>3
<1>5. IsFiniteSet(all)
  <2>0. Len(queue) \in Int
    BY <1>0
  <2>1. IsFiniteSet(1..Len(queue))
    BY <2>0, FS_Interval
  <2> DEFINE f == [i \in 1..Len(queue) |-> new(queue[i])]
  <2>2. f \in Surjection(1..Len(queue), all)
    <3>1. f \in [1..Len(queue) -> all]
      BY <1>0
    <3>2. \A x \in all : \E i \in 1..Len(queue) : f[i] = x
      BY <1>0
    <3> HIDE DEF f, all
    <3> QED
      BY <3>1, <3>2, Fun_IsSurj
  <2> HIDE DEF f, all
  <2> QED
    BY <2>1, <2>2, FS_Surjection
<1>6. ranked \in SetToSeqs(all)
  BY DEF new, rows
<1>7. all \subseteq Row /\ {x.article : x \in all} = {r.article : r \in rows}
  <2>1. \A r \in rows : new(r) \in all /\ new(r).article = r.article
    BY <1>2
  <2>2. \A x \in all : x \in Row /\ \E r \in rows : x.article = r.article
    BY <1>3
  <2> HIDE DEF all
  <2> QED
    BY <2>1, <2>2
<1> HIDE DEF all
<1>8. /\ ranked \in Seq(all) /\ ToSet(ranked) = all
      /\ \A i, j \in 1..Len(ranked) : ranked[i] = ranked[j] => i = j
  BY <1>5, <1>6, Rankings
<1>9. ranked \in Seq(Row) /\ \A i \in 1..Len(ranked) : ranked[i] \in all
  BY <1>7, <1>8, ElementOfSeq
<1>10. Distinct(ranked)
  BY <1>4, <1>8, <1>9 DEF Distinct
<1>11. Articles(ranked) = Articles(queue)
  BY <1>7, <1>8 DEF Articles, rows
<1>12. Len(ranked) = Len(queue)
  BY <1>9, <1>10, <1>11, DistinctCount
<1>13. \A i \in 1..Len(ranked) : ranked[i].under = v
  BY <1>3, <1>9
<1> QED
  BY <1>9, <1>10, <1>11, <1>12, <1>13

LEMMA RerankedSound ==
    ASSUME version \in Nat, NEW st, Sound(st, version), st.deliveries = <<>>,
           NEW action, NEW new \in Reranked(st, action)
    PROVE  Sound(new, version)
<1>0. /\ st \in Session /\ Conserved(st) /\ Replayable(st) /\ InForce(st, version)
      /\ st.queue \in Seq(Row) /\ Distinct(st.queue)
  BY SessionOf DEF Sound, Conserved
<1> DEFINE rows == ToSet(st.queue)
           queue == st.queue
<1>1. rows = {queue[i] : i \in 1..Len(queue)} /\ Articles(queue) = {r.article : r \in rows}
  <2>1. DOMAIN queue = 1..Len(queue)
    BY <1>0, LenProperties
  <2> QED
    BY <2>1 DEF ToSet, Articles
<1>2. PICK changed \in IF Reusable(st, action) THEN SUBSET rows ELSE {rows} :
        \E ranked \in SetToSeqs({Renewed(r, changed, version) : r \in rows}) :
          new = [st EXCEPT !.queue = ranked, !.version = version]
  <2> DEFINE stale == IF Reusable(st, action) THEN SUBSET rows ELSE {rows}
             after(changed) == {Renewed(r, changed, version) : r \in rows}
             ranking == UNION {SetToSeqs(all) : all \in {after(changed) : changed \in stale}}
  <2>1. new \in {[st EXCEPT !.queue = ranked, !.version = version] : ranked \in ranking}
    BY DEF Reranked, Renewed
  <2> HIDE DEF ranking
  <2>2. PICK ranked \in ranking : new = [st EXCEPT !.queue = ranked, !.version = version]
    BY <2>1
  <2> HIDE DEF after, stale
  <2>3. PICK changed \in stale : ranked \in SetToSeqs(after(changed))
    BY DEF ranking
  <2> QED
    BY <2>2, <2>3 DEF after, stale
<1>3. PICK ranked \in SetToSeqs({Renewed(r, changed, version) : r \in ToSet(queue)}) :
        new = [st EXCEPT !.queue = ranked, !.version = version]
  BY <1>2
<1>4. \A i \in 1..Len(queue) : queue[i] \in changed \/ queue[i].under = version
  <2>1. CASE Reusable(st, action)
    <3> SUFFICES ASSUME NEW i \in 1..Len(queue) PROVE queue[i].under = version
      OBVIOUS
    <3>1. queue[i].article \in st.replay.articles
      BY <1>1, <2>1 DEF Reusable
    <3>2. st.replay.version = version
      BY <2>1 DEF Reusable
    <3>3. RowInForce(queue[i], st, version)
      BY <1>0 DEF InForce
    <3>4. queue[i].under \in Nat
      <4>1. queue[i] \in Row
        BY <1>0, ElementOfSeq
      <4> QED
        BY <4>1 DEF Row
    <3> QED
      BY <3>1, <3>2, <3>3, <3>4 DEF RowInForce
  <2>2. CASE ~Reusable(st, action)
    BY <1>1, <1>2, <2>2
  <2> QED
    BY <2>1, <2>2
<1> HIDE DEF rows, queue
<1>5. /\ ranked \in Seq(Row) /\ Len(ranked) = Len(queue) /\ Distinct(ranked)
      /\ Articles(ranked) = Articles(queue)
      /\ \A i \in 1..Len(ranked) : ranked[i].under = version
  <2>1. queue \in Seq(Row) /\ Distinct(queue)
    BY <1>0 DEF queue
  <2> QED
    BY <1>3, <1>4, <2>1, RankedAnew
<1>6. /\ new \in Session /\ new.queue = ranked /\ new.version = version
      /\ new.deliveries = st.deliveries /\ new.position = st.position /\ new.items = st.items
      /\ new.source = st.source /\ new.replay = st.replay /\ new.eligible = st.eligible
      /\ new.given = st.given /\ new.revision = st.revision
  BY <1>0, <1>3, <1>5 DEF Session
<1>7. Conserved(new)
  <2>1. OpenTo(new) = OpenTo(st) /\ Arrived(new) = Arrived(st)
    BY <1>6 DEF OpenTo, Arrived
  <2>2. /\ Len(new.queue) = Len(st.queue) /\ Distinct(new.queue)
        /\ Articles(new.queue) = Articles(st.queue)
    BY <1>5, <1>6 DEF queue
  <2> QED
    BY <1>0, <1>6, <2>1, <2>2 DEF Conserved
<1>8. Replayable(new)
  BY <1>0, <1>6 DEF Replayable
<1>9. InForce(new, version)
  <2>1. Len(new.deliveries) = 0
    BY <1>6
  <2>2. st.replay.version <= version
    BY <1>0 DEF InForce
  <2> QED
    BY <1>5, <1>6, <2>1, <2>2 DEF InForce, RowInForce
<1> QED
  BY <1>6, <1>7, <1>8, <1>9 DEF Sound

-----------------------------------------------------------------------------
(* Steps                                                                   *)

LEMMA StoreInv ==
    ASSUME FeedInv, NEW id \in SessionId, NEW st, Sound(st, version),
           sessions' = [sessions EXCEPT ![id] = st], version' = version,
           created' \in 0..MaxSessions, recorded' \in Nat, history' \in SUBSET Article
    PROVE  FeedInv'
<1>1. sessions \in [SessionId -> Session \cup {None}] /\ version \in Nat /\ st \in Session
  BY DEF FeedInv, FeedTypeOK, Sound
<1>2. sessions' \in [SessionId -> Session \cup {None}]
  BY <1>1
<1>3. ASSUME NEW s \in SessionId, sessions'[s] # None PROVE Sound(sessions'[s], version')
  <2>1. CASE s = id
    <3>1. sessions'[s] = st
      BY <1>1, <2>1
    <3> QED
      BY <3>1
  <2>2. CASE s # id
    <3>1. sessions'[s] = sessions[s]
      BY <1>1, <2>2
    <3>2. Sound(sessions[s], version)
      BY <1>3, <3>1 DEF FeedInv
    <3> QED
      BY <3>1, <3>2
  <2> QED
    BY <2>1, <2>2
<1> QED
  BY <1>1, <1>2, <1>3 DEF FeedInv, FeedTypeOK

LEMMA FeedPageInv ==
    ASSUME FeedInv, NEW req \in PageRequest, Accepts(req),
           PageFails(req) \/ \E st \in PageOutcomes(req) : FeedPage(req, st)
    PROVE  FeedInv'
<1>1. /\ Sound(Opened(req), version) /\ Opened(req).version = version
      /\ OpenedId(req) \in SessionId
  BY OpenedSound
<1>2. version \in Nat /\ created \in 0..MaxSessions /\ recorded \in Nat /\ history \in SUBSET Article
  BY DEF FeedInv, FeedTypeOK
<1>3. req.limit \in Nat \ {0}
  BY SizeAssumption DEF PageRequest
<1>4. ASSUME NEW st, Sound(st, version), Store(OpenedId(req), st),
             UNCHANGED <<version, history, recorded>>
      PROVE  FeedInv'
  <2>1. created' \in 0..MaxSessions
    BY <1>1, <1>2, <1>4, FeedBoundAssumption DEF Store, Larger, SessionId
  <2>2. sessions' = [sessions EXCEPT ![OpenedId(req)] = st]
    BY <1>4 DEF Store
  <2>3. version' = version /\ recorded' \in Nat /\ history' \in SUBSET Article
    BY <1>2, <1>4
  <2> QED
    BY <1>1, <1>4, <2>1, <2>2, <2>3, StoreInv
<1>5. CASE PageFails(req)
  BY <1>1, <1>4, <1>5 DEF PageFails
<1>6. ASSUME NEW st \in PageOutcomes(req), FeedPage(req, st) PROVE FeedInv'
  <2>1. PICK old \in Arrivals(Opened(req), req.limit) : st = Deliver(old, req.limit)
    BY DEF PageOutcomes
  <2>2. Sound(old, version)
    BY <1>1, <1>2, <1>3, ArrivalsSound
  <2>3. Sound(st, version)
    BY <1>2, <1>3, <2>1, <2>2, DeliverSound
  <2> QED
    BY <1>4, <1>6, <2>3 DEF FeedPage
<1> QED
  BY <1>5, <1>6

LEMMA FeedbackInv ==
    ASSUME FeedInv, NEW req \in FeedbackRequest, Matches(Found(req.session), req),
           \/ ProvenanceFails(req) \/ RerankFails(req)
           \/ \E st \in FeedbackOutcomes(req) : Feedback(req, st)
    PROVE  FeedInv'
<1> DEFINE id == req.session
           old == sessions[id]
<1>0. /\ version \in Nat /\ created \in 0..MaxSessions /\ recorded \in Nat
      /\ history \in SUBSET Article /\ sessions \in [SessionId -> Session \cup {None}]
  BY DEF FeedInv, FeedTypeOK
<1>1. /\ id \in SessionId /\ req.article \in Article /\ req.accepted \in Progress \cup {None}
  BY DEF FeedbackRequest
<1>2. Found(id) = old /\ old # None
  BY DEF Matches, Found
<1>3. Sound(old, version)
  BY <1>1, <1>2 DEF FeedInv
<1>4. Matches(old, req)
  BY <1>2
<1> HIDE DEF old
<1>5. Sound(Taken(old, req), version) /\ Taken(old, req).deliveries = <<>>
  BY <1>0, <1>3, <1>4, TakenSound
<1>6. ASSUME NEW st, Sound(st, version), sessions' = [sessions EXCEPT ![id] = st], Profile(req)
      PROVE  FeedInv'
  <2>1. /\ version' = version /\ created' \in 0..MaxSessions /\ recorded' \in Nat
        /\ history' \in SUBSET Article
    BY <1>0, <1>1, <1>6 DEF Profile
  <2> HIDE DEF id
  <2> QED
    BY <1>1, <1>6, <2>1, StoreInv
<1>7. CASE ProvenanceFails(req)
  <2>1. Sound(Recover(old, req.accepted), version)
    BY <1>0, <1>1, <1>3, <1>4, RecoverSound DEF Matches
  <2>2. /\ sessions' = [sessions EXCEPT ![id] = Recover(old, req.accepted)]
        /\ version' = version /\ created' \in 0..MaxSessions /\ recorded' \in Nat
        /\ history' \in SUBSET Article
    BY <1>0, <1>7 DEF ProvenanceFails, old
  <2> HIDE DEF id
  <2> QED
    BY <1>1, <2>1, <2>2, StoreInv
<1>8. CASE RerankFails(req)
  <2>1. sessions' = [sessions EXCEPT ![id] = Taken(old, req)] /\ Profile(req)
    BY <1>8 DEF RerankFails, old
  <2> QED
    BY <1>5, <1>6, <2>1
<1>9. ASSUME NEW st \in FeedbackOutcomes(req), Feedback(req, st) PROVE FeedInv'
  <2>1. st \in Reranked(Taken(old, req), req.action)
    BY <1>2, <1>4 DEF FeedbackOutcomes
  <2>2. Sound(st, version)
    BY <1>0, <1>5, <2>1, RerankedSound
  <2> QED
    BY <1>6, <1>9, <2>2 DEF Feedback
<1> QED
  BY <1>7, <1>8, <1>9

\* The sessions keep the rows of older rules, and only those.
LEMMA NewRulesInv ==
    ASSUME FeedInv, NewRules
    PROVE  FeedInv'
<1>1. version \in Nat /\ version' = version + 1 /\ sessions' = sessions
  BY DEF FeedInv, FeedTypeOK, NewRules
<1>2. FeedTypeOK'
  BY DEF FeedInv, FeedTypeOK, NewRules
<1>3. ASSUME NEW st, Sound(st, version) PROVE Sound(st, version + 1)
  <2>1. /\ st \in Session /\ st.version <= version /\ st.replay.version <= version
        /\ \A i \in 1..Len(st.queue) : RowInForce(st.queue[i], st, version)
        /\ \A k \in 1..Len(st.deliveries) : \A i \in 1..Len(st.deliveries[k].rows) :
             RowInForce(st.deliveries[k].rows[i], st, version)
    BY <1>3 DEF Sound, InForce
  <2>2. st.version \in Nat /\ st.replay.version \in Nat
    BY <2>1, SessionOf
  <2>3. ASSUME NEW row \in Row, RowInForce(row, st, version) PROVE RowInForce(row, st, version + 1)
    <3>1. row.under \in Nat
      BY DEF Row
    <3> QED
      BY <1>1, <2>1, <2>2, <2>3, <3>1 DEF RowInForce
  <2>4. /\ \A i \in 1..Len(st.queue) : st.queue[i] \in Row
        /\ \A k \in 1..Len(st.deliveries) : \A i \in 1..Len(st.deliveries[k].rows) :
             st.deliveries[k].rows[i] \in Row
    <3>1. st.queue \in Seq(Row) /\ st.deliveries \in Seq(Page)
      BY <2>1, SessionOf
    <3>2. \A k \in 1..Len(st.deliveries) : st.deliveries[k].rows \in Seq(Row)
      BY <3>1, PagesOf
    <3> QED
      BY <3>1, <3>2, ElementOfSeq
  <2>5. st.version <= version + 1 /\ st.replay.version <= version + 1
    BY <1>1, <2>1, <2>2
  <2>6. InForce(st, version + 1)
    BY <2>1, <2>3, <2>4, <2>5 DEF InForce
  <2> QED
    BY <1>3, <2>6 DEF Sound
<1>4. \A s \in SessionId : sessions[s] # None => Sound(sessions[s], version + 1)
  BY <1>3 DEF FeedInv
<1> QED
  BY <1>1, <1>2, <1>4 DEF FeedInv

LEMMA ForgetInv ==
    ASSUME FeedInv, NEW s \in SessionId, Forget(s)
    PROVE  FeedInv'
<1>1. /\ sessions \in [SessionId -> Session \cup {None}]
      /\ sessions' = [sessions EXCEPT ![s] = None] /\ version' = version
  BY DEF FeedInv, FeedTypeOK, Forget
<1>2. FeedTypeOK'
  BY <1>1 DEF FeedInv, FeedTypeOK, Forget
<1>3. \A r \in SessionId : sessions'[r] # None => sessions'[r] = sessions[r]
  BY <1>1
<1>4. ASSUME NEW r \in SessionId, sessions'[r] # None PROVE Sound(sessions'[r], version')
  <2>1. sessions'[r] = sessions[r] /\ sessions[r] # None
    BY <1>3, <1>4
  <2>2. Sound(sessions[r], version)
    BY <2>1 DEF FeedInv
  <2> QED
    BY <1>1, <2>1, <2>2
<1> QED
  BY <1>2, <1>4 DEF FeedInv

LEMMA FeedInitInv == FeedInit => FeedInv
BY FeedBoundAssumption DEF FeedInit, FeedInv, FeedTypeOK

LEMMA FeedNextInv == FeedInv /\ [FeedNext]_feedVars => FeedInv'
<1> SUFFICES ASSUME FeedInv, [FeedNext]_feedVars PROVE FeedInv'
  OBVIOUS
<1>1. ASSUME NEW req \in {r \in PageRequest : Accepts(r)},
             PageFails(req) \/ \E st \in PageOutcomes(req) : FeedPage(req, st)
      PROVE  FeedInv'
  BY <1>1, FeedPageInv
<1>2. ASSUME NEW req \in {r \in FeedbackRequest : Matches(Found(r.session), r)},
             \/ ProvenanceFails(req) \/ RerankFails(req)
             \/ \E st \in FeedbackOutcomes(req) : Feedback(req, st)
      PROVE  FeedInv'
  BY <1>2, FeedbackInv
<1>3. CASE NewRules
  BY <1>3, NewRulesInv
<1>4. ASSUME NEW s \in SessionId, Forget(s) PROVE FeedInv'
  BY <1>4, ForgetInv
<1>5. CASE UNCHANGED feedVars
  BY <1>5 DEF FeedInv, FeedTypeOK, feedVars
<1> QED
  BY <1>1, <1>2, <1>3, <1>4, <1>5 DEF FeedNext

-----------------------------------------------------------------------------
\* The invariant holds of every session in every behaviour.
THEOREM FeedInvHolds == FeedSpec => []FeedInv
<1>1. FeedInit => FeedInv
  BY FeedInitInv
<1>2. FeedInv /\ [FeedNext]_feedVars => FeedInv'
  BY FeedNextInv
<1> QED
  BY <1>1, <1>2, PTL DEF FeedSpec

\* Sessions hold rows of articles with the version that ranked them, pages of such
\* rows, and the articles that received feedback.
THEOREM FeedTypeCorrect == FeedSpec => []FeedTypeOK
<1>1. FeedInv => FeedTypeOK
  BY DEF FeedInv
<1> QED
  BY <1>1, FeedInvHolds, PTL

\* feed_page and event lose no article and offer none twice: every one that arrived
\* waits, is open to feedback or has received it, whatever was lost and recovered.
THEOREM FeedRowsConserved == FeedSpec => []RowsConserved
<1>1. FeedInv => RowsConserved
  <2> SUFFICES ASSUME FeedInv, NEW s \in Live
               PROVE  LET st == sessions[s]
                          waiting == Articles(st.queue)
                          open == {card.article : card \in st.eligible}
                      IN  /\ st.position + Len(st.queue) = st.source
                          /\ Cardinality(waiting) = Len(st.queue)
                          /\ waiting \cup open \cup st.given = Arrived(st)
                          /\ waiting \cap (open \cup st.given) = {}
                          /\ open \cap st.given = {}
    BY DEF RowsConserved
  <2> DEFINE st == sessions[s]
  <2>1. Sound(st, version)
    BY DEF FeedInv, Live
  <2> HIDE DEF st
  <2>2. st \in Session /\ Conserved(st)
    BY <2>1 DEF Sound
  <2>3. Cardinality(Articles(st.queue)) = Len(st.queue)
    BY <2>2, SessionOf, DistinctCount DEF Conserved
  <2>4. /\ st.position + Len(st.queue) = st.source
        /\ Articles(st.queue) \cup OpenTo(st) \cup st.given = Arrived(st)
        /\ Articles(st.queue) \cap (OpenTo(st) \cup st.given) = {}
        /\ OpenTo(st) \cap st.given = {}
    BY <2>2 DEF Conserved
  <2> QED
    BY <2>3, <2>4 DEF OpenTo, st
<1> QED
  BY <1>1, FeedInvHolds, PTL

\* _record_feed_delivery and _acknowledge_feed_deliveries: the pages retained lead
\* without a gap to the session's position, with their rows and their cards.
THEOREM FeedDeliveriesReplayable == FeedSpec => []DeliveriesReplayable
<1>1. FeedInv => DeliveriesReplayable
  <2> SUFFICES ASSUME FeedInv, NEW s \in Live
               PROVE  LET st == sessions[s] ds == sessions[s].deliveries
                      IN  /\ ds # <<>> => Chain(ds, ds[1].start, st.position)
                          /\ \A i \in DOMAIN ds :
                              /\ ds[i].revision = st.revision
                              /\ Len(ds[i].rows) = ds[i].end - ds[i].start
                              /\ \A a \in Articles(ds[i].rows) :
                                  [article |-> a, end |-> ds[i].end] \in st.eligible
    BY DEF DeliveriesReplayable
  <2> DEFINE st == sessions[s]
             ds == st.deliveries
  <2>1. Sound(st, version)
    BY DEF FeedInv, Live
  <2>2. ds \in Seq(Page) /\ PagesFit(ds, st.position, st.revision, st.eligible)
    BY <2>1, SessionOf DEF Sound, Replayable
  <2>3. Len(ds) \in Nat /\ DOMAIN ds = 1..Len(ds)
    BY <2>2, LenProperties
  <2>4. ds # <<>> => Chain(ds, ds[1].start, st.position)
    <3> SUFFICES ASSUME ds # <<>> PROVE Chain(ds, ds[1].start, st.position)
      OBVIOUS
    <3>1. Len(ds) > 0
      BY <2>2, <2>3, EmptySeq
    <3>2. /\ ds[Len(ds)].end = st.position
          /\ \A k \in 1..Len(ds) - 1 : ds[k].end = ds[k + 1].start
      BY <2>2, <3>1 DEF PagesFit
    <3> HIDE DEF ds
    <3> QED
      BY <3>1, <3>2 DEF Chain
  <2>5. ASSUME NEW i \in DOMAIN ds
        PROVE  /\ ds[i].revision = st.revision
               /\ Len(ds[i].rows) = ds[i].end - ds[i].start
               /\ \A a \in Articles(ds[i].rows) :
                    [article |-> a, end |-> ds[i].end] \in st.eligible
    <3>1. i \in 1..Len(ds)
      BY <2>3
    <3>2. PageFits(ds[i], st.revision, st.eligible) /\ ds[i].rows \in Seq(Row)
      BY <2>2, <3>1, PagesOf DEF PagesFit
    <3>3. Articles(ds[i].rows) = {ds[i].rows[j].article : j \in 1..Len(ds[i].rows)}
      BY <3>2, ArticlesOf
    <3> QED
      BY <3>2, <3>3 DEF PageFits
  <2> QED
    BY <2>4, <2>5
<1> QED
  BY <1>1, FeedInvHolds, PTL

\* A session of the version in force has no waiting row that older rules ranked
\* (the promise in feed_page): replayed proofs are of this version or not used.
THEOREM FeedQueueRankedInForce == FeedSpec => []QueueRankedInForce
<1>1. FeedInv => QueueRankedInForce
  <2> SUFFICES ASSUME FeedInv, NEW s \in Live, sessions[s].version = version,
                      NEW row \in ToSet(sessions[s].queue)
               PROVE  row.under = version
    BY DEF QueueRankedInForce
  <2> DEFINE st == sessions[s]
  <2>1. Sound(st, version)
    BY DEF FeedInv, Live
  <2>2. st.queue \in Seq(Row) /\ InForce(st, version)
    BY <2>1, SessionOf DEF Sound
  <2>3. PICK i \in 1..Len(st.queue) : row = st.queue[i]
    <3>1. DOMAIN st.queue = 1..Len(st.queue)
      BY <2>2, LenProperties
    <3> QED
      BY <3>1 DEF ToSet
  <2> QED
    BY <2>2, <2>3 DEF InForce, RowInForce
<1> QED
  BY <1>1, FeedInvHolds, PTL
=============================================================================
