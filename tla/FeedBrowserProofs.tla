--------------------------- MODULE FeedBrowserProofs ---------------------------
(***************************************************************************)
(* Theorems about a tab over an unreliable connection, for any articles,   *)
(* page sizes, limits, rankings, lost answers and late requests.           *)
(*                                                                         *)
(* Every step of the tab and its network is a request to the sessions or   *)
(* leaves them alone, so FeedInv of FeedSessionProofs holds here.  TabInv  *)
(* says what the tab knows of its session while no event has failed: of    *)
(* the pages that the session handed out at most the last is not accepted  *)
(* (Lead), a request that is still on its way is behind what the tab has   *)
(* accepted (Behind), and an answer on its way promises the same.          *)
(***************************************************************************)
EXTENDS FeedBrowser, FeedSessionProofs

-----------------------------------------------------------------------------
(* The tab                                                                 *)

Known == 1..created
ShownCard == [article : Article, session : Known]
Positions == 0..Cardinality(Article)
Revisions == 0..MaxFeedback
Cursor == [session : Known, position : Positions, revision : Revisions] \cup {None}
PageAnswer ==
    [session : Known, cursor : Cursor, articles : SUBSET Article, position : Positions,
     revision : Revisions, version : Nat, reset : BOOLEAN]
Reply ==
    [session : Known, cursor : Cursor, position : Positions, revision : Revisions]
KnownPage == {req \in PageRequest : req.session \in Known \cup {None}}
KnownEvent ==
    [session : Known, named : Known \cup {None}, article : Article, action : {"click", "skip"},
     accepted : Progress]
Scrolls == [answer : PageAnswer \cup {None, Failed}, req : KnownPage] \cup {None}
Posts == [answer : Reply \cup {None, Failed}, req : KnownEvent] \cup {None}

TabTypeOK ==
    /\ feedSession \in Known \cup {None} /\ feedCursor \in Cursor /\ feedHasMore \in BOOLEAN
    /\ feedQueueRevision \in Revisions /\ feedAcceptedPosition \in Positions
    /\ cards \subseteq shown /\ shown \subseteq ShownCard
    /\ scroll \in Scrolls /\ post \in Posts
    /\ dropped \subseteq KnownPage \cup KnownEvent
    /\ failures \in Nat

Counted ==
    /\ recorded <= MaxFeedback
    /\ \A s \in SessionId : sessions[s] # None => sessions[s].revision <= recorded

\* What a session says of the reader that has accepted its pages up to position p at
\* revision r, and was shown the articles in known: at most the last page was not
\* accepted, and later pages only replaced it.
LastPage(st) == st.deliveries[Len(st.deliveries)]
Lead(st, p) ==
    \/ st.position = p /\ \A card \in st.eligible : card.end <= p
    \/ /\ Len(st.deliveries) > 0 /\ LastPage(st).start = p
       /\ \A card \in st.eligible : card.end <= p \/ card.article \in Articles(LastPage(st).rows)
Stands(st, p, r, known) ==
    st # None =>
      /\ r <= st.revision /\ Lead(st, p)
      /\ \A card \in st.eligible : card.end <= p => card.article \in known
Given(st, a, p) ==
    st # None => a \in st.given \/ \E card \in st.eligible : card.article = a /\ card.end <= p
Rest(st) == st # None => st.queue = <<>> /\ st.source = Len(st.items) /\ st.deliveries = <<>>

Asked == (dropped \cap PageRequest) \cup (IF scroll = None THEN {} ELSE {scroll.req})
Behind(asked, s, p, r) ==
    \A req \in asked : req.session = s /\ req.cursor # None =>
        \/ req.cursor.revision < r
        \/ req.cursor.revision = r /\ req.cursor.position <= p
Seen(cs, s) == {card.article : card \in {c \in cs : c.session = s}}
Names(cursor, s, p, r) ==
    cursor # None => cursor = [session |-> s, position |-> p, revision |-> r]

TabStands ==
    /\ Names(feedCursor, feedSession, feedAcceptedPosition, feedQueueRevision)
    /\ feedSession # None =>
         /\ Behind(Asked, feedSession, feedAcceptedPosition, feedQueueRevision)
         /\ Stands(sessions[feedSession], feedAcceptedPosition, feedQueueRevision,
                   Seen(shown, feedSession))
         /\ feedCursor = None /\ feedHasMore /\ post = None => Rest(sessions[feedSession])
         /\ \A card \in cards : card.session = feedSession =>
              Given(sessions[feedSession], card.article, feedAcceptedPosition)

Answered(answer) == answer \notin {None, Failed}
PostAsked ==
    LET req == post.req
        accepted == req.accepted
    IN  /\ feedSession # None =>
             /\ feedSession = req.named
             /\ feedAcceptedPosition = accepted.position
             /\ feedQueueRevision = accepted.revision
        /\ req.session = req.named =>
             /\ Behind(Asked, req.session, accepted.position, accepted.revision)
             /\ Stands(sessions[req.session], accepted.position, accepted.revision,
                       Seen(shown, req.session))
EventStands(req, answer, st) ==
    /\ answer.session = req.session /\ req.session = req.named
    /\ answer.position = req.accepted.position /\ req.accepted.revision <= answer.revision
    /\ st # None => answer.revision <= st.revision
    /\ Names(answer.cursor, answer.session, answer.position, answer.revision)
    /\ answer.cursor = None => Rest(st)
PostStands ==
    post # None =>
      /\ scroll = None /\ PostAsked
      /\ Answered(post.answer) =>
           EventStands(post.req, post.answer, sessions[post.req.session])

PageStands(page, asked, st, known) ==
    /\ Behind(asked, page.session, page.position, page.revision)
    /\ Stands(st, page.position, page.revision, known \cup page.articles)
    /\ Names(page.cursor, page.session, page.position, page.revision)
    /\ \A a \in page.articles : Given(st, a, page.position)
ScrollStands ==
    scroll # None =>
      LET page == scroll.answer
      IN  /\ scroll.req.session \in {None, feedSession}
          /\ Answered(page) =>
               /\ PageStands(page, Asked, sessions[page.session], Seen(shown, page.session))
               /\ \/ page.session = feedSession /\ feedAcceptedPosition <= page.position
                  \/ Seen(shown, page.session) = {}

RequestsStand ==
    /\ \A req \in Asked : req.session # None /\ req.cursor = None => Rest(sessions[req.session])
    /\ \A req \in dropped \ PageRequest : post # None /\ post.answer = Failed /\ req = post.req

TabSound == TabStands /\ PostStands /\ ScrollStands /\ RequestsStand
TabInv == TabTypeOK /\ Counted /\ (failures = 0 => TabSound)

-----------------------------------------------------------------------------
(* Requests                                                                *)

LEMMA KnownIds ==
    ASSUME FeedInv
    PROVE  /\ created \in Nat /\ Known \subseteq SessionId /\ Known \subseteq Nat
           /\ created + 1 \notin Known /\ None \notin Known
           /\ created + 1 <= MaxSessions => created + 1 \in SessionId
BY FeedBoundAssumption, NoneAssumption DEF FeedInv, FeedTypeOK, Known, SessionId

LEMMA KnownPageType ==
    ASSUME NEW req \in KnownPage
    PROVE  /\ req \in PageRequest /\ req.session \in Known \cup {None}
           /\ req.cursor \in Progress \cup {None} /\ req.limit \in Limit
           /\ req.session = None => req.cursor = None
           /\ "limit" \in DOMAIN req /\ "named" \notin DOMAIN req
BY DEF KnownPage, PageRequest

LEMMA KnownEventType ==
    ASSUME NEW req \in KnownEvent
    PROVE  /\ req.session \in Known /\ req.named \in Known \cup {None} /\ req.article \in Article
           /\ req.action \in {"click", "skip"} /\ req.accepted \in Progress
           /\ "named" \in DOMAIN req /\ "limit" \notin DOMAIN req /\ req \notin PageRequest
<1>1. "named" \in DOMAIN req /\ "limit" \notin DOMAIN req
  BY DEF KnownEvent
<1>2. \A x \in PageRequest : "limit" \in DOMAIN x
  BY DEF PageRequest
<1> QED
  BY <1>1, <1>2 DEF KnownEvent

LEMMA ProgressType ==
    ASSUME NEW x \in Progress
    PROVE  /\ x.position \in Positions /\ x.revision \in Revisions
           /\ x.position \in Nat /\ x.revision \in Nat /\ x # None
<1>1. Cardinality(Article) \in Nat /\ MaxFeedback \in Nat
  BY ArticleAssumption, FS_CardinalityType, FeedBoundAssumption
<1>2. x \in FeedCursor
  BY <1>1 DEF Progress, FeedCursor
<1> QED
  BY <1>1, <1>2, NoneAssumption DEF Progress, Positions, Revisions

\* What the sessions see of an event: the session that the reader is in is for event()
\* to compare.
AskedOf(req) == [session |-> req.session, article |-> req.article, action |-> req.action,
                 accepted |-> req.accepted]

LEMMA Projected ==
    ASSUME FeedInv, NEW req \in KnownEvent
    PROVE  /\ AskedOf(req) \in FeedbackRequest
           /\ AskedOf(req).session = req.session /\ AskedOf(req).accepted = req.accepted
           /\ AskedOf(req).article = req.article /\ AskedOf(req).action = req.action
           /\ Matches(Found(AskedOf(req).session), AskedOf(req)) <=> Matches(Found(req.session), req)
           /\ \A st : Taken(st, AskedOf(req)) = Taken(st, req)
           /\ FeedbackOutcomes(AskedOf(req)) = FeedbackOutcomes(req)
           /\ \A st : Feedback(AskedOf(req), st) <=> Feedback(req, st)
           /\ RerankFails(AskedOf(req)) <=> RerankFails(req)
           /\ ProvenanceFails(AskedOf(req)) <=> ProvenanceFails(req)
<1> DEFINE a == AskedOf(req)
<1>1. /\ a.session = req.session /\ a.accepted = req.accepted
      /\ a.article = req.article /\ a.action = req.action
  BY DEF AskedOf
<1>2. a \in FeedbackRequest
  BY KnownIds DEF AskedOf, FeedbackRequest, KnownEvent
<1> HIDE DEF a
<1>3. \A st : Matches(st, a) <=> Matches(st, req)
  BY <1>1 DEF Matches
<1>4. \A st : Taken(st, a) = Taken(st, req)
  BY <1>1 DEF Taken
<1>5. FeedbackOutcomes(a) = FeedbackOutcomes(req)
  BY <1>1, <1>3, <1>4 DEF FeedbackOutcomes
<1>6. Profile(a) <=> Profile(req)
  BY <1>1 DEF Profile
<1>7. \A st : Feedback(a, st) <=> Feedback(req, st)
  BY <1>1, <1>5, <1>6 DEF Feedback
<1>8. RerankFails(a) <=> RerankFails(req)
  BY <1>1, <1>3, <1>4, <1>6 DEF RerankFails
<1>9. ProvenanceFails(a) <=> ProvenanceFails(req)
  BY <1>1, <1>3 DEF ProvenanceFails
<1> QED
  BY <1>1, <1>2, <1>3, <1>4, <1>5, <1>7, <1>8, <1>9 DEF a

\* As many pages as articles, at most.
LEMMA PositionBound ==
    ASSUME NEW v \in Nat, NEW st, Sound(st, v)
    PROVE  st.position \in Positions
<1> DEFINE items == st.items
           S == {items[i] : i \in 1..Len(items)}
<1>1. /\ items \in Seq(Article) /\ st.position \in Nat /\ st.source \in Nat
      /\ Len(st.queue) \in Nat /\ Len(items) \in Nat
      /\ \A i, j \in 1..Len(items) : items[i] = items[j] => i = j
      /\ st.source <= Len(items) /\ st.position + Len(st.queue) = st.source
  BY SessionOf DEF Sound, Conserved
<1> HIDE DEF items
<1>2. items \in [1..Len(items) -> S] /\ S \subseteq Article
  <2>1. items \in [1..Len(items) -> Article]
    BY <1>1, LenProperties
  <2> QED
    BY <2>1
<1>3. items \in Bijection(1..Len(items), S)
  <2>1. \A a \in S : \E i \in 1..Len(items) : items[i] = a
    OBVIOUS
  <2> HIDE DEF S
  <2> QED
    BY <1>1, <1>2, <2>1, Fun_IsBij
<1> HIDE DEF S
<1>4. IsFiniteSet(S) /\ Cardinality(S) = Len(items)
  <2>1. IsFiniteSet(1..Len(items))
    BY <1>1, FS_Interval
  <2>2. ExistsBijection(1..Len(items), S)
    BY <1>3, Fun_ExistsBij
  <2> QED
    BY <1>1, <1>3, <2>1, <2>2, FS_CountingElements, FS_Bijection
<1>5. Cardinality(S) <= Cardinality(Article) /\ Cardinality(Article) \in Nat
  BY <1>2, ArticleAssumption, FS_Subset, FS_CardinalityType
<1> QED
  BY <1>1, <1>4, <1>5 DEF Positions

-----------------------------------------------------------------------------
(* What a page does to the session that its reader stands in               *)

LEMMA PagesEnd ==
    ASSUME NEW v \in Nat, NEW st, Sound(st, v)
    PROVE  /\ st.deliveries \in Seq(Page) /\ Len(st.deliveries) \in Nat /\ st.position \in Nat
           /\ \A k \in 1..Len(st.deliveries) :
                /\ st.deliveries[k].start \in Nat /\ st.deliveries[k].end \in Nat
                /\ st.deliveries[k].start < st.deliveries[k].end
                /\ st.deliveries[k].end <= st.position
                /\ k < Len(st.deliveries) => st.deliveries[k].end <= LastPage(st).start
           /\ Len(st.deliveries) > 0 => LastPage(st).end = st.position
<1> DEFINE ds == st.deliveries
           n == Len(ds)
           q == st.position
<1>1. /\ ds \in Seq(Page) /\ n \in Nat /\ q \in Nat
      /\ \A k \in 1..n : ds[k].start \in Nat /\ ds[k].end \in Nat
  BY SessionOf, PagesOf DEF Sound
<1>2. /\ \A k \in 1..n : ds[k].start < ds[k].end
      /\ \A k, l \in 1..n : k < l => ds[k].end <= ds[l].start
      /\ n > 0 => ds[n].end = q
  BY DEF Sound, Replayable, PagesFit, PageFits
<1> HIDE DEF ds, n, q
<1>3. ASSUME NEW k \in 1..n
      PROVE  ds[k].end <= q /\ (k < n => ds[k].end <= ds[n].start)
  <2>1. n \in 1..n /\ k \in Nat /\ k <= n
    BY <1>1
  <2>2. CASE k = n
    BY <1>1, <1>2, <2>1, <2>2
  <2>3. CASE k < n
    <3>1. ds[k].end <= ds[n].start /\ ds[n].start < ds[n].end /\ ds[n].end = q
      BY <1>1, <1>2, <2>1, <2>3
    <3> QED
      BY <1>1, <2>1, <3>1
  <2> QED
    BY <2>1, <2>2, <2>3
<1> QED
  BY <1>1, <1>2, <1>3 DEF LastPage, ds, n, q

\* A reader who names the session's position has all its cards.
LEMMA ReceivedAll ==
    ASSUME NEW v \in Nat, NEW st, Sound(st, v), NEW p \in Nat, Lead(st, p), st.position <= p
    PROVE  st.position = p /\ \A card \in st.eligible : card.end <= p
<1>1. ASSUME Len(st.deliveries) > 0, LastPage(st).start = p PROVE FALSE
  <2>1. Len(st.deliveries) \in 1..Len(st.deliveries)
    BY <1>1, PagesEnd
  <2>2. LastPage(st).start < LastPage(st).end /\ LastPage(st).end = st.position
        /\ LastPage(st).start \in Nat /\ LastPage(st).end \in Nat
    BY <1>1, <2>1, PagesEnd DEF LastPage
  <2> QED
    BY <1>1, <2>2
<1> QED
  BY <1>1 DEF Lead

\* Pages that end after a position, none if it is that of the session.
LEMMA NoneAfter ==
    ASSUME NEW v \in Nat, NEW st, Sound(st, v)
    PROVE  EndingAfter(st.deliveries, st.position) = <<>>
<1> DEFINE ds == st.deliveries
           q == st.position
<1>1. /\ ds \in Seq(Page) /\ Len(ds) \in Nat /\ q \in Nat
      /\ \A k \in 1..Len(ds) : ds[k].end \in Nat /\ ds[k].end <= q
  BY PagesEnd
<1> HIDE DEF ds, q
<1>2. PICK from \in 1..Len(ds) + 1 : /\ EndingAfter(ds, q) = SubSeq(ds, from, Len(ds))
                                     /\ \A i \in from..Len(ds) : ds[i].end > q
  BY <1>1, EndingAfterIsSuffix
<1>3. from = Len(ds) + 1
  <2> SUFFICES ASSUME from <= Len(ds) PROVE FALSE
    BY <1>1
  <2>1. from \in from..Len(ds) /\ from \in 1..Len(ds)
    BY <1>1
  <2> QED
    BY <1>1, <1>2, <2>1
<1>4. EndingAfter(ds, q) \in Seq(Page) /\ Len(EndingAfter(ds, q)) = 0
  BY <1>1, <1>2, <1>3, SuffixPages
<1> QED
  BY <1>4, EmptySeq DEF ds, q

\* Pages that end after a position, of no pages.
LEMMA NoPages ==
    ASSUME NEW p \in Nat
    PROVE  EndingAfter(<<>>, p) = <<>>
<1> DEFINE ds == <<>>
<1>1. ds \in Seq(Page) /\ Len(ds) = 0
  BY EmptySeq
<1> HIDE DEF ds
<1>2. PICK from \in 1..Len(ds) + 1 : EndingAfter(ds, p) = SubSeq(ds, from, Len(ds))
  BY <1>1, EndingAfterIsSuffix
<1>3. from = 1
  BY <1>1
<1>4. EndingAfter(ds, p) \in Seq(Page) /\ Len(EndingAfter(ds, p)) = 0
  BY <1>1, <1>2, <1>3, SuffixPages
<1> QED
  BY <1>4, EmptySeq DEF ds

\* A session whose reader has received everything, at position p.
Level(st, p) ==
    /\ st.position = p /\ st.deliveries = <<>>
    /\ \A card \in st.eligible : card.end <= p

\* What has happened to such a session: old becomes new, which may have one page more.
Followed(old, new, p) ==
    /\ new.given = old.given /\ new.revision = old.revision
    /\ old.eligible \subseteq new.eligible
    /\ \A card \in new.eligible : card.end <= p => card \in old.eligible
    /\ Lead(new, p)
    /\ p <= new.position /\ Lead(new, new.position)
    /\ new.position = p => new.eligible = old.eligible
    /\ new.position # p =>
         /\ Len(new.deliveries) > 0
         /\ \A card \in new.eligible :
              card \in old.eligible \/ card.article \in Articles(LastPage(new).rows)
         /\ \A a \in Articles(LastPage(new).rows) : \E card \in new.eligible :
              card.article = a /\ card.end = new.position

LEMMA SinglePage ==
    ASSUME NEW page \in Page
    PROVE  Retained(Append(<<>>, page)) = <<page>>
<1> DEFINE ds == Append(<<>>, page)
<1>0. <<>> \in Seq(Page)
  BY EmptySeq
<1>1. ds \in Seq(Page) /\ Len(ds) = 1 /\ ds[1] = page
  <2>1. Len(<<>>) = 0
    BY EmptySeq
  <2> QED
    BY <1>0, <2>1, AppendProperties
<1> HIDE DEF ds
<1>2. PICK from \in 1..Len(ds) : Retained(ds) = SubSeq(ds, from, Len(ds))
  <2>1. Len(ds) > 0
    BY <1>1
  <2> QED
    BY <1>1, <2>1, RetainedIsSuffix
<1>3. from = 1
  BY <1>1
<1>4. Retained(ds) \in Seq(Page) /\ Len(Retained(ds)) = 1 /\ Retained(ds)[1] = page
  <2>1. 1 \in 1..Len(ds) + 1 /\ Len(ds) - 1 + 1 = 1 /\ 1 + 1 - 1 = 1 /\ 1 \in 1..Len(ds) - 1 + 1
    BY <1>1
  <2> QED
    BY <1>1, <1>2, <1>3, <2>1, SuffixPages
<1>5. Retained(ds) = <<page>>
  BY <1>4
<1> QED
  BY <1>5 DEF ds

LEMMA HandedOver ==
    ASSUME NEW v \in Nat, NEW st, Sound(st, v), NEW p \in Nat, Level(st, p),
           NEW limit \in Nat \ {0}
    PROVE  Followed(st, Deliver(st, limit), p)
<1> DEFINE n == Smaller(limit, Len(st.queue))
           rows == SubSeq(st.queue, 1, n)
           end == p + n
           page == [start |-> p, end |-> end, revision |-> st.revision, rows |-> rows]
           new == Deliver(st, limit)
<1>0. /\ st \in Session /\ st.position = p /\ st.deliveries = <<>> /\ st.eligible \in SUBSET Card
      /\ st.revision \in Nat /\ st.queue \in Seq(Row) /\ Len(st.queue) \in Nat
      /\ Distinct(st.queue) /\ \A card \in st.eligible : card.end <= p
  BY SessionOf DEF Sound, Level, Conserved
<1>1. n \in Nat /\ n \in 0..Len(st.queue)
  BY <1>0 DEF Smaller
<1>2. /\ new.position = end /\ new.given = st.given /\ new.revision = st.revision
      /\ new.eligible = st.eligible \cup {[article |-> a, end |-> end] : a \in Articles(rows)}
      /\ new.deliveries = IF n = 0 THEN <<>> ELSE Retained(Append(<<>>, page))
  <2> HIDE DEF rows, n
  <2> QED
    BY <1>0 DEF Deliver, Session, rows, n
<1>3. rows \in Seq(Row) /\ Len(rows) = n
  <2> DEFINE q == st.queue
  <2>1. rows = Leading(q, n) /\ q \in Seq(Row) /\ n \in 0..Len(q) /\ Distinct(q)
    BY <1>0, <1>1 DEF Leading
  <2> HIDE DEF q, n, rows
  <2> QED
    BY <2>1, Cut
<1> HIDE DEF n, rows, new
<1>4. end \in Nat /\ p <= end
  BY <1>1
<1>5. CASE n = 0
  <2>1. Articles(rows) = {}
    <3>1. Articles(rows) = {rows[i].article : i \in 1..Len(rows)}
      BY <1>3, ArticlesOf
    <3>2. Len(rows) = 0
      BY <1>3, <1>5
    <3>3. 1..Len(rows) = {}
      BY <3>2
    <3> QED
      BY <3>1, <3>3
  <2>2. end = p
    BY <1>5
  <2>3. /\ new.position = p /\ new.eligible = st.eligible /\ new.deliveries = <<>>
    BY <1>2, <1>5, <2>1, <2>2
  <2>4. Lead(new, p)
    BY <1>0, <2>3 DEF Lead
  <2> QED
    BY <1>2, <2>3, <2>4 DEF Followed, new
<1>6. CASE n # 0
  <2>1. p < end /\ page \in Page
    BY <1>0, <1>1, <1>3, <1>4, <1>6 DEF Page
  <2>2. new.deliveries = <<page>>
    BY <1>2, <1>6, <2>1, SinglePage
  <2>3. LastPage(new) = page /\ Len(new.deliveries) = 1
    BY <2>2 DEF LastPage
  <2>4. page.start = p /\ page.rows = rows
    OBVIOUS
  <2> DEFINE more == {[article |-> a, end |-> end] : a \in Articles(rows)}
  <2>5. /\ \A card \in more : card.end = end /\ card.article \in Articles(rows)
        /\ \A a \in Articles(rows) : \E card \in more : card.article = a /\ card.end = end
    <3>1. \A card \in more : card.end = end /\ card.article \in Articles(rows)
      OBVIOUS
    <3>2. \A a \in Articles(rows) : /\ [article |-> a, end |-> end] \in more
                                    /\ [article |-> a, end |-> end].article = a
                                    /\ [article |-> a, end |-> end].end = end
      OBVIOUS
    <3> HIDE DEF more
    <3> QED
      BY <3>1, <3>2
  <2>6. new.eligible = st.eligible \cup more /\ new.position = end
    BY <1>2
  <2> HIDE DEF more, page
  <2> HIDE DEF end
  <2>7. Lead(new, p)
    BY <1>0, <2>3, <2>4, <2>5, <2>6 DEF Lead
  <2>8. Lead(new, new.position)
    <3>1. \A card \in st.eligible : card.end <= end
      <4>1. \A card \in st.eligible : card.end \in Nat
        BY <1>0 DEF Card
      <4> QED
        BY <1>0, <1>4, <4>1
    <3>2. \A card \in new.eligible : card.end <= end
      BY <1>4, <2>5, <2>6, <3>1
    <3> QED
      BY <2>6, <3>2 DEF Lead
  <2>9. \A card \in new.eligible : card.end <= p => card \in st.eligible
    BY <1>4, <2>1, <2>5, <2>6
  <2>10. new.given = st.given /\ new.revision = st.revision /\ st.eligible \subseteq new.eligible
    BY <1>2, <2>6
  <2>11. Articles(LastPage(new).rows) = Articles(rows)
    BY <2>3, <2>4
  <2>12. /\ \A card \in new.eligible :
              card \in st.eligible \/ card.article \in Articles(rows)
         /\ \A a \in Articles(rows) : \E card \in new.eligible :
              card.article = a /\ card.end = new.position
    BY <2>5, <2>6
  <2>13. new.position # p /\ p <= new.position /\ Len(new.deliveries) > 0
    BY <1>4, <2>1, <2>3, <2>6
  <2> QED
    BY <2>7, <2>8, <2>9, <2>10, <2>11, <2>12, <2>13 DEF Followed, new
<1> QED
  BY <1>5, <1>6

\* The arrival of a window changes nothing that the reader has.
LEMMA Windowed ==
    ASSUME NEW st \in Session, NEW limit \in Nat \ {0}, NEW new \in Arrivals(st, limit)
    PROVE  /\ new.position = st.position /\ new.deliveries = st.deliveries
           /\ new.eligible = st.eligible /\ new.given = st.given /\ new.revision = st.revision
<1>1. CASE ~NeedsArrivals(st, limit)
  BY <1>1 DEF Arrivals
<1>2. CASE NeedsArrivals(st, limit)
  <2> DEFINE end == Smaller(Len(st.items), st.source + Larger(limit, FeedWindow))
             arriving == {st.items[i] : i \in st.source + 1..end}
             rankings == SetToSeqs({[article |-> a, under |-> version] : a \in arriving})
  <2>1. new \in {[st EXCEPT !.queue = @ \o ranked, !.source = end,
                            !.replay = [version |-> version, articles |-> arriving]] :
                   ranked \in rankings}
    BY <1>2 DEF Arrivals
  <2> HIDE DEF end, arriving, rankings
  <2>2. PICK ranked \in rankings :
          new = [st EXCEPT !.queue = @ \o ranked, !.source = end,
                           !.replay = [version |-> version, articles |-> arriving]]
    BY <2>1
  <2> QED
    BY <2>2 DEF Session
<1> QED
  BY <1>1, <1>2

LEMMA PageOutcome ==
    ASSUME FeedInv, NEW req \in PageRequest, Accepts(req), NEW p \in Nat, Level(Opened(req), p),
           NEW st, st = Opened(req) \/ st \in PageOutcomes(req)
    PROVE  Followed(Opened(req), st, p)
<1> DEFINE old == Opened(req)
<1>1. /\ Sound(old, version) /\ old.version = version /\ version \in Nat
      /\ req.limit \in Nat \ {0} /\ Level(old, p) /\ old \in Session
  BY OpenedSound, SizeAssumption DEF FeedInv, FeedTypeOK, PageRequest, Sound
<1>2. CASE st = old
  <2>1. Lead(old, p)
    BY <1>1 DEF Level, Lead
  <2>2. old.position = p
    BY <1>1 DEF Level
  <2> HIDE DEF old
  <2>3. Lead(old, old.position) /\ p <= old.position
    BY <2>1, <2>2
  <2>4. Followed(old, old, p)
    BY <2>1, <2>2, <2>3 DEF Followed
  <2> QED
    BY <1>2, <2>4 DEF old
<1>3. CASE st \in PageOutcomes(req)
  <2>1. PICK arrived \in Arrivals(old, req.limit) : st = Deliver(arrived, req.limit)
    BY <1>3 DEF PageOutcomes
  <2> HIDE DEF old
  <2>2. /\ arrived.position = old.position /\ arrived.deliveries = old.deliveries
        /\ arrived.eligible = old.eligible /\ arrived.given = old.given
        /\ arrived.revision = old.revision
    BY <1>1, Windowed
  <2>3. Sound(arrived, version)
    BY <1>1, ArrivalsSound
  <2>4. Level(arrived, p)
    BY <1>1, <2>2 DEF Level
  <2>5. Followed(arrived, st, p)
    BY <1>1, <2>1, <2>3, <2>4, HandedOver
  <2>6. Followed(old, st, p)
    BY <2>2, <2>5 DEF Followed
  <2> QED
    BY <2>6 DEF old
<1> QED
  BY <1>2, <1>3

\* A cursor at or behind the point at which a reader stands is accepted only if the
\* session stands there too; without a cursor the session must have nothing left.
LEMMA OpenedLevel ==
    ASSUME FeedInv, NEW req \in PageRequest, Accepts(req), ~Opens(req),
           NEW p \in Nat, NEW r \in Nat,
           Behind({req}, req.session, p, r),
           r <= sessions[req.session].revision, Lead(sessions[req.session], p),
           req.cursor = None => Rest(sessions[req.session])
    PROVE  LET old == sessions[req.session] IN
           /\ Level(Opened(req), p) /\ Opened(req).eligible = old.eligible
           /\ Opened(req).given = old.given /\ Opened(req).revision = old.revision
           /\ old.position = p
<1> DEFINE old == sessions[req.session]
<1>1. /\ req.session \in SessionId /\ req.session # None /\ Found(req.session) = old
      /\ req.cursor \in Progress \cup {None}
  BY DEF Opens, PageRequest, Found
<1>2. old # None /\ (req.cursor # None => req.cursor = [position |-> old.position, revision |-> old.revision])
  BY <1>1 DEF Accepts
<1>3. Sound(old, version) /\ version \in Nat
  BY <1>1, <1>2 DEF FeedInv, FeedTypeOK
<1>4. old \in Session /\ old.position \in Nat /\ old.revision \in Nat
  BY <1>3, SessionOf DEF Sound
<1>5. Behind({req}, req.session, p, r) /\ r <= old.revision /\ Lead(old, p)
      /\ (req.cursor = None => Rest(old))
  OBVIOUS
<1>6. Opened(req) = IF req.cursor = None THEN old
                    ELSE [old EXCEPT !.deliveries = EndingAfter(@, req.cursor.position)]
  BY <1>1 DEF Opened
<1> HIDE DEF old
<1>7. CASE req.cursor = None
  <2>1. old.deliveries = <<>>
    BY <1>2, <1>5, <1>7 DEF Rest
  <2>2. Len(old.deliveries) = 0
    BY <2>1
  <2>3. old.position = p /\ \A card \in old.eligible : card.end <= p
    BY <1>5, <2>2 DEF Lead
  <2> QED
    BY <1>6, <1>7, <2>1, <2>3 DEF Level, old
<1>8. CASE req.cursor # None
  <2>1. req.cursor.position = old.position /\ req.cursor.revision = old.revision
    BY <1>2, <1>8
  <2>2. \/ old.revision < r
        \/ old.revision = r /\ old.position <= p
    BY <1>5, <1>8, <2>1 DEF Behind
  <2>3. old.position <= p
    BY <1>4, <1>5, <2>2
  <2>4. old.position = p /\ \A card \in old.eligible : card.end <= p
    BY <1>3, <1>5, <2>3, ReceivedAll
  <2>5. EndingAfter(old.deliveries, req.cursor.position) = <<>>
    BY <1>3, <2>1, NoneAfter
  <2>6. Opened(req) = [old EXCEPT !.deliveries = <<>>]
    BY <1>6, <1>8, <2>5
  <2>7. /\ Opened(req).deliveries = <<>> /\ Opened(req).position = old.position
        /\ Opened(req).eligible = old.eligible /\ Opened(req).given = old.given
        /\ Opened(req).revision = old.revision
    BY <1>4, <2>6 DEF Session
  <2> QED
    BY <2>4, <2>7 DEF Level, old
<1> QED
  BY <1>7, <1>8

NewLevel == Level(NewSession, 0) /\ NewSession.eligible = {}

LEMMA NewSessionLevel == NewLevel
BY DEF NewLevel, Level, NewSession

\* A session goes on with what its reader stands on.
Carried(old, new, p) ==
    new # None =>
      /\ old # None /\ old.revision <= new.revision
      /\ Lead(new, p)
      /\ \A card \in new.eligible : card.end <= p => card \in old.eligible
      /\ \A a : Given(old, a, p) => Given(new, a, p)

LEMMA FollowedCarried ==
    ASSUME NEW old, NEW new, NEW p, Followed(old, new, p), old.revision \in Nat, old # None
    PROVE  Carried(old, new, p)
<1>1. ASSUME NEW a, Given(old, a, p), new # None PROVE Given(new, a, p)
  BY <1>1 DEF Given, Followed
<1> QED
  BY <1>1 DEF Carried, Followed

PageStep(req) == PageFails(req) \/ \E st \in PageOutcomes(req) : FeedPage(req, st)

LEMMA PageStepStores ==
    ASSUME FeedInv, NEW req \in PageRequest, PageStep(req)
    PROVE  /\ Accepts(req) /\ OpenedId(req) \in SessionId
           /\ \E st : /\ st = Opened(req) \/ st \in PageOutcomes(req)
                      /\ sessions' = [sessions EXCEPT ![OpenedId(req)] = st]
                      /\ sessions'[OpenedId(req)] = st
                      /\ \A s \in SessionId : s # OpenedId(req) => sessions'[s] = sessions[s]
<1>1. Accepts(req)
  BY DEF PageStep, PageFails, PageOutcomes
<1>2. PICK st : /\ st = Opened(req) \/ st \in PageOutcomes(req)
                /\ sessions' = [sessions EXCEPT ![OpenedId(req)] = st]
  BY DEF PageStep, PageFails, FeedPage, Store
<1>3. OpenedId(req) \in SessionId
  BY <1>1, OpenedSound
<1>4. sessions \in [SessionId -> Session \cup {None}]
  BY DEF FeedInv, FeedTypeOK
<1> QED
  BY <1>1, <1>2, <1>3, <1>4

LEMMA PageCarried ==
    ASSUME FeedInv, NEW req \in PageRequest, PageStep(req), NEW s \in Known,
           NEW p \in Nat, NEW r \in Nat, Behind({req}, s, p, r),
           sessions[s] # None => r <= sessions[s].revision /\ Lead(sessions[s], p),
           req.session = s /\ req.cursor = None => Rest(sessions[s])
    PROVE  Carried(sessions[s], sessions'[s], p)
<1> DEFINE old == sessions[s]
<1>0. s \in SessionId /\ s # created + 1 /\ s # None
  BY KnownIds
<1>1. PICK st : /\ st = Opened(req) \/ st \in PageOutcomes(req)
                /\ sessions' = [sessions EXCEPT ![OpenedId(req)] = st]
                /\ sessions'[OpenedId(req)] = st
                /\ \A t \in SessionId : t # OpenedId(req) => sessions'[t] = sessions[t]
  BY PageStepStores
<1>2. Accepts(req)
  BY PageStepStores
<1>3. old # None => /\ old \in Session /\ old.revision \in Nat
  BY <1>0, SessionOf DEF FeedInv, Sound
<1>4. CASE OpenedId(req) # s
  <2>1. sessions'[s] = old
    BY <1>0, <1>1, <1>4
  <2>2. old # None => Lead(old, p)
    OBVIOUS
  <2> HIDE DEF old
  <2>3. Carried(old, old, p)
    BY <1>3, <2>2 DEF Carried
  <2> QED
    BY <2>1, <2>3 DEF old
<1>5. CASE OpenedId(req) = s
  <2>1. ~Opens(req) /\ req.session = s
    BY <1>0, <1>5 DEF OpenedId
  <2>2. old # None /\ r <= old.revision /\ Lead(old, p)
    BY <1>0, <1>2, <2>1 DEF Accepts, Found
  <2>3. /\ Level(Opened(req), p) /\ Opened(req).eligible = old.eligible
        /\ Opened(req).given = old.given /\ Opened(req).revision = old.revision
    BY <1>2, <2>1, <2>2, OpenedLevel
  <2>4. Followed(Opened(req), st, p)
    BY <1>1, <1>2, <2>3, PageOutcome
  <2>5. sessions'[s] = st
    BY <1>1, <1>5
  <2> HIDE DEF old
  <2>6. Followed(old, st, p)
    BY <2>3, <2>4 DEF Followed
  <2>7. Carried(old, st, p)
    BY <1>3, <2>2, <2>6, FollowedCarried
  <2> QED
    BY <2>5, <2>7 DEF old
<1> QED
  BY <1>4, <1>5

\* A session with nothing left stays so.
LEMMA PageRests ==
    ASSUME FeedInv, NEW req \in PageRequest, PageStep(req), NEW s \in Known, Rest(sessions[s])
    PROVE  Rest(sessions'[s])
<1> DEFINE old == sessions[s]
<1>0. s \in SessionId /\ s # created + 1 /\ s # None
  BY KnownIds
<1>1. PICK st : /\ st = Opened(req) \/ st \in PageOutcomes(req)
                /\ sessions'[OpenedId(req)] = st
                /\ \A t \in SessionId : t # OpenedId(req) => sessions'[t] = sessions[t]
  BY PageStepStores
<1>2. Accepts(req)
  BY PageStepStores
<1>3. CASE OpenedId(req) # s
  <2>1. sessions'[s] = sessions[s]
    BY <1>0, <1>1, <1>3
  <2> QED
    BY <2>1
<1>4. CASE OpenedId(req) = s
  <2>1. ~Opens(req) /\ req.session = s
    BY <1>0, <1>4 DEF OpenedId
  <2>2. old # None /\ Found(s) = old
    BY <1>0, <1>2, <2>1 DEF Accepts, Found
  <2>3. Sound(old, version) /\ req.cursor \in Progress \cup {None} /\ req.limit \in Nat \ {0}
    BY <1>0, <2>2, SizeAssumption DEF FeedInv, PageRequest
  <2>4. /\ old \in Session /\ old.queue = <<>> /\ old.source = Len(old.items) /\ old.deliveries = <<>>
        /\ old.position \in Nat /\ Len(old.items) \in Nat
    BY <2>2, <2>3, SessionOf DEF Sound, Rest
  <2>5. Opened(req) = IF req.cursor = None THEN old
                      ELSE [old EXCEPT !.deliveries = EndingAfter(@, req.cursor.position)]
    BY <2>1, <2>2 DEF Opened
  <2> HIDE DEF old
  <2>6. req.cursor # None => EndingAfter(<<>>, req.cursor.position) = <<>>
    <3> SUFFICES ASSUME req.cursor # None PROVE EndingAfter(<<>>, req.cursor.position) = <<>>
      OBVIOUS
    <3>1. req.cursor.position \in Nat
      BY <2>3, ProgressType
    <3> QED
      BY <3>1, NoPages
  <2> DEFINE opened == Opened(req)
  <2>7. /\ opened \in Session /\ opened.queue = <<>> /\ opened.items = old.items
        /\ opened.source = old.source /\ opened.deliveries = <<>>
    <3>1. CASE req.cursor = None
      BY <2>4, <2>5, <3>1
    <3>2. CASE req.cursor # None
      <4>1. opened = [old EXCEPT !.deliveries = <<>>]
        BY <2>4, <2>5, <2>6, <3>2
      <4>2. <<>> \in Seq(Page)
        BY EmptySeq
      <4> HIDE DEF opened
      <4> QED
        BY <2>4, <4>1, <4>2 DEF Session
    <3> QED
      BY <3>1, <3>2
  <2> HIDE DEF opened
  <2>8. Rest(opened)
    BY <2>4, <2>7 DEF Rest
  <2>9. ASSUME st \in PageOutcomes(req) PROVE Rest(st)
    <3>1. ~NeedsArrivals(opened, req.limit)
      BY <2>4, <2>7 DEF NeedsArrivals
    <3>2. st = Deliver(opened, req.limit)
      BY <1>2, <2>9, <3>1 DEF PageOutcomes, Arrivals, opened
    <3>3. Len(opened.queue) = 0 /\ Smaller(req.limit, Len(opened.queue)) = 0
      BY <2>3, <2>7 DEF Smaller
    <3>4. /\ st.queue = SubSeq(<<>>, 1, 0) /\ st.deliveries = <<>> /\ st.source = opened.source
          /\ st.items = opened.items
      BY <2>7, <3>2, <3>3 DEF Deliver, Session
    <3>5. SubSeq(<<>>, 1, 0) = <<>>
      OBVIOUS
    <3> QED
      BY <2>4, <2>7, <3>4, <3>5 DEF Rest
  <2>10. Rest(st)
    BY <1>1, <2>8, <2>9 DEF opened
  <2> QED
    BY <1>1, <1>4, <2>10
<1> QED
  BY <1>3, <1>4

-----------------------------------------------------------------------------
(* What an event does to the session that its reader stands in             *)

\* The rows behind the start of the last page are its rows.
LEMMA LastRows ==
    ASSUME NEW v \in Nat, NEW st, Sound(st, v), NEW p \in Nat,
           Len(st.deliveries) > 0, LastPage(st).start = p
    PROVE  RowsBetween(st.deliveries, p, st.position) = LastPage(st).rows
<1> DEFINE ds == st.deliveries
           q == st.position
           n == Len(ds)
           rows == ds[n].rows
           Covers(k, i) == ds[k].start < p + i /\ p + i <= ds[k].end
           at(i) == CHOOSE k \in DOMAIN ds : Covers(k, i)
<1>0. /\ ds \in Seq(Page) /\ n \in Nat /\ n > 0 /\ q \in Nat /\ DOMAIN ds = 1..n
      /\ \A k \in 1..n : /\ ds[k].start \in Nat /\ ds[k].end \in Nat /\ ds[k].start < ds[k].end
                         /\ ds[k].end <= q /\ (k < n => ds[k].end <= ds[n].start)
      /\ ds[n].end = q /\ ds[n].start = p
  BY PagesEnd, LenProperties DEF LastPage
<1>1. rows \in Seq(Row) /\ Len(rows) = q - p
  <2>1. n \in 1..n
    BY <1>0
  <2>2. Len(ds[n].rows) = ds[n].end - ds[n].start
    BY <2>1 DEF Sound, Replayable, PagesFit, PageFits
  <2> HIDE DEF ds, q, n
  <2>3. ds[n].rows \in Seq(Row)
    BY <1>0, <2>1, PagesOf
  <2> QED
    BY <1>0, <2>2, <2>3
<1>2. RowsBetween(ds, p, q) = [i \in 1..q - p |-> ds[at(i)].rows[p + i - ds[at(i)].start]]
  BY DEF RowsBetween
<1>9. LastPage(st).rows = rows
  BY DEF LastPage
<1> HIDE DEF ds, q, n
<1>3. ASSUME NEW i \in 1..q - p PROVE at(i) = n
  <2>1. n \in DOMAIN ds /\ Covers(n, i)
    BY <1>0
  <2>2. ASSUME NEW k \in DOMAIN ds, Covers(k, i) PROVE k = n
    <3>1. k \in 1..n /\ n \in 1..n
      BY <1>0
    <3>2. ASSUME k < n PROVE FALSE
      <4>1. ds[k].end <= p /\ p + i <= ds[k].end /\ ds[k].end \in Nat
        BY <1>0, <2>2, <3>1, <3>2
      <4> QED
        BY <4>1
    <3> QED
      BY <1>0, <3>1, <3>2
  <2> HIDE DEF Covers
  <2> QED
    BY <2>1, <2>2
<1> HIDE DEF at, rows
<1>4. \A i \in 1..q - p : p + i - ds[n].start = i
  BY <1>0
<1>5. \A i \in 1..q - p : ds[at(i)].rows[p + i - ds[at(i)].start] = rows[i]
  BY <1>3, <1>4 DEF rows
<1>6. RowsBetween(ds, p, q) = [i \in 1..q - p |-> rows[i]]
  BY <1>2, <1>5
<1>7. rows = [i \in 1..q - p |-> rows[i]]
  <2>1. rows \in [1..Len(rows) -> Row]
    BY <1>1, LenProperties
  <2>2. 1..Len(rows) = 1..q - p
    BY <1>1
  <2>3. rows \in [1..q - p -> Row]
    BY <2>1, <2>2
  <2> QED
    BY <2>3
<1> QED
  BY <1>6, <1>7, <1>9 DEF ds, q

LEMMA RecoveredAt ==
    ASSUME NEW v \in Nat, NEW st, Sound(st, v), NEW accepted \in Progress,
           Recoverable(st, accepted), Lead(st, accepted.position)
    PROVE  LET new == Recover(st, accepted)
               p == accepted.position
           IN  /\ Sound(new, v) /\ new.position = p /\ new.deliveries = <<>>
               /\ new.given = st.given /\ new.revision = st.revision
               /\ new.eligible \subseteq st.eligible
               /\ \A card \in new.eligible : card.end <= p
               /\ \A card \in st.eligible : card.end <= p => card \in new.eligible
<1> DEFINE p == accepted.position
           q == st.position
           ds == st.deliveries
           rows == RowsBetween(ds, p, q)
           queue == rows \o st.queue
           open == {card \in st.eligible : card.article \notin Articles(rows)}
           new == Recover(st, accepted)
<1>0. /\ st \in Session /\ p \in Nat /\ q \in Nat /\ p <= q /\ accepted # None
      /\ ds \in Seq(Page) /\ st.eligible \in SUBSET Card
  BY ProgressType, SessionOf DEF Sound, Recoverable
<1>1. new = [st EXCEPT !.queue = queue, !.eligible = open, !.position = p, !.deliveries = <<>>]
  <2> HIDE DEF rows, p
  <2> QED
    BY <1>0 DEF Recover, Session, rows, p
<1>2. /\ Sound(new, v)
      /\ \A card \in st.eligible : card.end <= p => card \in new.eligible
  BY <1>0, RecoverSound
<1> HIDE DEF new, rows
<1>3. /\ new.eligible = open /\ new.position = p /\ new.deliveries = <<>>
      /\ new.given = st.given /\ new.revision = st.revision
  <2> HIDE DEF queue, open, p
  <2> QED
    BY <1>0, <1>1 DEF Session
<1>4. ASSUME NEW card \in open PROVE card.end <= p
  <2>1. card \in st.eligible /\ card.article \notin Articles(rows)
    OBVIOUS
  <2>2. CASE st.position = p /\ \A c \in st.eligible : c.end <= p
    BY <2>1, <2>2
  <2>3. CASE /\ Len(ds) > 0 /\ LastPage(st).start = p
             /\ \A c \in st.eligible : c.end <= p \/ c.article \in Articles(LastPage(st).rows)
    <3>1. rows = LastPage(st).rows
      <4> HIDE DEF p
      <4> QED
        BY <1>0, <2>3, LastRows DEF rows
    <3> QED
      BY <2>1, <2>3, <3>1
  <2> QED
    BY <2>2, <2>3 DEF Lead
<1> QED
  BY <1>2, <1>3, <1>4 DEF new

\* The outcome of an event: old becomes new, its reader stands at p.
Returned(old, new, p) ==
    /\ Level(new, p)
    /\ old.given \subseteq new.given /\ new.eligible \subseteq old.eligible
    /\ \A card \in old.eligible : card.end <= p =>
         card \in new.eligible \/ card.article \in new.given
    /\ new.revision \in {old.revision, old.revision + 1}

LEMMA TakenAt ==
    ASSUME NEW v \in Nat, NEW st, Sound(st, v), NEW req \in FeedbackRequest, req.accepted # None,
           Recoverable(st, req.accepted), Lead(st, req.accepted.position)
    PROVE  Returned(st, Taken(st, req), req.accepted.position)
<1> DEFINE old == Recover(st, req.accepted)
           a == req.article
           p == req.accepted.position
           open == {card \in old.eligible : card.article # a}
           given == old.given \cup {a}
           new == Taken(st, req)
<1>1. req.accepted \in Progress /\ a \in Article
  BY DEF FeedbackRequest
<1>2. /\ Sound(old, v) /\ old.position = p
      /\ old.given = st.given /\ old.revision = st.revision
      /\ old.eligible \subseteq st.eligible
      /\ \A card \in old.eligible : card.end <= p
      /\ \A card \in st.eligible : card.end <= p => card \in old.eligible
  BY <1>1, RecoveredAt
<1>3. new = [old EXCEPT !.eligible = open, !.given = given, !.deliveries = <<>>,
                        !.revision = old.revision + 1]
  <2>1. old \in Session
    BY <1>2 DEF Sound
  <2> HIDE DEF old
  <2> QED
    BY <2>1 DEF Taken, Session, old
<1> HIDE DEF new, old
<1>4. /\ new.eligible = open /\ new.given = given /\ new.deliveries = <<>>
      /\ new.revision = old.revision + 1 /\ new.position = old.position
  <2>1. old \in Session
    BY <1>2 DEF Sound
  <2> HIDE DEF open, given
  <2> QED
    BY <1>3, <2>1 DEF Session
<1>5. Level(new, p)
  BY <1>2, <1>4 DEF Level
<1>6. old.eligible \subseteq st.eligible /\ open \subseteq old.eligible
  BY <1>2
<1> QED
  BY <1>2, <1>4, <1>5, <1>6 DEF Returned, new

LEMMA RerankedSame ==
    ASSUME NEW st \in Session, NEW action, NEW new \in Reranked(st, action)
    PROVE  /\ new.position = st.position /\ new.deliveries = st.deliveries
           /\ new.eligible = st.eligible /\ new.given = st.given /\ new.revision = st.revision
           /\ new.source = st.source /\ new.items = st.items
           /\ st.queue = <<>> => new.queue = <<>>
<1> DEFINE rows == ToSet(st.queue)
           stale == IF Reusable(st, action) THEN SUBSET rows ELSE {rows}
           after(changed) == {IF r \in changed THEN [r EXCEPT !.under = version] ELSE r : r \in rows}
           ranking == UNION {SetToSeqs(all) : all \in {after(changed) : changed \in stale}}
<1>1. new \in {[st EXCEPT !.queue = ranked, !.version = version] : ranked \in ranking}
  BY DEF Reranked
<1> HIDE DEF ranking
<1>2. PICK ranked \in ranking : new = [st EXCEPT !.queue = ranked, !.version = version]
  BY <1>1
<1>3. /\ new.position = st.position /\ new.deliveries = st.deliveries
      /\ new.eligible = st.eligible /\ new.given = st.given /\ new.revision = st.revision
      /\ new.source = st.source /\ new.items = st.items /\ new.queue = ranked
  BY <1>2 DEF Session
<1>4. ASSUME st.queue = <<>> PROVE ranked = <<>>
  <2>1. rows = {}
    BY <1>4 DEF ToSet
  <2>2. \A changed : after(changed) = {}
    BY <2>1
  <2> HIDE DEF after, rows
  <2>3. ranked \in SetToSeqs({})
    BY <2>2 DEF ranking
  <2>4. IsFiniteSet({}) /\ Cardinality({}) = 0
    BY FS_EmptySet
  <2>5. ranked \in Seq({}) /\ Len(ranked) = 0
    BY <2>3, <2>4, Rankings
  <2> QED
    BY <2>5, EmptySeq
<1> QED
  BY <1>3, <1>4

\* What an event keeps of its session, wherever its reader stands.
Keeps(old, new, p) ==
    /\ new.position = p /\ new.deliveries = <<>>
    /\ new.items = old.items /\ new.source = old.source

LEMMA RecoverKeeps ==
    ASSUME NEW st \in Session, NEW accepted, accepted # None, accepted.position \in Nat,
           Recover(st, accepted) \in Session
    PROVE  Keeps(st, Recover(st, accepted), accepted.position)
<1> DEFINE p == accepted.position
           rows == RowsBetween(st.deliveries, p, st.position)
           queue == rows \o st.queue
           open == {card \in st.eligible : card.article \notin Articles(rows)}
           new == Recover(st, accepted)
<1>1. new = [st EXCEPT !.queue = queue, !.eligible = open, !.position = p, !.deliveries = <<>>]
  <2> HIDE DEF rows, p
  <2> QED
    BY DEF Recover, Session, rows, p
<1> HIDE DEF queue, open, p, new
<1>2. new.position = p /\ new.deliveries = <<>> /\ new.items = st.items /\ new.source = st.source
  BY <1>1 DEF Session
<1> QED
  BY <1>2 DEF Keeps, p, new

EventStep(req) ==
    \/ ProvenanceFails(req) \/ RerankFails(req)
    \/ \E st \in FeedbackOutcomes(req) : Feedback(req, st)

LEMMA EventOutcome ==
    ASSUME FeedInv, NEW req \in FeedbackRequest, req.accepted # None, EventStep(req)
    PROVE  LET s == req.session
               old == sessions[s]
               new == sessions'[s]
               p == req.accepted.position
           IN  /\ s \in SessionId /\ old # None /\ Sound(old, version) /\ Sound(new, version)
               /\ Matches(old, req) /\ sessions' = [sessions EXCEPT ![s] = new]
               /\ Keeps(old, new, p)
               /\ Lead(old, p) => Returned(old, new, p)
<1> DEFINE s == req.session
           old == sessions[s]
           new == sessions'[s]
           p == req.accepted.position
           taken == Taken(old, req)
           back == Recover(old, req.accepted)
<1>1. /\ s \in SessionId /\ req.accepted \in Progress /\ version \in Nat
      /\ sessions \in [SessionId -> Session \cup {None}]
  BY DEF FeedbackRequest, FeedInv, FeedTypeOK
<1>2. s # None => Found(s) = old
  BY DEF Found
<1>3. s # None
  BY <1>1, NoneAssumption DEF SessionId
<1>4. Matches(old, req)
  BY <1>2, <1>3 DEF EventStep, ProvenanceFails, RerankFails, FeedbackOutcomes
<1>5. old # None /\ Recoverable(old, req.accepted)
  BY <1>4 DEF Matches
<1>6. Sound(old, version)
  BY <1>1, <1>5 DEF FeedInv
<1>7. /\ Sound(back, version) /\ Sound(taken, version)
      /\ old \in Session /\ back \in Session /\ taken \in Session
  <2> HIDE DEF old
  <2>1. Sound(back, version) /\ Sound(taken, version)
    BY <1>1, <1>4, <1>5, <1>6, RecoverSound, TakenSound
  <2> QED
    BY <1>6, <2>1 DEF Sound
<1>8. p \in Nat
  BY <1>1, ProgressType
<1>9. Keeps(old, back, p)
  <2> HIDE DEF old
  <2> QED
    BY <1>7, <1>8, RecoverKeeps
<1>10. Keeps(old, taken, p)
  <2>1. /\ taken.position = back.position /\ taken.deliveries = <<>>
        /\ taken.items = back.items /\ taken.source = back.source
    <3> DEFINE open == {card \in back.eligible : card.article # req.article}
               given == back.given \cup {req.article}
    <3>1. taken = [back EXCEPT !.eligible = open, !.given = given, !.deliveries = <<>>,
                               !.revision = @ + 1]
      <4> HIDE DEF back
      <4> QED
        BY <1>7 DEF Taken, Session, back
    <3> HIDE DEF open, given, back, taken
    <3> QED
      BY <1>7, <3>1 DEF Session
  <2> QED
    BY <1>9, <2>1 DEF Keeps
<1>11. Lead(old, p) => Returned(old, back, p) /\ Returned(old, taken, p)
  <2> SUFFICES ASSUME Lead(old, p) PROVE Returned(old, back, p) /\ Returned(old, taken, p)
    OBVIOUS
  <2> HIDE DEF old
  <2>1. Returned(old, taken, p)
    BY <1>1, <1>5, <1>6, TakenAt
  <2>2. /\ back.position = p /\ back.deliveries = <<>>
        /\ back.given = old.given /\ back.revision = old.revision
        /\ back.eligible \subseteq old.eligible
        /\ \A card \in back.eligible : card.end <= p
        /\ \A card \in old.eligible : card.end <= p => card \in back.eligible
    BY <1>1, <1>5, <1>6, RecoveredAt
  <2> HIDE DEF back
  <2>3. Returned(old, back, p)
    BY <2>2 DEF Returned, Level
  <2> QED
    BY <2>1, <2>3
<1> HIDE DEF taken, back
<1>12. ASSUME NEW st, Sound(st, version), sessions' = [sessions EXCEPT ![s] = st], Keeps(old, st, p),
              Lead(old, p) => Returned(old, st, p)
       PROVE  /\ Sound(new, version) /\ sessions' = [sessions EXCEPT ![s] = new]
              /\ Keeps(old, new, p) /\ (Lead(old, p) => Returned(old, new, p))
  <2>1. new = st
    BY <1>1, <1>12
  <2> HIDE DEF old, new
  <2> QED
    BY <1>12, <2>1
<1>13. CASE ProvenanceFails(req)
  <2>1. sessions' = [sessions EXCEPT ![s] = back]
    BY <1>1, <1>13 DEF ProvenanceFails, back
  <2> HIDE DEF old, new
  <2> QED
    BY <1>1, <1>4, <1>5, <1>6, <1>7, <1>9, <1>11, <1>12, <2>1 DEF old, new
<1>14. CASE RerankFails(req)
  <2>1. sessions' = [sessions EXCEPT ![s] = taken]
    BY <1>1, <1>14 DEF RerankFails, taken
  <2> HIDE DEF old, new
  <2> QED
    BY <1>1, <1>4, <1>5, <1>6, <1>7, <1>10, <1>11, <1>12, <2>1 DEF old, new
<1>15. CASE \E st \in FeedbackOutcomes(req) : Feedback(req, st)
  <2>1. PICK st \in FeedbackOutcomes(req) : Feedback(req, st)
    BY <1>15
  <2>2. sessions' = [sessions EXCEPT ![s] = st]
    BY <2>1 DEF Feedback
  <2>3. st \in Reranked(taken, req.action)
    BY <1>2, <1>3, <1>4 DEF FeedbackOutcomes, taken
  <2>4. taken.deliveries = <<>>
    BY <1>10 DEF Keeps
  <2>5. Sound(st, version)
    BY <1>1, <1>7, <2>3, <2>4, RerankedSound
  <2>6. /\ st.position = taken.position /\ st.deliveries = taken.deliveries
        /\ st.eligible = taken.eligible /\ st.given = taken.given /\ st.revision = taken.revision
        /\ st.source = taken.source /\ st.items = taken.items
    BY <1>7, <2>3, RerankedSame
  <2>7. Keeps(old, st, p)
    BY <1>10, <2>6 DEF Keeps
  <2>8. Lead(old, p) => Returned(old, st, p)
    BY <1>11, <2>6 DEF Returned, Level
  <2> HIDE DEF old, new
  <2> QED
    BY <1>1, <1>4, <1>5, <1>6, <1>12, <2>2, <2>5, <2>7, <2>8 DEF old, new
<1> QED
  BY <1>13, <1>14, <1>15 DEF EventStep

LEMMA EventCarried ==
    ASSUME FeedInv, NEW req \in FeedbackRequest, req.accepted # None, EventStep(req),
           NEW s \in Known, NEW p \in Nat, s = req.session => p = req.accepted.position,
           sessions[s] # None => Lead(sessions[s], p)
    PROVE  Carried(sessions[s], sessions'[s], p)
<1> DEFINE old == sessions[s]
           new == sessions'[s]
<1>0. s \in SessionId /\ sessions \in [SessionId -> Session \cup {None}]
  BY KnownIds DEF FeedInv, FeedTypeOK
<1>1. old # None => old.revision \in Nat
  BY <1>0, SessionOf DEF FeedInv, Sound
<1>2. sessions' = [sessions EXCEPT ![req.session] = sessions'[req.session]]
  BY EventOutcome
<1>3. CASE s # req.session
  <2>1. new = old
    BY <1>0, <1>2, <1>3
  <2>2. old # None => Lead(old, p)
    OBVIOUS
  <2> HIDE DEF old
  <2>3. Carried(old, old, p)
    BY <1>1, <2>2 DEF Carried
  <2> QED
    BY <2>1, <2>3 DEF old
<1>4. CASE s = req.session
  <2>1. old # None /\ Lead(old, p) /\ p = req.accepted.position
    BY <1>4, EventOutcome
  <2>2. Returned(old, new, p)
    BY <1>4, <2>1, EventOutcome
  <2> HIDE DEF old, new
  <2>3. Lead(new, p)
    BY <2>2 DEF Returned, Level, Lead
  <2>4. ASSUME NEW a, Given(old, a, p), new # None PROVE Given(new, a, p)
    <3>1. CASE a \in old.given
      BY <2>2, <2>4, <3>1 DEF Given, Returned
    <3>2. CASE \E card \in old.eligible : card.article = a /\ card.end <= p
      BY <2>2, <3>2 DEF Given, Returned
    <3> QED
      BY <2>1, <2>4, <3>1, <3>2 DEF Given
  <2>5. old.revision <= new.revision
    BY <1>1, <2>1, <2>2 DEF Returned
  <2>6. Carried(old, new, p)
    BY <2>1, <2>2, <2>3, <2>4, <2>5 DEF Carried, Returned
  <2> QED
    BY <2>6 DEF old, new
<1> QED
  BY <1>3, <1>4

LEMMA EventRests ==
    ASSUME FeedInv, NEW req \in FeedbackRequest, req.accepted # None, EventStep(req),
           NEW s \in Known, Rest(sessions[s])
    PROVE  Rest(sessions'[s])
<1> DEFINE old == sessions[s]
           new == sessions'[s]
           p == req.accepted.position
<1>0. s \in SessionId /\ sessions \in [SessionId -> Session \cup {None}]
  BY KnownIds DEF FeedInv, FeedTypeOK
<1>1. sessions' = [sessions EXCEPT ![req.session] = sessions'[req.session]]
  BY EventOutcome
<1>2. CASE s # req.session
  <2>1. new = old
    BY <1>0, <1>1, <1>2
  <2> QED
    BY <2>1
<1>3. CASE s = req.session
  <2>1. /\ old # None /\ Sound(old, version) /\ Sound(new, version) /\ Keeps(old, new, p)
        /\ Recoverable(old, req.accepted)
    BY <1>3, EventOutcome DEF Matches
  <2>2. req.accepted \in Progress
    BY DEF FeedbackRequest
  <2>3. p \in Nat
    BY <2>2, ProgressType
  <2>4. Rest(old)
    OBVIOUS
  <2> HIDE DEF old, new
  <2>5. old.queue = <<>> /\ old.source = Len(old.items) /\ old.deliveries = <<>>
    BY <2>1, <2>4 DEF Rest
  <2>6. Chain(EndingAfter(old.deliveries, p), p, old.position)
    BY <2>1 DEF Recoverable
  <2>7. p = old.position
    BY <2>3, <2>5, <2>6, NoPages DEF Chain
  <2>8. /\ old.position \in Nat /\ new.position \in Nat /\ Len(new.queue) \in Nat
        /\ new.queue \in Seq(Row)
        /\ old.position + Len(old.queue) = old.source /\ new.position + Len(new.queue) = new.source
    BY <2>1, SessionOf DEF Sound, Conserved
  <2>9. new.position = old.position /\ new.source = old.source /\ new.items = old.items
        /\ new.deliveries = <<>>
    BY <2>1, <2>7 DEF Keeps
  <2>10. Len(old.queue) = 0
    BY <2>5
  <2>11. Len(new.queue) = 0
    BY <2>8, <2>9, <2>10
  <2>12. new.queue = <<>>
    BY <2>8, <2>11, EmptySeq
  <2> QED
    BY <2>5, <2>9, <2>12 DEF Rest, new
<1> QED
  BY <1>2, <1>3

-----------------------------------------------------------------------------
(* Types and counts                                                        *)

LEMMA PageRevision ==
    ASSUME FeedInv, NEW req \in PageRequest, Accepts(req),
           NEW st, st = Opened(req) \/ st \in PageOutcomes(req)
    PROVE  /\ st.revision = Opened(req).revision
           /\ Opened(req).revision = IF Opens(req) THEN 0 ELSE sessions[req.session].revision
           /\ st.position # Opened(req).position => Len(st.deliveries) > 0
<1> DEFINE old == Opened(req)
<1>1. /\ Sound(old, version) /\ version \in Nat /\ req.limit \in Nat \ {0} /\ old \in Session
      /\ old.version = version
  BY OpenedSound, SizeAssumption DEF FeedInv, FeedTypeOK, PageRequest, Sound
<1>2. old.revision = IF Opens(req) THEN 0 ELSE sessions[req.session].revision
  <2>1. CASE Opens(req)
    BY <2>1 DEF Opened, NewSession
  <2>2. CASE ~Opens(req)
    <3>1. /\ req.session # None /\ req.session \in SessionId
          /\ Found(req.session) = sessions[req.session]
      BY <2>2 DEF Opens, Found, PageRequest
    <3>2. sessions[req.session] \in Session
      BY <2>2, <3>1 DEF Accepts, FeedInv, Sound
    <3> QED
      BY <2>2, <3>1, <3>2 DEF Opened, Session
  <2> QED
    BY <2>1, <2>2
<1>3. ASSUME st \in PageOutcomes(req)
      PROVE  st.revision = old.revision /\ (st.position # old.position => Len(st.deliveries) > 0)
  <2>1. PICK arrived \in Arrivals(old, req.limit) : st = Deliver(arrived, req.limit)
    BY <1>3 DEF PageOutcomes
  <2> HIDE DEF old
  <2>2. /\ arrived.position = old.position /\ arrived.revision = old.revision
        /\ Sound(arrived, version)
    BY <1>1, Windowed, ArrivalsSound
  <2>3. /\ arrived \in Session /\ arrived.queue \in Seq(Row) /\ Len(arrived.queue) \in Nat
        /\ arrived.deliveries \in Seq(Page) /\ arrived.position \in Nat /\ arrived.revision \in Nat
    BY <2>2, SessionOf DEF Sound
  <2> DEFINE n == Smaller(req.limit, Len(arrived.queue))
             rows == SubSeq(arrived.queue, 1, n)
             page == [start |-> arrived.position, end |-> arrived.position + n,
                      revision |-> arrived.revision, rows |-> rows]
             all == Append(arrived.deliveries, page)
  <2>4. n \in Nat /\ n \in 0..Len(arrived.queue)
    BY <1>1, <2>3 DEF Smaller
  <2>5. /\ st.revision = arrived.revision /\ st.position = arrived.position + n
        /\ st.deliveries = IF n = 0 THEN arrived.deliveries ELSE Retained(all)
    <3> HIDE DEF rows, n
    <3> QED
      BY <2>1, <2>3 DEF Deliver, Session, rows, n
  <2>6. rows \in Seq(Row)
    <3>1. Distinct(arrived.queue)
      BY <2>2 DEF Sound, Conserved
    <3> HIDE DEF n
    <3> QED
      BY <2>3, <2>4, <3>1, Cut DEF Leading
  <2> HIDE DEF n, rows
  <2>7. ASSUME st.position # old.position PROVE Len(st.deliveries) > 0
    <3>1. n # 0
      BY <2>2, <2>3, <2>5, <2>7
    <3>2. page \in Page
      BY <2>3, <2>4, <2>6 DEF Page
    <3> HIDE DEF page
    <3>3. all \in Seq(Page) /\ Len(all) = Len(arrived.deliveries) + 1
      BY <2>3, <3>2, AppendProperties
    <3>4. Len(arrived.deliveries) \in Nat
      BY <2>3, LenProperties
    <3>5. Len(all) > 0 /\ Len(all) \in Nat
      BY <3>3, <3>4
    <3> HIDE DEF all
    <3>6. PICK from \in 1..Len(all) : Retained(all) = SubSeq(all, from, Len(all))
      BY <3>3, <3>5, RetainedIsSuffix
    <3>7. from \in 1..Len(all) + 1
      BY <3>5
    <3>8. Len(Retained(all)) = Len(all) - from + 1
      BY <3>3, <3>6, <3>7, SuffixPages
    <3> QED
      BY <2>5, <3>1, <3>5, <3>8
  <2> QED
    BY <2>2, <2>5, <2>7
<1> QED
  BY <1>2, <1>3

LEMMA EventCounts ==
    ASSUME FeedInv, NEW req \in FeedbackRequest, req.accepted # None, EventStep(req)
    PROVE  LET old == sessions[req.session]
               new == sessions'[req.session]
           IN  \/ new.revision = old.revision /\ recorded' = recorded
               \/ /\ new.revision = old.revision + 1 /\ recorded' = recorded + 1
                  /\ recorded < MaxFeedback
<1> DEFINE s == req.session
           old == sessions[s]
           back == Recover(old, req.accepted)
           taken == Taken(old, req)
<1>1. /\ s \in SessionId /\ old # None /\ Sound(old, version) /\ Matches(old, req)
      /\ sessions \in [SessionId -> Session \cup {None}] /\ version \in Nat
      /\ req.accepted \in Progress /\ Found(s) = old
  <2>1. Matches(Found(s), req)
    BY DEF EventStep, ProvenanceFails, RerankFails, FeedbackOutcomes
  <2> QED
    BY <2>1, EventOutcome DEF FeedInv, FeedTypeOK, FeedbackRequest, Found, Matches
<1>2. /\ old \in Session /\ back \in Session /\ taken \in Session
  <2> HIDE DEF old
  <2>1. Sound(back, version) /\ Sound(taken, version)
    BY <1>1, RecoverSound, TakenSound DEF Matches
  <2> QED
    BY <1>1, <2>1 DEF Sound
<1>3. back.revision = old.revision
  <2> DEFINE rows == RowsBetween(old.deliveries, req.accepted.position, old.position)
             queue == rows \o old.queue
             open == {card \in old.eligible : card.article \notin Articles(rows)}
  <2> HIDE DEF rows
  <2>1. req.accepted # None => back = [old EXCEPT !.queue = queue, !.eligible = open,
                           !.position = req.accepted.position, !.deliveries = <<>>]
    BY DEF Recover, rows
  <2> HIDE DEF queue, open, back, old
  <2> QED
    BY <1>2, <2>1 DEF Session
<1>4. taken.revision = old.revision + 1
  <2> DEFINE open == {card \in back.eligible : card.article # req.article}
             given == back.given \cup {req.article}
  <2>1. taken = [back EXCEPT !.eligible = open, !.given = given, !.deliveries = <<>>,
                             !.revision = @ + 1]
    <3> HIDE DEF back
    <3> QED
      BY <1>2 DEF Taken, Session, back
  <2> HIDE DEF open, given, back, taken, old
  <2> QED
    BY <1>2, <1>3, <2>1 DEF Session
<1>5. ASSUME NEW st, sessions' = [sessions EXCEPT ![s] = st] PROVE sessions'[s] = st
  BY <1>1, <1>5
<1>6. CASE ProvenanceFails(req)
  <2>1. sessions' = [sessions EXCEPT ![s] = back] /\ recorded' = recorded
    BY <1>1, <1>6 DEF ProvenanceFails
  <2> HIDE DEF back
  <2> QED
    BY <1>3, <1>5, <2>1
<1>7. CASE RerankFails(req)
  <2>1. sessions' = [sessions EXCEPT ![s] = taken] /\ recorded' = recorded + 1 /\ recorded < MaxFeedback
    BY <1>1, <1>7 DEF RerankFails, Profile
  <2> HIDE DEF taken
  <2> QED
    BY <1>4, <1>5, <2>1
<1>8. CASE \E st \in FeedbackOutcomes(req) : Feedback(req, st)
  <2>1. PICK st \in FeedbackOutcomes(req) : Feedback(req, st)
    BY <1>8
  <2>2. sessions' = [sessions EXCEPT ![s] = st] /\ recorded' = recorded + 1 /\ recorded < MaxFeedback
    BY <2>1 DEF Feedback, Profile
  <2>3. st \in Reranked(taken, req.action)
    BY <1>1, <2>1 DEF FeedbackOutcomes
  <2> HIDE DEF taken
  <2>4. st.revision = taken.revision
    BY <1>2, <2>3, RerankedSame
  <2> QED
    BY <1>4, <1>5, <2>2, <2>4
<1> QED
  BY <1>6, <1>7, <1>8 DEF EventStep

LEMMA CountedStep ==
    ASSUME FeedInv, Counted,
           \/ UNCHANGED feedVars
           \/ \E req \in PageRequest : PageStep(req)
           \/ \E req \in FeedbackRequest : req.accepted # None /\ EventStep(req)
           \/ NewRules \/ \E s \in SessionId : Forget(s)
    PROVE  Counted'
<1>0. /\ sessions \in [SessionId -> Session \cup {None}] /\ recorded \in Nat /\ MaxFeedback \in Nat
      /\ recorded <= MaxFeedback
      /\ \A s \in SessionId : sessions[s] # None =>
           sessions[s].revision <= recorded /\ sessions[s].revision \in Nat
  BY FeedBoundAssumption, SessionOf DEF FeedInv, FeedTypeOK, Counted, Sound
<1>1. CASE UNCHANGED feedVars \/ NewRules
  BY <1>0, <1>1 DEF Counted, feedVars, NewRules
<1>2. ASSUME NEW s \in SessionId, Forget(s) PROVE Counted'
  <2>1. recorded' = recorded /\ \A t \in SessionId : sessions'[t] # None => sessions'[t] = sessions[t]
    BY <1>0, <1>2 DEF Forget
  <2> QED
    BY <1>0, <2>1 DEF Counted
<1>3. ASSUME NEW req \in PageRequest, PageStep(req) PROVE Counted'
  <2>1. PICK st : /\ st = Opened(req) \/ st \in PageOutcomes(req)
                  /\ sessions'[OpenedId(req)] = st
                  /\ \A s \in SessionId : s # OpenedId(req) => sessions'[s] = sessions[s]
    BY <1>3, PageStepStores
  <2>2. Accepts(req) /\ recorded' = recorded
    BY <1>3, PageStepStores DEF PageStep, PageFails, FeedPage
  <2>3. st.revision = IF Opens(req) THEN 0 ELSE sessions[req.session].revision
    BY <2>1, <2>2, PageRevision
  <2>4. ~Opens(req) => req.session \in SessionId /\ sessions[req.session] # None
    BY <2>2 DEF Accepts, Opens, Found, PageRequest
  <2>5. st.revision <= recorded
    BY <1>0, <2>3, <2>4
  <2> QED
    BY <1>0, <2>1, <2>2, <2>5 DEF Counted
<1>4. ASSUME NEW req \in FeedbackRequest, req.accepted # None, EventStep(req) PROVE Counted'
  <2> DEFINE s == req.session
             old == sessions[s]
             new == sessions'[s]
  <2>1. s \in SessionId /\ old # None /\ sessions' = [sessions EXCEPT ![s] = new]
    BY <1>4, EventOutcome
  <2>2. \/ new.revision = old.revision /\ recorded' = recorded
        \/ /\ new.revision = old.revision + 1 /\ recorded' = recorded + 1
           /\ recorded < MaxFeedback
    BY <1>4, EventCounts
  <2>3. \A t \in SessionId : t # s => sessions'[t] = sessions[t]
    <3> HIDE DEF new
    <3> QED
      BY <1>0, <2>1
  <2>4. new.revision <= recorded' /\ recorded <= recorded' /\ recorded' <= MaxFeedback
        /\ recorded' \in Nat
    BY <1>0, <2>1, <2>2
  <2>5. ASSUME NEW t \in SessionId, sessions'[t] # None PROVE sessions'[t].revision <= recorded'
    <3>1. CASE t = s
      BY <2>4, <3>1
    <3>2. CASE t # s
      <4>1. sessions[t].revision <= recorded /\ sessions[t].revision \in Nat /\ sessions'[t] = sessions[t]
        BY <1>0, <2>3, <2>5, <3>2
      <4> QED
        BY <1>0, <2>4, <4>1
    <3> QED
      BY <3>1, <3>2
  <2> QED
    BY <2>4, <2>5 DEF Counted
<1> QED
  BY <1>1, <1>2, <1>3, <1>4

LEMMA TypesGrow ==
    ASSUME Known \subseteq Known'
    PROVE  /\ ShownCard \subseteq ShownCard' /\ Cursor \subseteq Cursor'
           /\ PageAnswer \subseteq PageAnswer' /\ Reply \subseteq Reply'
           /\ KnownPage \subseteq KnownPage' /\ KnownEvent \subseteq KnownEvent'
           /\ Scrolls \subseteq Scrolls' /\ Posts \subseteq Posts'
<1>1. ShownCard \subseteq ShownCard' /\ Cursor \subseteq Cursor'
  BY DEF ShownCard, Cursor, Positions, Revisions
<1>2. PageAnswer \subseteq PageAnswer' /\ Reply \subseteq Reply'
  BY <1>1 DEF PageAnswer, Reply, Positions, Revisions
<1>3. KnownPage \subseteq KnownPage' /\ KnownEvent \subseteq KnownEvent'
  BY DEF KnownPage, KnownEvent
<1>4. Scrolls \subseteq Scrolls' /\ Posts \subseteq Posts'
  BY <1>2, <1>3 DEF Scrolls, Posts
<1> QED
  BY <1>1, <1>2, <1>3, <1>4

\* Whom a request of the tab reaches.
ServerStep ==
    \/ UNCHANGED feedVars
    \/ \E req \in PageRequest : PageStep(req)
    \/ \E req \in FeedbackRequest : req.accepted # None /\ EventStep(req)
    \/ NewRules \/ \E s \in SessionId : Forget(s)

LEMMA EventReaches ==
    ASSUME FeedInv, NEW req \in KnownEvent, EventStep(req)
    PROVE  /\ EventStep(AskedOf(req)) /\ AskedOf(req) \in FeedbackRequest
           /\ AskedOf(req).accepted # None /\ AskedOf(req).session = req.session
           /\ AskedOf(req).accepted = req.accepted
<1>1. req.accepted # None
  BY KnownEventType, ProgressType
<1> QED
  BY <1>1, Projected DEF EventStep

LEMMA ScrollOf ==
    ASSUME TabTypeOK, scroll # None
    PROVE  /\ scroll.req \in KnownPage /\ scroll.answer \in PageAnswer \cup {None, Failed}
           /\ \A x : /\ [scroll EXCEPT !.answer = x] = [answer |-> x, req |-> scroll.req]
                     /\ [scroll EXCEPT !.answer = x].req = scroll.req
                     /\ [scroll EXCEPT !.answer = x].answer = x
BY DEF TabTypeOK, Scrolls

LEMMA PostOf ==
    ASSUME TabTypeOK, post # None
    PROVE  /\ post.req \in KnownEvent /\ post.answer \in Reply \cup {None, Failed}
           /\ \A x : /\ [post EXCEPT !.answer = x] = [answer |-> x, req |-> post.req]
                     /\ [post EXCEPT !.answer = x].req = post.req
                     /\ [post EXCEPT !.answer = x].answer = x
BY DEF TabTypeOK, Posts

LEMMA AnswerPageServes ==
    ASSUME FeedInv, TabTypeOK, AnswerPage
    PROVE  /\ scroll.req \in KnownPage /\ scroll.req \in PageRequest
           /\ PageStep(scroll.req) \/ UNCHANGED feedVars
<1>1. scroll.req \in KnownPage
  BY ScrollOf DEF AnswerPage
<1>2. scroll.req \in PageRequest
  BY <1>1, KnownPageType
<1>3. PageStep(scroll.req) \/ UNCHANGED feedVars
  BY DEF AnswerPage, PageStep
<1> QED
  BY <1>1, <1>2, <1>3

LEMMA AnswerEventServes ==
    ASSUME FeedInv, TabTypeOK, AnswerEvent
    PROVE  /\ post.req \in KnownEvent
           /\ EventStep(post.req) \/ UNCHANGED feedVars
<1>1. post.req \in KnownEvent
  BY PostOf DEF AnswerEvent
<1>2. EventStep(post.req) \/ UNCHANGED feedVars
  BY DEF AnswerEvent, EventStep
<1> QED
  BY <1>1, <1>2

LEMMA DroppedServes ==
    ASSUME FeedInv, TabTypeOK, DroppedArrives
    PROVE  \E req \in dropped :
             /\ dropped' = dropped \ {req}
             /\ \/ req \in KnownPage /\ req \in PageRequest /\ PageStep(req)
                \/ req \in KnownEvent /\ EventStep(req) /\ req.session = req.named
<1>1. PICK req \in dropped :
        /\ dropped' = dropped \ {req}
        /\ \/ /\ "limit" \in DOMAIN req
              /\ PageFails(req) \/ \E st \in PageOutcomes(req) : FeedPage(req, st)
           \/ /\ "named" \in DOMAIN req /\ req.session = req.named
              /\ \/ RerankFails(req) \/ ProvenanceFails(req)
                 \/ \E st \in FeedbackOutcomes(req) : Feedback(req, st)
  BY DEF DroppedArrives, EventRefused
<1>2. req \in KnownPage \/ req \in KnownEvent
  BY DEF TabTypeOK
<1>3. CASE "limit" \in DOMAIN req /\ PageStep(req)
  <2>1. req \in KnownPage
    BY <1>2, <1>3, KnownEventType
  <2>2. req \in PageRequest
    BY <2>1, KnownPageType
  <2> QED
    BY <1>1, <1>3, <2>1, <2>2
<1>4. CASE "named" \in DOMAIN req /\ req.session = req.named /\ EventStep(req)
  <2>1. req \in KnownEvent
    BY <1>2, <1>4, KnownPageType
  <2> QED
    BY <1>1, <1>4, <2>1
<1> QED
  BY <1>1, <1>3, <1>4 DEF PageStep, EventStep

LEMMA NextServes ==
    ASSUME FeedInv, TabTypeOK, [Next]_vars
    PROVE  ServerStep
<1>1. CASE AnswerPage
  BY <1>1, AnswerPageServes DEF ServerStep
<1>2. CASE AnswerEvent
  BY <1>2, AnswerEventServes, EventReaches DEF ServerStep
<1>3. CASE DroppedArrives
  BY <1>3, DroppedServes, EventReaches DEF ServerStep
<1>4. CASE Environment
  BY <1>4 DEF Environment, ServerStep
<1>5. CASE \/ \E limit \in Limit : LoadFeedPage(limit)
           \/ AcceptFeedPage \/ PageError \/ PageLost
           \/ \E card \in cards, action \in {"click", "skip"} : EventOf(card, action)
           \/ EventDone \/ EventError \/ EventLost \/ Refresh
           \/ UNCHANGED vars
  <2>1. UNCHANGED feedVars
    BY <1>5 DEF LoadFeedPage, AcceptFeedPage, PageError, PageLost, EventOf, EventDone, EventError,
                EventLost, Refresh, vars
  <2> QED
    BY <2>1 DEF ServerStep
<1> QED
  BY <1>1, <1>2, <1>3, <1>4, <1>5 DEF Next

LEMMA ServerInv ==
    ASSUME FeedInv, ServerStep
    PROVE  FeedInv' /\ created <= created' /\ Known \subseteq Known'
<1>1. FeedInv'
  <2>1. CASE UNCHANGED feedVars
    BY <2>1, FeedNextInv
  <2>2. CASE \E req \in PageRequest : PageStep(req)
    <3>1. PICK req \in PageRequest : PageStep(req)
      BY <2>2
    <3>2. Accepts(req)
      BY <3>1, PageStepStores
    <3> QED
      BY <3>1, <3>2, FeedPageInv DEF PageStep
  <2>3. CASE \E req \in FeedbackRequest : req.accepted # None /\ EventStep(req)
    <3>1. PICK req \in FeedbackRequest : req.accepted # None /\ EventStep(req)
      BY <2>3
    <3>2. Matches(Found(req.session), req)
      BY <3>1 DEF EventStep, ProvenanceFails, RerankFails, FeedbackOutcomes
    <3> QED
      BY <3>1, <3>2, FeedbackInv DEF EventStep
  <2>4. CASE NewRules \/ \E s \in SessionId : Forget(s)
    BY <2>4, NewRulesInv, ForgetInv
  <2> QED
    BY <2>1, <2>2, <2>3, <2>4 DEF ServerStep
<1>2. created \in Nat /\ created' \in Nat
  BY <1>1 DEF FeedInv, FeedTypeOK
<1>3. created <= created'
  <2>1. CASE \E req \in PageRequest : PageStep(req)
    <3>1. PICK req \in PageRequest : PageStep(req)
      BY <2>1
    <3>2. created' = Larger(created, OpenedId(req)) /\ OpenedId(req) \in Nat
      BY <3>1, PageStepStores DEF PageStep, PageFails, FeedPage, Store, SessionId
    <3> QED
      BY <1>2, <3>2 DEF Larger
  <2>2. CASE ~ \E req \in PageRequest : PageStep(req)
    BY <1>2, <2>2 DEF ServerStep, feedVars, EventStep, ProvenanceFails, RerankFails, Feedback,
                      Profile, NewRules, Forget
  <2> QED
    BY <2>1, <2>2
<1> QED
  BY <1>1, <1>2, <1>3 DEF Known

LEMMA CursorType ==
    ASSUME NEW id \in Known, NEW st, st.position \in Positions, st.revision \in Revisions
    PROVE  /\ NextCursor(id, st) \in Cursor
           /\ Names(NextCursor(id, st), id, st.position, st.revision)
           /\ id \in Nat /\ NextCursor(id, st) = None => ~HasMore(st)
<1>1. /\ NextCursor(id, st) \in Cursor
      /\ Names(NextCursor(id, st), id, st.position, st.revision)
  BY DEF NextCursor, Cursor, Names
<1>2. ASSUME id \in Nat, HasMore(st) PROVE NextCursor(id, st) # None
  <2>1. Cardinality(Article) \in Nat /\ MaxFeedback \in Nat
    BY ArticleAssumption, FS_CardinalityType, FeedBoundAssumption
  <2>2. st.position \in Nat /\ st.revision \in Nat
    BY <2>1 DEF Positions, Revisions
  <2>3. NextCursor(id, st) \in TabCursor
    BY <1>2, <2>2 DEF NextCursor, TabCursor
  <2> QED
    BY <2>3, NoneAssumption
<1> QED
  BY <1>1, <1>2

\* A stored session is within the bounds of cursors.
LEMMA StoredBounds ==
    ASSUME FeedInv, Counted, NEW s \in SessionId, sessions[s] # None
    PROVE  sessions[s].position \in Positions /\ sessions[s].revision \in Revisions
<1>1. Sound(sessions[s], version) /\ version \in Nat /\ recorded \in Nat
  BY DEF FeedInv, FeedTypeOK
<1>2. sessions[s].revision \in Nat /\ sessions[s].revision <= recorded /\ recorded <= MaxFeedback
  BY <1>1, SessionOf DEF Sound, Counted
<1>3. sessions[s].position \in Positions
  BY <1>1, PositionBound
<1> QED
  BY <1>1, <1>2, <1>3, FeedBoundAssumption DEF Revisions

LEMMA OutcomeSound ==
    ASSUME FeedInv, Counted, NEW req \in PageRequest, NEW st \in PageOutcomes(req)
    PROVE  /\ Sound(st, version) /\ Accepts(req)
           /\ st.position \in Positions /\ st.revision \in Revisions
<1>1. Accepts(req)
  BY DEF PageOutcomes
<1>2. /\ Sound(Opened(req), version) /\ Opened(req).version = version /\ version \in Nat
      /\ req.limit \in Nat \ {0}
  BY <1>1, OpenedSound, SizeAssumption DEF FeedInv, FeedTypeOK, PageRequest
<1>3. PICK old \in Arrivals(Opened(req), req.limit) : st = Deliver(old, req.limit)
  BY DEF PageOutcomes
<1>4. Sound(old, version)
  BY <1>2, <1>3, ArrivalsSound
<1>5. Sound(st, version)
  BY <1>2, <1>3, <1>4, DeliverSound
<1>6. st.position \in Positions
  BY <1>2, <1>5, PositionBound
<1>7. st.revision \in Revisions
  <2>1. st.revision = IF Opens(req) THEN 0 ELSE sessions[req.session].revision
    BY <1>1, PageRevision
  <2>2. ~Opens(req) => req.session \in SessionId /\ sessions[req.session] # None
    BY <1>1 DEF Accepts, Opens, Found, PageRequest
  <2>3. ~Opens(req) => sessions[req.session].revision \in Revisions
    BY <2>2, StoredBounds
  <2> QED
    BY <2>1, <2>3, FeedBoundAssumption DEF Revisions
<1> QED
  BY <1>1, <1>5, <1>6, <1>7

LEMMA PageOfType ==
    ASSUME FeedInv, Counted, NEW req \in KnownPage, NEW st \in PageOutcomes(req),
           FeedPage(req, st)
    PROVE  PageOf(req, st) \in PageAnswer' /\ OpenedId(req) \in Known'
<1> DEFINE id == OpenedId(req)
           articles == IF st.position = Opened(req).position THEN {}
                       ELSE Articles(Last(st.deliveries).rows)
<1>1. req \in PageRequest
  BY KnownPageType
<1>2. /\ Sound(st, version) /\ Accepts(req) /\ version \in Nat
      /\ st.position \in Positions /\ st.revision \in Revisions
  BY <1>1, OutcomeSound DEF FeedInv, FeedTypeOK
<1>3. id \in Known'
  <2>1. created' = Larger(created, id) /\ created \in Nat
    BY DEF FeedPage, Store, FeedInv, FeedTypeOK
  <2>2. id \in SessionId
    BY <1>1, <1>2, OpenedSound
  <2>3. id \in Nat /\ id >= 1
    BY <2>2, FeedBoundAssumption DEF SessionId
  <2> HIDE DEF id
  <2> QED
    BY <2>1, <2>3 DEF Known, Larger
<1>4. articles \in SUBSET Article
  <2>1. ASSUME st.position # Opened(req).position
        PROVE  Articles(Last(st.deliveries).rows) \subseteq Article
    <3>1. Len(st.deliveries) > 0
      BY <1>1, <1>2, <2>1, PageRevision
    <3>2. st.deliveries \in Seq(Page) /\ Len(st.deliveries) \in Nat
      BY <1>2, SessionOf DEF Sound
    <3>3. Len(st.deliveries) \in 1..Len(st.deliveries)
      BY <3>1, <3>2
    <3>4. st.deliveries[Len(st.deliveries)].rows \in Seq(Row)
      BY <3>2, <3>3, PagesOf
    <3> QED
      BY <3>4, ArticlesOf DEF Last
  <2> QED
    BY <2>1
<1>5. NextCursor(id, st) \in Cursor'
  <2> HIDE DEF id
  <2> QED
    BY <1>2, <1>3 DEF NextCursor, Cursor, Positions, Revisions
<1>6. MustReset(req) \in BOOLEAN
  BY DEF MustReset
<1>7. PageOf(req, st) = [session |-> id, cursor |-> NextCursor(id, st), articles |-> articles,
                         position |-> st.position, revision |-> st.revision, version |-> version,
                         reset |-> MustReset(req)]
  BY DEF PageOf
<1> HIDE DEF id, articles
<1>8. st.position \in Positions' /\ st.revision \in Revisions'
  BY <1>2 DEF Positions, Revisions
<1> QED
  BY <1>2, <1>3, <1>4, <1>5, <1>6, <1>7, <1>8 DEF PageAnswer, id

LEMMA EventAnswerType ==
    ASSUME FeedInv, Counted, Counted', NEW req \in KnownEvent, EventStep(req)
    PROVE  LET new == sessions'[req.session] IN
           /\ new.position = req.accepted.position
           /\ new.position \in Positions /\ new.revision \in Revisions
           /\ Sound(new, version) /\ created' = created /\ version' = version
<1> DEFINE ask == AskedOf(req)
           s == req.session
           old == sessions[s]
           new == sessions'[s]
<1>1. /\ EventStep(ask) /\ ask \in FeedbackRequest /\ ask.accepted # None
      /\ ask.session = s /\ ask.accepted = req.accepted
  BY EventReaches
<1> HIDE DEF ask
<1>2. /\ s \in SessionId /\ old # None /\ Sound(old, version) /\ Sound(new, version)
      /\ Keeps(old, new, req.accepted.position)
  BY <1>1, EventOutcome
<1>3. new.position = req.accepted.position /\ req.accepted.position \in Positions
  BY <1>2, KnownEventType, ProgressType DEF Keeps
<1>4. \/ new.revision = old.revision /\ recorded' = recorded
      \/ /\ new.revision = old.revision + 1 /\ recorded' = recorded + 1
         /\ recorded < MaxFeedback
  BY <1>1, EventCounts
<1>5. new.revision \in Revisions
  <2>1. /\ old.revision <= recorded /\ recorded <= MaxFeedback /\ recorded \in Nat
        /\ old.revision \in Nat
    BY <1>2, SessionOf DEF Counted, Sound, FeedInv, FeedTypeOK
  <2> QED
    BY <1>4, <2>1, FeedBoundAssumption DEF Revisions
<1>6. created' = created /\ version' = version
  BY DEF EventStep, ProvenanceFails, RerankFails, Feedback, Profile
<1> QED
  BY <1>2, <1>3, <1>5, <1>6

LEMMA TabTypeKept ==
    ASSUME TabTypeOK, Known \subseteq Known',
           UNCHANGED <<feedSession, feedCursor, feedHasMore, feedQueueRevision,
                       feedAcceptedPosition, cards, shown, failures>>,
           scroll' \in Scrolls', post' \in Posts', dropped' \subseteq dropped
    PROVE  TabTypeOK'
<1>1. /\ ShownCard \subseteq ShownCard' /\ Cursor \subseteq Cursor'
      /\ KnownPage \subseteq KnownPage' /\ KnownEvent \subseteq KnownEvent'
  BY TypesGrow
<1>2. feedSession' \in Known' \cup {None} /\ feedCursor' \in Cursor' /\ feedHasMore' \in BOOLEAN
  BY <1>1 DEF TabTypeOK
<1>3. feedQueueRevision' \in Revisions' /\ feedAcceptedPosition' \in Positions'
  BY DEF TabTypeOK, Revisions, Positions
<1>4. cards' \subseteq shown' /\ shown' \subseteq ShownCard' /\ failures' \in Nat
  BY <1>1 DEF TabTypeOK
<1>5. dropped' \subseteq KnownPage' \cup KnownEvent'
  BY <1>1 DEF TabTypeOK
<1> QED
  BY <1>2, <1>3, <1>4, <1>5 DEF TabTypeOK

LEMMA AnswerPageType ==
    ASSUME FeedInv, Counted, TabTypeOK, AnswerPage
    PROVE  TabTypeOK'
<1>1. /\ scroll # None /\ post' = post /\ dropped' = dropped
      /\ UNCHANGED <<feedSession, feedCursor, feedHasMore, feedQueueRevision,
                     feedAcceptedPosition, cards, shown, failures>>
  BY DEF AnswerPage, tabVars
<1>2. /\ scroll.req \in KnownPage
      /\ \A x : [scroll EXCEPT !.answer = x] = [answer |-> x, req |-> scroll.req]
  BY <1>1, ScrollOf
<1>3. ServerStep
  BY AnswerPageServes DEF ServerStep
<1>4. Known \subseteq Known' /\ KnownPage \subseteq KnownPage' /\ Posts \subseteq Posts'
  BY <1>3, ServerInv, TypesGrow
<1>5. scroll' \in Scrolls'
  <2>1. ASSUME NEW st \in PageOutcomes(scroll.req), FeedPage(scroll.req, st),
               scroll' = [scroll EXCEPT !.answer = PageOf(scroll.req, st)]
        PROVE  scroll' \in Scrolls'
    <3>1. PageOf(scroll.req, st) \in PageAnswer'
      BY <1>2, <2>1, PageOfType
    <3>2. scroll' = [answer |-> PageOf(scroll.req, st), req |-> scroll.req]
      BY <1>2, <2>1
    <3> QED
      BY <1>2, <1>4, <3>1, <3>2 DEF Scrolls
  <2>2. ASSUME scroll' = [scroll EXCEPT !.answer = Failed] PROVE scroll' \in Scrolls'
    <3>1. scroll' = [answer |-> Failed, req |-> scroll.req]
      BY <1>2, <2>2
    <3> QED
      BY <1>2, <1>4, <3>1 DEF Scrolls
  <2> QED
    BY <2>1, <2>2 DEF AnswerPage
<1>6. post' \in Posts'
  BY <1>1, <1>4 DEF TabTypeOK
<1> QED
  BY <1>1, <1>4, <1>5, <1>6, TabTypeKept

\* An event that is waited for is not None.
LEMMA PostWaits ==
    ASSUME FeedInv, NEW a \in Reply \cup {None, Failed}, NEW r \in KnownEvent
    PROVE  [answer |-> a, req |-> r] # None
<1>1. Known \subseteq Nat
  BY KnownIds
<1>2. Cardinality(Article) \in Nat /\ MaxFeedback \in Nat
  BY ArticleAssumption, FS_CardinalityType, FeedBoundAssumption
<1>3. Positions \subseteq Nat /\ Revisions \subseteq Nat /\ Progress \subseteq FeedCursor
  BY <1>2 DEF Positions, Revisions, Progress, FeedCursor
<1>4. Cursor \subseteq TabCursor \cup {None}
  BY <1>1, <1>3 DEF Cursor, TabCursor
<1>5. Reply \subseteq EventAnswer
  BY <1>1, <1>3, <1>4 DEF Reply, EventAnswer
<1>6. KnownEvent \subseteq EventRequest
  BY <1>1, <1>3 DEF KnownEvent, EventRequest
<1>7. [answer |-> a, req |-> r] \in Waiting
  BY <1>5, <1>6 DEF Waiting
<1> QED
  BY <1>7, NoneAssumption

LEMMA AnswerEventType ==
    ASSUME FeedInv, Counted, Counted', TabTypeOK, AnswerEvent
    PROVE  TabTypeOK' /\ post' # None
<1>1. /\ post # None /\ scroll' = scroll /\ dropped' = dropped
      /\ UNCHANGED <<feedSession, feedCursor, feedHasMore, feedQueueRevision,
                     feedAcceptedPosition, cards, shown, failures>>
  BY DEF AnswerEvent, tabVars
<1> DEFINE req == post.req
<1>2. /\ req \in KnownEvent
      /\ \A x : [post EXCEPT !.answer = x] = [answer |-> x, req |-> req]
  BY <1>1, PostOf
<1>3. ServerStep
  BY AnswerEventServes, EventReaches DEF ServerStep
<1>4. /\ Known \subseteq Known' /\ KnownEvent \subseteq KnownEvent' /\ Scrolls \subseteq Scrolls'
  BY <1>3, ServerInv, TypesGrow
<1> HIDE DEF req
<1>5. post' \in Posts' /\ post' # None
  <2>1. ASSUME NEW st \in FeedbackOutcomes(req), Feedback(req, st),
               post' = [post EXCEPT !.answer =
                          [session |-> req.session, cursor |-> NextCursor(req.session, st),
                           position |-> req.accepted.position, revision |-> st.revision]]
        PROVE  post' \in Posts' /\ post' # None
    <3> DEFINE answer == [session |-> req.session, cursor |-> NextCursor(req.session, st),
                          position |-> req.accepted.position, revision |-> st.revision]
    <3>1. EventStep(req)
      BY <2>1 DEF EventStep
    <3>2. sessions'[req.session] = st
      <4>1. req.session \in SessionId /\ sessions \in [SessionId -> Session \cup {None}]
        BY <1>2, KnownEventType, KnownIds DEF FeedInv, FeedTypeOK
      <4> QED
        BY <2>1, <4>1 DEF Feedback
    <3>3. /\ st.position \in Positions /\ st.revision \in Revisions
          /\ req.accepted.position \in Positions
      BY <1>2, <3>1, <3>2, EventAnswerType
    <3>4. req.session \in Known
      BY <1>2, KnownEventType
    <3>5. NextCursor(req.session, st) \in Cursor
      BY <3>3, <3>4, CursorType
    <3>6. answer \in Reply
      BY <3>3, <3>4, <3>5 DEF Reply
    <3>7. answer \in Reply'
      BY <1>4, <3>6, TypesGrow
    <3>8. post' = [answer |-> answer, req |-> req]
      BY <1>2, <2>1
    <3> HIDE DEF answer
    <3> QED
      BY <1>2, <1>4, <3>6, <3>7, <3>8, PostWaits DEF Posts
  <2>2. ASSUME post' = [post EXCEPT !.answer = Failed] PROVE post' \in Posts' /\ post' # None
    <3>1. post' = [answer |-> Failed, req |-> req]
      BY <1>2, <2>2
    <3> QED
      BY <1>2, <1>4, <3>1, PostWaits DEF Posts
  <2> QED
    BY <2>1, <2>2 DEF AnswerEvent, req
<1>6. scroll' \in Scrolls'
  BY <1>1, <1>4 DEF TabTypeOK
<1>7. dropped' \subseteq dropped
  BY <1>1
<1> QED
  BY <1>1, <1>4, <1>5, <1>6, <1>7, TabTypeKept

\* A step of the tab leaves the sessions alone.
TabStep ==
    \/ \E limit \in Limit : LoadFeedPage(limit)
    \/ AcceptFeedPage \/ PageError \/ PageLost
    \/ \E card \in cards, action \in {"click", "skip"} : EventOf(card, action)
    \/ EventDone \/ EventError \/ EventLost \/ Refresh

LEMMA TabStepStays ==
    ASSUME TabStep
    PROVE  /\ UNCHANGED feedVars /\ sessions' = sessions /\ Known' = Known
           /\ ShownCard' = ShownCard /\ Cursor' = Cursor /\ PageAnswer' = PageAnswer
           /\ Reply' = Reply /\ KnownPage' = KnownPage /\ KnownEvent' = KnownEvent
           /\ Scrolls' = Scrolls /\ Posts' = Posts /\ Positions' = Positions
           /\ Revisions' = Revisions
<1>1. UNCHANGED feedVars
  BY DEF TabStep, LoadFeedPage, AcceptFeedPage, PageError, PageLost, EventOf, EventDone, EventError,
         EventLost, Refresh
<1>2. sessions' = sessions /\ Known' = Known
  BY <1>1 DEF feedVars, Known
<1>3. ShownCard' = ShownCard /\ Cursor' = Cursor /\ Positions' = Positions /\ Revisions' = Revisions
  BY <1>2 DEF ShownCard, Cursor, Positions, Revisions
<1>4. PageAnswer' = PageAnswer /\ Reply' = Reply /\ KnownPage' = KnownPage /\ KnownEvent' = KnownEvent
  BY <1>2, <1>3 DEF PageAnswer, Reply, KnownPage, KnownEvent
<1>5. Scrolls' = Scrolls /\ Posts' = Posts
  BY <1>4 DEF Scrolls, Posts
<1> QED
  BY <1>1, <1>2, <1>3, <1>4, <1>5

LEMMA DropType ==
    ASSUME TabTypeOK, NEW r, r = scroll \/ r = post, Drop(Unanswered(r))
    PROVE  /\ dropped' \subseteq KnownPage \cup KnownEvent
           /\ dropped \subseteq dropped' /\ dropped' \subseteq dropped \cup {r.req}
           /\ dropped' # dropped => r # None /\ r.answer = None /\ r.req \in KnownPage \cup KnownEvent
<1>1. dropped' = dropped \/ dropped' = dropped \cup Unanswered(r)
  BY DEF Drop
<1>2. Unanswered(r) \subseteq {r.req}
  BY DEF Unanswered
<1>3. Unanswered(r) # {} => r # None /\ r.answer = None
  BY DEF Unanswered
<1>4. r # None => r.req \in KnownPage \cup KnownEvent
  BY ScrollOf, PostOf
<1>5. dropped \subseteq KnownPage \cup KnownEvent
  BY DEF TabTypeOK
<1> QED
  BY <1>1, <1>2, <1>3, <1>4, <1>5

\* The next page that the tab asks for.
NextRequest(limit) ==
    IF feedCursor = None THEN [session |-> feedSession, cursor |-> None, limit |-> limit]
    ELSE [session |-> feedCursor.session, limit |-> limit,
          cursor |-> [position |-> feedCursor.position, revision |-> feedCursor.revision]]

LEMMA NextRequestType ==
    ASSUME FeedInv, TabTypeOK, NEW limit \in Limit
    PROVE  /\ NextRequest(limit) \in KnownPage
           /\ feedCursor = None => /\ NextRequest(limit).session = feedSession
                                   /\ NextRequest(limit).cursor = None
           /\ feedCursor # None => /\ NextRequest(limit).session = feedCursor.session
                                   /\ NextRequest(limit).cursor # None
                                   /\ NextRequest(limit).cursor.position = feedCursor.position
                                   /\ NextRequest(limit).cursor.revision = feedCursor.revision
<1> DEFINE req == NextRequest(limit)
<1>1. feedSession \in Known \cup {None} /\ feedCursor \in Cursor
  BY DEF TabTypeOK
<1>2. Known \subseteq SessionId /\ None \notin Known
  BY KnownIds
<1>3. CASE feedCursor = None
  <2>1. req = [session |-> feedSession, cursor |-> None, limit |-> limit]
    BY <1>3 DEF NextRequest
  <2>2. req \in PageRequest
    BY <1>1, <1>2, <2>1 DEF PageRequest
  <2> QED
    BY <1>1, <1>3, <2>1, <2>2 DEF KnownPage
<1>4. CASE feedCursor # None
  <2> DEFINE cursor == [position |-> feedCursor.position, revision |-> feedCursor.revision]
  <2>1. req = [session |-> feedCursor.session, limit |-> limit, cursor |-> cursor]
    BY <1>4 DEF NextRequest
  <2>2. feedCursor.session \in Known /\ cursor \in Progress
    BY <1>1, <1>4 DEF Cursor, Progress, Positions, Revisions
  <2>3. req \in PageRequest
    BY <1>2, <2>1, <2>2 DEF PageRequest
  <2> QED
    BY <1>4, <2>1, <2>2, <2>3, ProgressType DEF KnownPage
<1> QED
  BY <1>3, <1>4

LEMMA LoadFeedPageType ==
    ASSUME FeedInv, TabTypeOK, NEW limit \in Limit, LoadFeedPage(limit)
    PROVE  TabTypeOK' /\ scroll' = [answer |-> None, req |-> NextRequest(limit)]
<1>1. scroll' = [answer |-> None, req |-> NextRequest(limit)]
  BY DEF LoadFeedPage, NextRequest
<1>2. NextRequest(limit) \in KnownPage
  BY NextRequestType
<1>3. TabStep
  BY DEF TabStep
<1>4. scroll' \in Scrolls'
  BY <1>1, <1>2, <1>3, TabStepStays DEF Scrolls
<1>5. post' \in Posts' /\ dropped' = dropped /\ Known' = Known
  BY <1>3, TabStepStays DEF LoadFeedPage, TabTypeOK
<1>6. UNCHANGED <<feedSession, feedCursor, feedHasMore, feedQueueRevision,
                  feedAcceptedPosition, cards, shown, failures>>
  BY DEF LoadFeedPage, tabVars
<1> QED
  BY <1>1, <1>4, <1>5, <1>6, TabTypeKept

\* What the tab accepts of a page.
NewCards(page) == {[article |-> a, session |-> page.session] : a \in page.articles}

LEMMA AcceptFeedPageType ==
    ASSUME FeedInv, TabTypeOK, AcceptFeedPage
    PROVE  /\ TabTypeOK' /\ scroll # None /\ scroll.answer \in PageAnswer
           /\ cards' \subseteq cards \cup NewCards(scroll.answer)
           /\ shown' = shown \cup NewCards(scroll.answer)
<1> DEFINE page == scroll.answer
           changed == page.reset \/ (feedRuleVersion # None /\ feedRuleVersion # page.version)
           kept == IF changed /\ feedCursor # None THEN {} ELSE cards
           seen == {card.article : card \in kept}
           new == NewCards(page)
<1>1. scroll # None /\ page \in PageAnswer
  BY ScrollOf DEF AcceptFeedPage
<1>2. /\ cards' = kept \cup {card \in new : card.article \notin seen}
      /\ shown' = shown \cup new
      /\ feedCursor' = page.cursor /\ feedSession' = page.session
      /\ feedHasMore' = (page.cursor # None /\ page.articles # {})
      /\ feedQueueRevision' = page.revision /\ feedAcceptedPosition' = page.position
      /\ scroll' = None /\ post' = post /\ dropped' = dropped /\ failures' = failures
  BY DEF AcceptFeedPage, NewCards
<1>3. cards' \subseteq cards \cup new
  <2>1. kept \subseteq cards
    OBVIOUS
  <2> HIDE DEF kept, seen, new
  <2> QED
    BY <1>2, <2>1
<1>4. new \subseteq ShownCard
  BY <1>1 DEF NewCards, PageAnswer, ShownCard
<1> HIDE DEF kept, seen, new
<1>5. TabStep
  BY DEF TabStep
<1>6. cards' \subseteq shown' /\ shown' \subseteq ShownCard
  <2>1. cards \subseteq shown /\ shown \subseteq ShownCard
    BY DEF TabTypeOK
  <2> QED
    BY <1>2, <1>3, <1>4, <2>1
<1>7. /\ feedSession' \in Known /\ feedCursor' \in Cursor /\ feedHasMore' \in BOOLEAN
      /\ feedQueueRevision' \in Revisions /\ feedAcceptedPosition' \in Positions
  BY <1>1, <1>2 DEF PageAnswer
<1>8. scroll' \in Scrolls /\ post' \in Posts /\ failures' \in Nat
      /\ dropped' \subseteq KnownPage \cup KnownEvent
  BY <1>2 DEF TabTypeOK, Scrolls
<1>9. TabTypeOK'
  BY <1>5, <1>6, <1>7, <1>8, TabStepStays DEF TabTypeOK
<1> QED
  BY <1>1, <1>2, <1>3, <1>9 DEF new

LEMMA EventOfType ==
    ASSUME FeedInv, TabTypeOK, NEW card \in cards, NEW action \in {"click", "skip"},
           EventOf(card, action)
    PROVE  /\ TabTypeOK' /\ post' # None /\ post'.answer = None
           /\ post'.req \in KnownEvent /\ post'.req.session = card.session
           /\ post'.req.named = feedSession /\ post'.req.article = card.article
           /\ post'.req.accepted.position = feedAcceptedPosition
           /\ post'.req.accepted.revision = feedQueueRevision
<1> DEFINE accepted == [position |-> feedAcceptedPosition, revision |-> feedQueueRevision]
           req == [session |-> card.session, named |-> feedSession, article |-> card.article,
                   action |-> action, accepted |-> accepted]
<1>1. /\ post' = [answer |-> None, req |-> req] /\ scroll' = None /\ feedCursor' = None
      /\ UNCHANGED <<feedSession, feedHasMore, feedQueueRevision, feedAcceptedPosition, cards,
                     shown, failures>>
      /\ Drop(Unanswered(scroll))
  BY DEF EventOf
<1>2. card \in ShownCard /\ feedSession \in Known \cup {None} /\ accepted \in Progress
  BY DEF TabTypeOK, Progress, Positions, Revisions
<1>3. req \in KnownEvent
  BY <1>2 DEF KnownEvent, ShownCard
<1>4. TabStep
  BY DEF TabStep
<1>5. dropped' \subseteq KnownPage \cup KnownEvent
  BY <1>1, DropType
<1>6. post' \in Posts
  <2> HIDE DEF req
  <2> QED
    BY <1>1, <1>3 DEF Posts
<1>7. TabTypeOK'
  <2>1. feedCursor' \in Cursor /\ scroll' \in Scrolls
    BY <1>1 DEF Cursor, Scrolls
  <2> HIDE DEF req, accepted
  <2> QED
    BY <1>1, <1>4, <1>5, <1>6, <2>1, TabStepStays DEF TabTypeOK
<1>8. post' # None
  <2> HIDE DEF req
  <2> QED
    BY <1>1, <1>3, PostWaits
<1> QED
  BY <1>1, <1>3, <1>7, <1>8

LEMMA EventDoneType ==
    ASSUME FeedInv, TabTypeOK, EventDone
    PROVE  TabTypeOK' /\ post # None /\ post.answer \in Reply
<1>1. post # None /\ post.answer \in Reply
  BY PostOf DEF EventDone
<1>2. /\ post' = None /\ cards' = {} /\ feedHasMore' = TRUE
      /\ feedCursor' = post.answer.cursor /\ feedSession' = post.answer.session
      /\ feedQueueRevision' = post.answer.revision /\ feedAcceptedPosition' = post.answer.position
      /\ UNCHANGED <<scroll, dropped, shown, failures>>
  BY DEF EventDone
<1>3. TabStep
  BY DEF TabStep
<1>4. /\ feedSession' \in Known /\ feedCursor' \in Cursor
      /\ feedQueueRevision' \in Revisions /\ feedAcceptedPosition' \in Positions
  BY <1>1, <1>2 DEF Reply
<1>5. post' \in Posts
  BY <1>2 DEF Posts
<1>6. TabTypeOK'
  BY <1>2, <1>3, <1>4, <1>5, TabStepStays DEF TabTypeOK
<1> QED
  BY <1>1, <1>6

LEMMA LostType ==
    ASSUME TabTypeOK, PageLost \/ EventLost \/ PageError \/ EventError \/ Refresh
    PROVE  TabTypeOK'
<1>1. TabStep
  BY DEF TabStep
<1>2. CASE PageLost
  <2>1. /\ scroll # None /\ scroll' = [scroll EXCEPT !.answer = Failed]
        /\ Drop(Unanswered(scroll)) /\ UNCHANGED <<tabVars, post, shown, failures>>
    BY <1>2 DEF PageLost
  <2>2. scroll.req \in KnownPage /\ scroll' = [answer |-> Failed, req |-> scroll.req]
    BY <2>1, ScrollOf
  <2>3. scroll' \in Scrolls
    BY <2>2 DEF Scrolls
  <2>4. dropped' \subseteq KnownPage \cup KnownEvent
    BY <2>1, DropType
  <2> QED
    BY <1>1, <2>1, <2>3, <2>4, TabStepStays DEF TabTypeOK, tabVars
<1>3. CASE EventLost
  <2>1. /\ post # None /\ post' = [post EXCEPT !.answer = Failed]
        /\ Drop(Unanswered(post)) /\ UNCHANGED <<tabVars, scroll, shown, failures>>
    BY <1>3 DEF EventLost
  <2>2. post.req \in KnownEvent /\ post' = [answer |-> Failed, req |-> post.req]
    BY <2>1, PostOf
  <2>3. post' \in Posts
    BY <2>2 DEF Posts
  <2>4. dropped' \subseteq KnownPage \cup KnownEvent
    BY <2>1, DropType
  <2> QED
    BY <1>1, <2>1, <2>3, <2>4, TabStepStays DEF TabTypeOK, tabVars
<1>4. CASE PageError
  <2>1. /\ scroll' = None /\ feedHasMore' = FALSE
        /\ UNCHANGED <<feedSession, feedCursor, feedQueueRevision, feedAcceptedPosition, cards,
                       post, dropped, shown, failures>>
    BY <1>4 DEF PageError
  <2>2. scroll' \in Scrolls
    BY <2>1 DEF Scrolls
  <2> QED
    BY <1>1, <2>1, <2>2, TabStepStays DEF TabTypeOK
<1>5. CASE EventError
  <2>1. /\ post' = None /\ failures' = failures + 1
        /\ UNCHANGED <<tabVars, scroll, dropped, shown>>
    BY <1>5 DEF EventError
  <2>2. post' \in Posts
    BY <2>1 DEF Posts
  <2> QED
    BY <1>1, <2>1, <2>2, TabStepStays DEF TabTypeOK, tabVars
<1>6. CASE Refresh
  <2>1. /\ scroll' = None /\ feedSession' = None /\ feedCursor' = None /\ feedHasMore' = TRUE
        /\ feedQueueRevision' = 0 /\ feedAcceptedPosition' = 0 /\ cards' = {}
        /\ Drop(Unanswered(scroll)) /\ UNCHANGED <<post, shown, failures>>
    BY <1>6 DEF Refresh
  <2>2. scroll' \in Scrolls /\ feedCursor' \in Cursor
    BY <2>1 DEF Scrolls, Cursor
  <2>3. dropped' \subseteq KnownPage \cup KnownEvent
    BY <2>1, DropType
  <2>4. 0 \in Positions /\ 0 \in Revisions
    BY ArticleAssumption, FS_CardinalityType, FeedBoundAssumption DEF Positions, Revisions
  <2>5. cards' \subseteq shown' /\ shown' \subseteq ShownCard
    BY <2>1 DEF TabTypeOK
  <2> QED
    BY <1>1, <2>1, <2>2, <2>3, <2>4, <2>5, TabStepStays DEF TabTypeOK
<1> QED
  BY <1>2, <1>3, <1>4, <1>5, <1>6

LEMMA ServedType ==
    ASSUME FeedInv, TabTypeOK, DroppedArrives \/ Environment \/ UNCHANGED vars
    PROVE  TabTypeOK'
<1>1. /\ dropped' \subseteq dropped /\ scroll' = scroll /\ post' = post
      /\ UNCHANGED <<feedSession, feedCursor, feedHasMore, feedQueueRevision,
                     feedAcceptedPosition, cards, shown, failures>>
  BY DEF DroppedArrives, Environment, vars, netVars, tabVars
<1>2. ServerStep
  BY NextServes DEF Next
<1>3. Known \subseteq Known'
  BY <1>2, ServerInv
<1>4. Scrolls \subseteq Scrolls' /\ Posts \subseteq Posts'
  BY <1>3, TypesGrow
<1>5. scroll' \in Scrolls' /\ post' \in Posts'
  BY <1>1, <1>4 DEF TabTypeOK
<1> QED
  BY <1>1, <1>3, <1>5, TabTypeKept

LEMMA TabTypeStep ==
    ASSUME FeedInv, Counted, TabTypeOK, [Next]_vars
    PROVE  FeedInv' /\ Counted' /\ TabTypeOK'
<1>1. ServerStep
  BY NextServes
<1>2. FeedInv'
  BY <1>1, ServerInv
<1>3. Counted'
  BY <1>1, CountedStep DEF ServerStep
<1>4. TabTypeOK'
  <2>1. CASE DroppedArrives \/ Environment \/ UNCHANGED vars
    BY <2>1, ServedType
  <2>2. CASE PageLost \/ EventLost \/ PageError \/ EventError \/ Refresh
    BY <2>2, LostType
  <2>3. CASE AnswerPage
    BY <2>3, AnswerPageType
  <2>4. CASE AnswerEvent
    BY <1>3, <2>4, AnswerEventType
  <2>5. CASE AcceptFeedPage
    BY <2>5, AcceptFeedPageType
  <2>6. CASE EventDone
    BY <2>6, EventDoneType
  <2>7. ASSUME NEW limit \in Limit, LoadFeedPage(limit) PROVE TabTypeOK'
    BY <2>7, LoadFeedPageType
  <2>8. ASSUME NEW card \in cards, NEW action \in {"click", "skip"}, EventOf(card, action)
        PROVE  TabTypeOK'
    BY <2>8, EventOfType
  <2> QED
    BY <2>1, <2>2, <2>3, <2>4, <2>5, <2>6, <2>7, <2>8 DEF Next
<1> QED
  BY <1>2, <1>3, <1>4

-----------------------------------------------------------------------------
(* What the server's steps leave to the reader                             *)

\* Only an event's own reader is taken back.
Fits(s, p) ==
    post # None /\ s = post.req.session /\ post.req.session = post.req.named =>
        p = post.req.accepted.position

Carries ==
    \A s \in Known, p \in Nat, r \in Nat :
        /\ Behind(Asked, s, p, r) /\ Fits(s, p)
        /\ sessions[s] # None => r <= sessions[s].revision /\ Lead(sessions[s], p)
        => Carried(sessions[s], sessions'[s], p)

Rests == \A s \in Known : Rest(sessions[s]) => Rest(sessions'[s])

LEMMA BehindOne ==
    ASSUME NEW asked, NEW req \in asked, NEW s, NEW p, NEW r, Behind(asked, s, p, r)
    PROVE  Behind({req}, s, p, r)
BY DEF Behind

LEMMA BehindFewer ==
    ASSUME NEW asked, NEW fewer, fewer \subseteq asked, NEW s, NEW p, NEW r, Behind(asked, s, p, r)
    PROVE  Behind(fewer, s, p, r)
BY DEF Behind

LEMMA PageCarries ==
    ASSUME FeedInv, TabTypeOK, RequestsStand, NEW req \in Asked, req \in PageRequest, PageStep(req)
    PROVE  Carries /\ Rests
<1>1. req.session # None /\ req.cursor = None => Rest(sessions[req.session])
  BY DEF RequestsStand
<1>2. Carries
  <2> SUFFICES ASSUME NEW s \in Known, NEW p \in Nat, NEW r \in Nat, Behind(Asked, s, p, r),
                      sessions[s] # None => r <= sessions[s].revision /\ Lead(sessions[s], p)
               PROVE  Carried(sessions[s], sessions'[s], p)
    BY DEF Carries
  <2>1. Behind({req}, s, p, r)
    BY BehindOne
  <2>2. req.session = s /\ req.cursor = None => Rest(sessions[s])
    BY <1>1, KnownIds
  <2> QED
    BY <2>1, <2>2, PageCarried
<1>3. Rests
  BY PageRests DEF Rests
<1> QED
  BY <1>2, <1>3

LEMMA EventCarries ==
    ASSUME FeedInv, TabTypeOK, post # None, post.req.session = post.req.named,
           EventStep(post.req)
    PROVE  Carries /\ Rests
<1> DEFINE req == post.req
           ask == AskedOf(req)
<1>1. req \in KnownEvent
  BY PostOf
<1>2. /\ EventStep(ask) /\ ask \in FeedbackRequest /\ ask.accepted # None
      /\ ask.session = req.session /\ ask.accepted = req.accepted
  BY <1>1, EventReaches
<1> HIDE DEF ask
<1>3. Carries
  <2> SUFFICES ASSUME NEW s \in Known, NEW p \in Nat, Fits(s, p),
                      sessions[s] # None => Lead(sessions[s], p)
               PROVE  Carried(sessions[s], sessions'[s], p)
    BY DEF Carries
  <2>1. s = ask.session => p = ask.accepted.position
    BY <1>2 DEF Fits
  <2> QED
    BY <1>2, <2>1, EventCarried
<1>4. Rests
  BY <1>2, EventRests DEF Rests
<1> QED
  BY <1>3, <1>4

LEMMA StaysCarries ==
    ASSUME FeedInv, \A s \in SessionId : sessions'[s] = None \/ sessions'[s] = sessions[s]
    PROVE  Carries /\ Rests
<1>1. Carries
  <2> SUFFICES ASSUME NEW s \in Known, NEW p \in Nat,
                      sessions[s] # None => Lead(sessions[s], p)
               PROVE  Carried(sessions[s], sessions'[s], p)
    BY DEF Carries
  <2> DEFINE old == sessions[s]
  <2>1. s \in SessionId
    BY KnownIds
  <2>2. sessions'[s] = None \/ sessions'[s] = old
    BY <2>1
  <2>3. old # None => old.revision \in Nat
    BY <2>1, SessionOf DEF FeedInv, Sound
  <2>4. Carried(old, None, p)
    BY DEF Carried
  <2>5. old # None => Lead(old, p)
    OBVIOUS
  <2> HIDE DEF old
  <2>6. Carried(old, old, p)
    BY <2>3, <2>5 DEF Carried
  <2> QED
    BY <2>2, <2>4, <2>6 DEF old
<1>2. Rests
  <2> SUFFICES ASSUME NEW s \in Known, Rest(sessions[s]) PROVE Rest(sessions'[s])
    BY DEF Rests
  <2>1. s \in SessionId
    BY KnownIds
  <2>2. sessions'[s] = None \/ sessions'[s] = sessions[s]
    BY <2>1
  <2> DEFINE new == sessions'[s]
  <2>3. Rest(None)
    BY DEF Rest
  <2>4. new = None \/ new = sessions[s]
    BY <2>2
  <2> HIDE DEF new
  <2>5. Rest(new)
    BY <2>3, <2>4
  <2> QED
    BY <2>5 DEF new
<1> QED
  BY <1>1, <1>2

LEMMA ServerCarries ==
    ASSUME FeedInv, TabTypeOK, TabSound,
           AnswerPage \/ AnswerEvent \/ DroppedArrives \/ Environment \/ UNCHANGED vars
    PROVE  Carries /\ Rests
<1>1. ASSUME UNCHANGED feedVars PROVE Carries /\ Rests
  <2>1. sessions' = sessions
    BY <1>1 DEF feedVars
  <2> QED
    BY <2>1, StaysCarries
<1>2. CASE UNCHANGED vars
  BY <1>1, <1>2 DEF vars
<1>3. CASE AnswerPage
  <2>1. scroll.req \in Asked
    BY <1>3 DEF AnswerPage, Asked
  <2> QED
    BY <1>1, <1>3, <2>1, AnswerPageServes, PageCarries DEF TabSound
<1>4. CASE AnswerEvent
  <2>1. post # None
    BY <1>4 DEF AnswerEvent
  <2>2. CASE EventRefused(post.req)
    <3>1. UNCHANGED feedVars
      BY <1>4, <2>2 DEF AnswerEvent
    <3> QED
      BY <1>1, <3>1
  <2>3. CASE ~EventRefused(post.req)
    <3>1. post.req.session = post.req.named
      BY <2>3 DEF EventRefused
    <3> QED
      BY <1>1, <1>4, <2>1, <3>1, AnswerEventServes, EventCarries
  <2> QED
    BY <2>2, <2>3
<1>5. CASE DroppedArrives
  <2>1. PICK req \in dropped :
          \/ req \in KnownPage /\ req \in PageRequest /\ PageStep(req)
          \/ req \in KnownEvent /\ EventStep(req) /\ req.session = req.named
    BY <1>5, DroppedServes
  <2>2. CASE req \in PageRequest /\ PageStep(req)
    <3>1. req \in Asked
      BY <2>2 DEF Asked
    <3> QED
      BY <2>2, <3>1, PageCarries DEF TabSound
  <2>3. CASE req \in KnownEvent /\ EventStep(req) /\ req.session = req.named
    <3>1. req \notin PageRequest
      BY <2>3, KnownEventType
    <3>2. post # None /\ req = post.req
      BY <3>1 DEF TabSound, RequestsStand
    <3>3. post.req.session = post.req.named
      BY <2>3, <3>2
    <3> QED
      BY <2>3, <3>2, <3>3, EventCarries
  <2> QED
    BY <2>1, <2>2, <2>3
<1>6. CASE Environment
  <2>1. sessions \in [SessionId -> Session \cup {None}]
    BY DEF FeedInv, FeedTypeOK
  <2>2. \A s \in SessionId : sessions'[s] = None \/ sessions'[s] = sessions[s]
    BY <1>6, <2>1 DEF Environment, NewRules, Forget
  <2> QED
    BY <2>2, StaysCarries
<1> QED
  BY <1>2, <1>3, <1>4, <1>5, <1>6

LEMMA StandsOn ==
    ASSUME FeedInv, FeedInv', Carries, NEW s \in Known, NEW p \in Nat, NEW r \in Nat,
           Behind(Asked, s, p, r), Fits(s, p), NEW known, Stands(sessions[s], p, r, known)
    PROVE  /\ Stands(sessions'[s], p, r, known)
           /\ sessions'[s] # None =>
                /\ sessions[s] # None /\ sessions[s].revision <= sessions'[s].revision
                /\ sessions[s].revision \in Nat /\ sessions'[s].revision \in Nat
           /\ \A a : Given(sessions[s], a, p) => Given(sessions'[s], a, p)
<1> DEFINE old == sessions[s]
           new == sessions'[s]
<1>1. s \in SessionId
  BY KnownIds
<1>2. /\ old # None => old.revision \in Nat
      /\ new # None => new.revision \in Nat
  BY <1>1, SessionOf DEF FeedInv, Sound
<1>3. old # None => r <= old.revision /\ Lead(old, p)
  BY DEF Stands
<1>4. Carried(old, new, p)
  BY <1>3 DEF Carries
<1>5. Stands(old, p, r, known)
  OBVIOUS
<1> HIDE DEF old, new
<1>6. Stands(new, p, r, known)
  BY <1>2, <1>4, <1>5 DEF Stands, Carried
<1>7. \A a : Given(old, a, p) => Given(new, a, p)
  <2>1. CASE new = None
    BY <2>1 DEF Given
  <2>2. CASE new # None
    BY <1>4, <2>2 DEF Carried
  <2> QED
    BY <2>1, <2>2
<1> QED
  BY <1>2, <1>4, <1>6, <1>7 DEF Carried, old, new

LEMMA AskedKnown ==
    ASSUME TabTypeOK
    PROVE  Asked \subseteq KnownPage
<1>1. \A req \in dropped \cap PageRequest : req \in KnownPage
  BY KnownEventType DEF TabTypeOK
<1>2. scroll # None => scroll.req \in KnownPage
  BY ScrollOf
<1> QED
  BY <1>1, <1>2 DEF Asked

LEMMA TabNumbers ==
    ASSUME TabTypeOK
    PROVE  feedAcceptedPosition \in Nat /\ feedQueueRevision \in Nat
<1>1. Cardinality(Article) \in Nat /\ MaxFeedback \in Nat
  BY ArticleAssumption, FS_CardinalityType, FeedBoundAssumption
<1> QED
  BY <1>1 DEF TabTypeOK, Positions, Revisions

LEMMA TabKept ==
    ASSUME FeedInv, FeedInv', TabTypeOK, Carries, Rests, TabStands, post # None => PostAsked,
           UNCHANGED <<feedSession, feedCursor, feedHasMore, feedQueueRevision,
                       feedAcceptedPosition, cards, shown>>,
           Asked' \subseteq Asked, post' = None => post = None
    PROVE  TabStands'
<1>1. Names(feedCursor, feedSession, feedAcceptedPosition, feedQueueRevision)'
  BY DEF TabStands, Names
<1>2. ASSUME feedSession # None
      PROVE  /\ Behind(Asked', feedSession, feedAcceptedPosition, feedQueueRevision)
             /\ Stands(sessions'[feedSession], feedAcceptedPosition, feedQueueRevision,
                       Seen(shown, feedSession))
             /\ feedCursor = None /\ feedHasMore /\ post' = None => Rest(sessions'[feedSession])
             /\ \A card \in cards : card.session = feedSession =>
                  Given(sessions'[feedSession], card.article, feedAcceptedPosition)
  <2> DEFINE s == feedSession
             p == feedAcceptedPosition
             r == feedQueueRevision
             known == Seen(shown, s)
  <2>1. s \in Known /\ p \in Nat /\ r \in Nat
    BY <1>2, TabNumbers DEF TabTypeOK
  <2>2. /\ Behind(Asked, s, p, r) /\ Stands(sessions[s], p, r, known)
        /\ feedCursor = None /\ feedHasMore /\ post = None => Rest(sessions[s])
        /\ \A card \in cards : card.session = s => Given(sessions[s], card.article, p)
    BY <1>2 DEF TabStands
  <2>3. Fits(s, p)
    BY <1>2 DEF Fits, PostAsked
  <2> HIDE DEF s, p, r, known
  <2>4. /\ Stands(sessions'[s], p, r, known)
        /\ \A a : Given(sessions[s], a, p) => Given(sessions'[s], a, p)
    BY <2>1, <2>2, <2>3, StandsOn
  <2>5. Behind(Asked', s, p, r)
    BY <2>2 DEF Behind
  <2>6. Rest(sessions[s]) => Rest(sessions'[s])
    BY <2>1 DEF Rests
  <2>7. feedCursor = None /\ feedHasMore /\ post' = None => Rest(sessions'[s])
    BY <2>2, <2>6
  <2>8. \A card \in cards : card.session = s => Given(sessions'[s], card.article, p)
    BY <2>2, <2>4
  <2> QED
    BY <2>4, <2>5, <2>7, <2>8 DEF s, p, r, known
<1>3. Seen(shown, feedSession)' = Seen(shown, feedSession)
  BY DEF Seen
<1> QED
  BY <1>1, <1>2, <1>3 DEF TabStands

LEMMA PostKept ==
    ASSUME FeedInv, FeedInv', TabTypeOK, Carries, post # None, PostAsked, post'.req = post.req,
           UNCHANGED <<feedSession, feedQueueRevision, feedAcceptedPosition, shown>>,
           Asked' \subseteq Asked
    PROVE  /\ PostAsked'
           /\ post.req.session = post.req.named /\ sessions'[post.req.session] # None =>
                /\ sessions[post.req.session] # None
                /\ sessions[post.req.session].revision <= sessions'[post.req.session].revision
                /\ sessions[post.req.session].revision \in Nat
                /\ sessions'[post.req.session].revision \in Nat
<1> DEFINE req == post.req
           s == req.session
           p == req.accepted.position
           r == req.accepted.revision
           known == Seen(shown, s)
<1>1. s \in Known /\ p \in Nat /\ r \in Nat
  BY PostOf, KnownEventType, ProgressType
<1>2. ASSUME s = req.named
      PROVE  /\ Behind(Asked', s, p, r) /\ Stands(sessions'[s], p, r, known)
             /\ sessions'[s] # None =>
                  /\ sessions[s] # None /\ sessions[s].revision <= sessions'[s].revision
                  /\ sessions[s].revision \in Nat /\ sessions'[s].revision \in Nat
  <2>1. Behind(Asked, s, p, r) /\ Stands(sessions[s], p, r, known)
    BY <1>2 DEF PostAsked
  <2>2. Fits(s, p)
    BY DEF Fits
  <2> HIDE DEF s, p, r, known
  <2>3. Behind(Asked', s, p, r)
    BY <2>1 DEF Behind
  <2> QED
    BY <1>1, <2>1, <2>2, <2>3, StandsOn
<1>3. known' = known
  BY DEF Seen
<1>4. PostAsked'
  BY <1>2, <1>3 DEF PostAsked
<1> QED
  BY <1>2, <1>4

LEMMA PageKept ==
    ASSUME FeedInv, FeedInv', TabTypeOK, Carries, post = None, Asked' \subseteq Asked,
           NEW page \in PageAnswer, NEW known,
           PageStands(page, Asked, sessions[page.session], known)
    PROVE  PageStands(page, Asked', sessions'[page.session], known)
<1> DEFINE s == page.session
           p == page.position
           r == page.revision
           seen == known \cup page.articles
<1>1. Cardinality(Article) \in Nat /\ MaxFeedback \in Nat
  BY ArticleAssumption, FS_CardinalityType, FeedBoundAssumption
<1>2. s \in Known /\ p \in Nat /\ r \in Nat
  BY <1>1 DEF PageAnswer, Positions, Revisions
<1>3. /\ Behind(Asked, s, p, r) /\ Stands(sessions[s], p, r, seen)
      /\ Names(page.cursor, s, p, r)
      /\ \A a \in page.articles : Given(sessions[s], a, p)
  BY DEF PageStands
<1>4. Fits(s, p)
  BY DEF Fits
<1> HIDE DEF s, p, r, seen
<1>5. /\ Stands(sessions'[s], p, r, seen)
      /\ \A a : Given(sessions[s], a, p) => Given(sessions'[s], a, p)
  BY <1>2, <1>3, <1>4, StandsOn
<1>6. Behind(Asked', s, p, r)
  BY <1>3 DEF Behind
<1>7. \A a \in page.articles : Given(sessions'[s], a, p)
  BY <1>3, <1>5
<1> QED
  BY <1>3, <1>5, <1>6, <1>7 DEF PageStands, s, p, r, seen

LEMMA RequestsKept ==
    ASSUME FeedInv, TabTypeOK, Rests, RequestsStand, Asked' \subseteq Asked,
           \A req \in dropped' \ PageRequest : post' # None /\ post'.answer = Failed /\ req = post'.req
    PROVE  RequestsStand'
<1>1. ASSUME NEW req \in Asked', req.session # None, req.cursor = None
      PROVE  Rest(sessions'[req.session])
  <2>1. req \in Asked /\ req \in KnownPage
    BY AskedKnown
  <2>2. Rest(sessions[req.session]) /\ req.session \in Known
    BY <1>1, <2>1, KnownPageType DEF RequestsStand
  <2> QED
    BY <2>2 DEF Rests
<1> QED
  BY <1>1 DEF RequestsStand

LEMMA ServedSound ==
    ASSUME FeedInv, FeedInv', TabTypeOK, TabSound,
           DroppedArrives \/ Environment \/ UNCHANGED vars
    PROVE  TabSound'
<1>1. /\ dropped' \subseteq dropped /\ scroll' = scroll /\ post' = post
      /\ UNCHANGED <<feedSession, feedCursor, feedHasMore, feedQueueRevision,
                     feedAcceptedPosition, cards, shown, failures>>
  BY DEF DroppedArrives, Environment, vars, netVars, tabVars
<1>2. Carries /\ Rests
  BY ServerCarries
<1>3. Asked' \subseteq Asked
  BY <1>1 DEF Asked
<1>4. TabStands /\ PostStands /\ ScrollStands /\ RequestsStand
  BY DEF TabSound
<1>5. TabStands'
  <2>1. post # None => PostAsked
    BY <1>4 DEF PostStands
  <2> QED
    BY <1>1, <1>2, <1>3, <1>4, <2>1, TabKept
<1>6. PostStands'
  <2> SUFFICES ASSUME post # None
               PROVE  /\ scroll = None /\ PostAsked'
                      /\ Answered(post.answer) =>
                           EventStands(post.req, post.answer, sessions'[post.req.session])
    BY <1>1 DEF PostStands
  <2>1. /\ scroll = None /\ PostAsked
        /\ Answered(post.answer) =>
             EventStands(post.req, post.answer, sessions[post.req.session])
    BY <1>4 DEF PostStands
  <2> DEFINE s == post.req.session
             old == sessions[s]
             new == sessions'[s]
  <2>2. /\ PostAsked'
        /\ s = post.req.named /\ new # None =>
             /\ old # None /\ old.revision <= new.revision
             /\ old.revision \in Nat /\ new.revision \in Nat
    BY <1>1, <1>2, <1>3, <2>1, PostKept
  <2>3. post.req \in KnownEvent
    BY PostOf
  <2>4. s \in Known
    BY <2>3, KnownEventType
  <2>5. Rest(old) => Rest(new)
    BY <1>2, <2>4 DEF Rests
  <2>6. ASSUME Answered(post.answer) PROVE EventStands(post.req, post.answer, new)
    <3>1. EventStands(post.req, post.answer, old)
      BY <2>1, <2>6
    <3>2. post.answer \in Reply
      BY <2>6, PostOf DEF Answered
    <3>3. post.answer.revision \in Nat
      BY <3>2, FeedBoundAssumption DEF Reply, Revisions
    <3> HIDE DEF old, new
    <3>4. new # None => post.answer.revision <= new.revision
      BY <2>2, <3>1, <3>3 DEF EventStands, s
    <3> QED
      BY <2>5, <3>1, <3>4 DEF EventStands
  <2> QED
    BY <2>1, <2>2, <2>6
<1>7. ScrollStands'
  <2> SUFFICES ASSUME scroll # None PROVE ScrollStands'
    BY <1>1 DEF ScrollStands
  <2>1. post = None
    BY <1>4 DEF PostStands
  <2> DEFINE page == scroll.answer
             s == page.session
             known == Seen(shown, s)
  <2>2. /\ scroll.req.session \in {None, feedSession}
        /\ Answered(page) =>
             /\ PageStands(page, Asked, sessions[s], known)
             /\ \/ s = feedSession /\ feedAcceptedPosition <= page.position
                \/ known = {}
    BY <1>4 DEF ScrollStands
  <2>3. ASSUME Answered(page) PROVE PageStands(page, Asked', sessions'[s], known)
    <3>1. page \in PageAnswer
      BY <2>3, ScrollOf DEF Answered
    <3>2. PageStands(page, Asked, sessions[page.session], known)
      BY <2>2, <2>3
    <3> HIDE DEF page, known
    <3> QED
      BY <1>2, <1>3, <2>1, <3>1, <3>2, PageKept
  <2>4. known' = known
    BY <1>1 DEF Seen
  <2> QED
    BY <1>1, <2>2, <2>3, <2>4 DEF ScrollStands
<1>8. RequestsStand'
  <2>1. \A req \in dropped' \ PageRequest : post' # None /\ post'.answer = Failed /\ req = post'.req
    BY <1>1, <1>4 DEF RequestsStand
  <2> QED
    BY <1>2, <1>3, <1>4, <2>1, RequestsKept
<1> QED
  BY <1>5, <1>6, <1>7, <1>8 DEF TabSound

\* A reader who has come further is behind nothing new.
LEMMA BehindLater ==
    ASSUME NEW asked, asked \subseteq PageRequest, NEW s, NEW p \in Nat, NEW r \in Nat,
           NEW q \in Nat, NEW r2 \in Nat, p <= q, r <= r2, Behind(asked, s, p, r)
    PROVE  Behind(asked, s, q, r2)
<1> SUFFICES ASSUME NEW req \in asked, req.session = s, req.cursor # None
             PROVE  \/ req.cursor.revision < r2
                    \/ req.cursor.revision = r2 /\ req.cursor.position <= q
  BY DEF Behind
<1>1. req.cursor \in Progress
  BY DEF PageRequest
<1>2. req.cursor.revision \in Nat /\ req.cursor.position \in Nat
  BY <1>1, ProgressType
<1>3. \/ req.cursor.revision < r
      \/ req.cursor.revision = r /\ req.cursor.position <= p
  BY DEF Behind
<1> QED
  BY <1>2, <1>3

LEMMA AskedPages ==
    ASSUME TabTypeOK
    PROVE  Asked \subseteq PageRequest
BY AskedKnown, KnownPageType

\* Where the reader of an answered page stood before it.
LEMMA PageReader ==
    ASSUME FeedInv, Counted, TabTypeOK, TabSound, scroll # None, Accepts(scroll.req)
    PROVE  LET req == scroll.req
               id == OpenedId(req)
               old == Opened(req)
           IN  \E p \in Nat :
                 /\ Level(old, p)
                 /\ Behind(Asked, id, p, old.revision)
                 /\ \A card \in old.eligible : card.article \in Seen(shown, id)
                 /\ \/ id = feedSession /\ feedAcceptedPosition = p
                    \/ Seen(shown, id) = {}
<1> DEFINE req == scroll.req
           id == OpenedId(req)
           old == Opened(req)
<1>1. req \in KnownPage /\ req \in PageRequest /\ req \in Asked
  BY ScrollOf, KnownPageType DEF Asked
<1>2. CASE Opens(req)
  <2>1. id = created + 1 /\ old = NewSession
    BY <1>2 DEF OpenedId, Opened
  <2>2. Level(old, 0) /\ old.eligible = {}
    BY <2>1, NewSessionLevel DEF NewLevel
  <2>3. id \notin Known /\ id # None
    <3>1. created \in Nat
      BY KnownIds
    <3>2. created + 1 \in Nat
      BY <3>1
    <3> QED
      BY <2>1, <3>2, KnownIds, NoneAssumption
  <2>4. \A x \in Asked : x.session # id
    BY <2>3, AskedKnown, KnownPageType
  <2>5. Behind(Asked, id, 0, old.revision)
    BY <2>4 DEF Behind
  <2>6. Seen(shown, id) = {}
    BY <2>3 DEF Seen, TabTypeOK, ShownCard
  <2> QED
    BY <2>2, <2>5, <2>6
<1>3. CASE ~Opens(req)
  <2> DEFINE s == req.session
             p == feedAcceptedPosition
             r == feedQueueRevision
             st == sessions[s]
  <2>1. s # None /\ id = s /\ s \in SessionId
    BY <1>1, <1>3 DEF OpenedId, Opens, PageRequest
  <2>2. s = feedSession
    BY <2>1 DEF TabSound, ScrollStands
  <2>3. p \in Nat /\ r \in Nat
    BY TabNumbers
  <2>4. st # None
    BY <1>3, <2>1 DEF Accepts, Found
  <2>5. Behind(Asked, s, p, r) /\ Stands(st, p, r, Seen(shown, s))
    BY <2>1, <2>2 DEF TabSound, TabStands
  <2>6. r <= st.revision /\ Lead(st, p) /\ st.revision \in Nat
    BY <2>1, <2>4, <2>5, SessionOf DEF Stands, FeedInv, Sound
  <2>7. Behind({req}, req.session, p, r)
    BY <1>1, <2>5, BehindOne
  <2>8. req.cursor = None => Rest(sessions[req.session])
    BY <1>1, <2>1 DEF TabSound, RequestsStand
  <2>9. /\ Level(old, p) /\ old.eligible = st.eligible /\ old.revision = st.revision
        /\ st.position = p
    <3>1. r <= sessions[req.session].revision /\ Lead(sessions[req.session], p)
      BY <2>6
    <3> HIDE DEF p, r
    <3> QED
      BY <1>1, <1>3, <2>3, <2>7, <2>8, <3>1, OpenedLevel
  <2>10. Behind(Asked, s, p, st.revision)
    <3> HIDE DEF st, s, p, r
    <3>1. p <= p
      BY <2>3
    <3> QED
      BY <2>3, <2>5, <2>6, <3>1, AskedPages, BehindLater
  <2>11. \A card \in old.eligible : card.article \in Seen(shown, s)
    BY <2>4, <2>5, <2>9 DEF Stands, Level
  <2> QED
    BY <2>1, <2>2, <2>3, <2>9, <2>10, <2>11
<1> QED
  BY <1>2, <1>3

LEMMA PageAnswered ==
    ASSUME FeedInv, Counted, TabTypeOK, TabSound, scroll # None,
           NEW st \in PageOutcomes(scroll.req), FeedPage(scroll.req, st)
    PROVE  LET page == PageOf(scroll.req, st) IN
           /\ PageStands(page, Asked, sessions'[page.session], Seen(shown, page.session))
           /\ \/ page.session = feedSession /\ feedAcceptedPosition <= page.position
              \/ Seen(shown, page.session) = {}
<1> DEFINE req == scroll.req
           id == OpenedId(req)
           old == Opened(req)
           page == PageOf(req, st)
           q == st.position
           known == Seen(shown, id)
<1>1. req \in KnownPage /\ req \in PageRequest
  BY ScrollOf, KnownPageType
<1>2. Sound(st, version) /\ Accepts(req) /\ q \in Positions /\ st.revision \in Revisions
  BY <1>1, OutcomeSound
<1>3. q \in Nat /\ st.revision \in Nat
  BY <1>2, SessionOf DEF Sound
<1>4. sessions'[id] = st /\ id \in SessionId
  <2>1. sessions \in [SessionId -> Session \cup {None}] /\ id \in SessionId
    BY <1>1, <1>2, OpenedSound DEF FeedInv, FeedTypeOK
  <2> HIDE DEF id
  <2> QED
    BY <2>1 DEF FeedPage, Store, id
<1>5. PICK p \in Nat : /\ Level(old, p)
                       /\ Behind(Asked, id, p, old.revision)
                       /\ \A card \in old.eligible : card.article \in known
                       /\ \/ id = feedSession /\ feedAcceptedPosition = p
                          \/ known = {}
  BY <1>2, PageReader
<1>6. Followed(old, st, p)
  BY <1>1, <1>2, <1>5, PageOutcome
<1>7. st.revision = old.revision
  BY <1>6 DEF Followed
<1>8. /\ page.session = id /\ page.cursor = NextCursor(id, st) /\ page.position = q
      /\ page.revision = st.revision
      /\ page.articles = IF q = p THEN {} ELSE Articles(LastPage(st).rows)
  <2>1. old.position = p
    BY <1>5 DEF Level
  <2>2. Last(st.deliveries) = LastPage(st)
    BY DEF Last, LastPage
  <2> HIDE DEF id, old
  <2> QED
    BY <2>1, <2>2 DEF PageOf, id, old
<1> HIDE DEF page
<1>9. Behind(Asked, id, q, st.revision)
  <2>1. p <= q
    BY <1>6 DEF Followed
  <2>2. st.revision <= st.revision
    BY <1>3
  <2>3. Behind(Asked, id, p, st.revision)
    BY <1>5, <1>7
  <2> HIDE DEF id, q
  <2> QED
    BY <1>3, <2>1, <2>2, <2>3, AskedPages, BehindLater
<1> HIDE DEF id, old, known
<1>10. Stands(st, q, st.revision, known \cup page.articles)
  <2>1. Lead(st, q) /\ st.revision <= st.revision
    BY <1>3, <1>6 DEF Followed
  <2>2. ASSUME NEW card \in st.eligible PROVE card.article \in known \cup page.articles
    <3>1. CASE q = p
      BY <1>5, <1>6, <3>1 DEF Followed
    <3>2. CASE q # p
      BY <1>5, <1>6, <1>8, <3>2 DEF Followed
    <3> QED
      BY <3>1, <3>2
  <2> QED
    BY <2>1, <2>2 DEF Stands
<1>11. Names(page.cursor, id, q, st.revision)
  BY <1>8 DEF NextCursor, Names
<1>12. \A a \in page.articles : Given(st, a, q)
  <2> SUFFICES ASSUME NEW a \in page.articles PROVE Given(st, a, q)
    OBVIOUS
  <2>1. q # p /\ a \in Articles(LastPage(st).rows)
    BY <1>8
  <2>2. \E card \in st.eligible : card.article = a /\ card.end = q
    BY <1>6, <2>1 DEF Followed
  <2> QED
    BY <1>3, <2>2 DEF Given
<1>13. PageStands(page, Asked, st, known)
  BY <1>8, <1>9, <1>10, <1>11, <1>12 DEF PageStands
<1>14. \/ id = feedSession /\ feedAcceptedPosition <= q
       \/ known = {}
  BY <1>5, <1>6 DEF Followed
<1> QED
  BY <1>4, <1>8, <1>13, <1>14 DEF id, known, page

LEMMA AnswerPageSound ==
    ASSUME FeedInv, FeedInv', Counted, TabTypeOK, TabSound, AnswerPage
    PROVE  TabSound'
<1>1. /\ scroll # None /\ post' = post /\ dropped' = dropped
      /\ UNCHANGED <<feedSession, feedCursor, feedHasMore, feedQueueRevision,
                     feedAcceptedPosition, cards, shown, failures>>
  BY DEF AnswerPage, tabVars
<1>2. \A x : [scroll EXCEPT !.answer = x] = [answer |-> x, req |-> scroll.req]
  BY <1>1, ScrollOf
<1>3. /\ scroll'.req = scroll.req
      /\ \/ scroll'.answer = Failed
         \/ \E st \in PageOutcomes(scroll.req) :
              FeedPage(scroll.req, st) /\ scroll'.answer = PageOf(scroll.req, st)
  <2>1. \/ scroll' = [answer |-> Failed, req |-> scroll.req]
        \/ \E st \in PageOutcomes(scroll.req) :
             /\ FeedPage(scroll.req, st)
             /\ scroll' = [answer |-> PageOf(scroll.req, st), req |-> scroll.req]
    BY <1>2 DEF AnswerPage
  <2> QED
    BY <2>1
<1>4. Carries /\ Rests
  BY ServerCarries
<1>5. Asked' \subseteq Asked
  BY <1>1, <1>3 DEF Asked
<1>6. TabStands /\ PostStands /\ ScrollStands /\ RequestsStand /\ post = None
  BY <1>1 DEF TabSound, PostStands
<1>7. TabStands'
  BY <1>1, <1>4, <1>5, <1>6, TabKept
<1>8. PostStands'
  BY <1>1, <1>6 DEF PostStands
<1>9. RequestsStand'
  <2>1. \A req \in dropped' \ PageRequest : post' # None /\ post'.answer = Failed /\ req = post'.req
    BY <1>1, <1>6 DEF RequestsStand
  <2> QED
    BY <1>4, <1>5, <1>6, <2>1, RequestsKept
<1>10. ScrollStands'
  <2>1. scroll'.req.session \in {None, feedSession}
    BY <1>1, <1>3, <1>6 DEF ScrollStands
  <2>2. ASSUME Answered(scroll'.answer)
        PROVE  LET page == scroll'.answer IN
               /\ PageStands(page, Asked, sessions'[page.session], Seen(shown, page.session))
               /\ \/ page.session = feedSession /\ feedAcceptedPosition <= page.position
                  \/ Seen(shown, page.session) = {}
    <3>1. scroll'.answer # Failed
      BY <2>2 DEF Answered
    <3>2. PICK st \in PageOutcomes(scroll.req) :
            FeedPage(scroll.req, st) /\ scroll'.answer = PageOf(scroll.req, st)
      BY <1>3, <3>1
    <3> QED
      BY <1>1, <3>2, PageAnswered
  <2>4. ASSUME Answered(scroll'.answer)
        PROVE  Behind(Asked', scroll'.answer.session, scroll'.answer.position,
                      scroll'.answer.revision)
    BY <1>5, <2>2, <2>4, BehindFewer DEF PageStands
  <2> DEFINE page == scroll'.answer
             known == Seen(shown, page.session)
  <2>6. ASSUME Answered(page)
        PROVE  /\ PageStands(page, Asked', sessions'[page.session], known)
               /\ \/ page.session = feedSession /\ feedAcceptedPosition <= page.position
                  \/ known = {}
    BY <2>2, <2>4, <2>6 DEF PageStands
  <2> QED
    BY <1>1, <2>1, <2>6 DEF ScrollStands, Seen
<1> QED
  BY <1>7, <1>8, <1>9, <1>10 DEF TabSound

LEMMA EventAnswered ==
    ASSUME FeedInv, Counted, Counted', TabTypeOK, PostAsked, post # None,
           ~EventRefused(post.req),
           NEW st \in FeedbackOutcomes(post.req), Feedback(post.req, st),
           NEW answer, answer = [session |-> post.req.session,
                                 cursor |-> NextCursor(post.req.session, st),
                                 position |-> post.req.accepted.position,
                                 revision |-> st.revision]
    PROVE  EventStands(post.req, answer, sessions'[post.req.session])
<1> DEFINE req == post.req
           ask == AskedOf(req)
           s == req.session
           p == req.accepted.position
           old == sessions[s]
<1>1. req \in KnownEvent /\ s = req.named
  BY PostOf DEF EventRefused
<1>2. EventStep(req)
  BY DEF EventStep
<1>3. /\ EventStep(ask) /\ ask \in FeedbackRequest /\ ask.accepted # None
      /\ ask.session = s /\ ask.accepted = req.accepted
  BY <1>1, <1>2, EventReaches
<1>4. s \in Known /\ p \in Nat /\ req.accepted.revision \in Nat
  BY <1>1, KnownEventType, ProgressType
<1>5. sessions'[s] = st
  <2>1. s \in SessionId /\ sessions \in [SessionId -> Session \cup {None}]
    BY <1>4, KnownIds DEF FeedInv, FeedTypeOK
  <2> HIDE DEF s
  <2> QED
    BY <2>1 DEF Feedback, s
<1>6. /\ st.position = p /\ st.position \in Positions /\ st.revision \in Revisions
      /\ Sound(st, version)
  BY <1>1, <1>2, <1>5, EventAnswerType
<1> HIDE DEF ask
<1>7. /\ old # None /\ Sound(old, version) /\ Keeps(old, st, p)
      /\ st.revision \in {old.revision, old.revision + 1}
  BY <1>3, <1>5, EventOutcome, EventCounts
<1>8. req.accepted.revision <= old.revision /\ old.revision \in Nat /\ st.revision \in Nat
  BY <1>1, <1>6, <1>7, SessionOf DEF PostAsked, Stands, Sound
<1>9. /\ Names(NextCursor(s, st), s, st.position, st.revision)
      /\ NextCursor(s, st) = None => ~HasMore(st)
  <2>1. s \in Nat
    BY <1>4, KnownIds
  <2> HIDE DEF s
  <2> QED
    BY <1>4, <1>6, <2>1, CursorType
<1>10. NextCursor(s, st) = None => Rest(st)
  <2> SUFFICES ASSUME ~HasMore(st) PROVE Rest(st)
    BY <1>9
  <2>1. st.queue = <<>> /\ ~(st.source < Len(st.items))
    BY DEF HasMore
  <2>2. st.source <= Len(st.items) /\ st.source \in Nat /\ Len(st.items) \in Nat
    BY <1>6, SessionOf DEF Sound, Conserved
  <2>3. st.deliveries = <<>>
    BY <1>7 DEF Keeps
  <2> QED
    BY <2>1, <2>2, <2>3 DEF Rest
<1>11. /\ answer.session = s /\ answer.cursor = NextCursor(s, st) /\ answer.position = p
       /\ answer.revision = st.revision
  OBVIOUS
<1>12. req.accepted.revision <= st.revision /\ st.revision <= st.revision
  BY <1>4, <1>7, <1>8
<1> HIDE DEF req, s, p, old
<1> QED
  BY <1>1, <1>5, <1>6, <1>9, <1>10, <1>11, <1>12 DEF EventStands, req, s, p

LEMMA AnswerEventSound ==
    ASSUME FeedInv, FeedInv', Counted, Counted', TabTypeOK, TabSound, AnswerEvent
    PROVE  TabSound'
<1>1. /\ post # None /\ post.answer = None /\ scroll' = scroll /\ dropped' = dropped
      /\ UNCHANGED <<feedSession, feedCursor, feedHasMore, feedQueueRevision,
                     feedAcceptedPosition, cards, shown, failures>>
  BY DEF AnswerEvent, tabVars
<1> DEFINE req == post.req
           Reported(st) == [session |-> req.session, cursor |-> NextCursor(req.session, st),
                            position |-> req.accepted.position, revision |-> st.revision]
<1>2. \A x : [post EXCEPT !.answer = x] = [answer |-> x, req |-> req]
  BY <1>1, PostOf
<1>3. /\ post'.req = req
      /\ \/ post'.answer = Failed
         \/ /\ ~EventRefused(req)
            /\ \E st \in FeedbackOutcomes(req) :
                 Feedback(req, st) /\ post'.answer = Reported(st)
  <2>1. \/ post' = [answer |-> Failed, req |-> req]
        \/ /\ ~EventRefused(req)
           /\ \E st \in FeedbackOutcomes(req) :
                Feedback(req, st) /\ post' = [answer |-> Reported(st), req |-> req]
    BY <1>2 DEF AnswerEvent
  <2> HIDE DEF req, Reported
  <2> QED
    BY <2>1
<1>4. Carries /\ Rests
  BY ServerCarries
<1>5. Asked' = Asked
  BY <1>1 DEF Asked
<1>6. TabStands /\ PostStands /\ ScrollStands /\ RequestsStand /\ PostAsked /\ scroll = None
  BY <1>1 DEF TabSound, PostStands
<1>7. TabStands'
  <2>1. post' # None
    BY AnswerEventType
  <2> QED
    BY <1>1, <1>4, <1>5, <1>6, <2>1, TabKept
<1>8. PostStands'
  <2>1. PostAsked'
    BY <1>1, <1>3, <1>4, <1>5, <1>6, PostKept
  <2>2. ASSUME Answered(post'.answer)
        PROVE  EventStands(req, post'.answer, sessions'[req.session])
    <3>1. post'.answer # Failed
      BY <2>2 DEF Answered
    <3>2. PICK st \in FeedbackOutcomes(req) :
            Feedback(req, st) /\ post'.answer = Reported(st) /\ ~EventRefused(req)
      BY <1>3, <3>1
    <3> QED
      BY <1>1, <1>6, <3>2, EventAnswered
  <2> QED
    BY <1>1, <1>3, <1>6, <2>1, <2>2 DEF PostStands
<1>9. ScrollStands'
  BY <1>1, <1>6 DEF ScrollStands
<1>10. RequestsStand'
  <2>1. dropped' \ PageRequest = {}
    BY <1>1, <1>6, DroppedAssumption DEF RequestsStand
  <2> QED
    BY <1>4, <1>5, <1>6, <2>1, RequestsKept
<1> QED
  BY <1>7, <1>8, <1>9, <1>10 DEF TabSound

-----------------------------------------------------------------------------
(* The tab's steps                                                         *)

LEMMA DroppedPages ==
    ASSUME TabTypeOK, Drop(Unanswered(scroll)),
           scroll' = None \/ (scroll # None /\ scroll'.req = scroll.req)
    PROVE  Asked' \subseteq Asked /\ dropped' \ PageRequest \subseteq dropped \ PageRequest
<1>1. dropped' \subseteq dropped \cup {scroll.req} /\ (dropped' # dropped => scroll # None)
  BY DropType
<1>2. scroll # None => scroll.req \in PageRequest
  BY ScrollOf, KnownPageType
<1> QED
  BY <1>1, <1>2 DEF Asked

LEMMA RequestsStay ==
    ASSUME RequestsStand, sessions' = sessions, post' = post, Asked' \subseteq Asked,
           dropped' \ PageRequest \subseteq dropped \ PageRequest
    PROVE  RequestsStand'
<1>1. \A req \in Asked' : req.session # None /\ req.cursor = None => Rest(sessions'[req.session])
  BY DEF RequestsStand
<1>2. \A req \in dropped' \ PageRequest : post' # None /\ post'.answer = Failed /\ req = post'.req
  BY DEF RequestsStand
<1> QED
  BY <1>1, <1>2 DEF RequestsStand

LEMMA TabStays ==
    ASSUME TabStands, Asked' \subseteq Asked,
           UNCHANGED <<sessions, feedSession, feedQueueRevision, feedAcceptedPosition, cards, shown>>,
           feedCursor' = feedCursor \/ feedCursor' = None,
           feedCursor' = None /\ feedHasMore' /\ post' = None =>
             feedCursor = None /\ feedHasMore /\ post = None
    PROVE  TabStands'
<1>1. Names(feedCursor, feedSession, feedAcceptedPosition, feedQueueRevision)'
  BY DEF TabStands, Names
<1>2. Seen(shown, feedSession)' = Seen(shown, feedSession)
  BY DEF Seen
<1>3. ASSUME feedSession # None
      PROVE  Behind(Asked', feedSession, feedAcceptedPosition, feedQueueRevision)
  BY <1>3, BehindFewer DEF TabStands
<1>4. ASSUME feedSession # None
      PROVE  /\ Stands(sessions[feedSession], feedAcceptedPosition, feedQueueRevision,
                       Seen(shown, feedSession))
             /\ feedCursor' = None /\ feedHasMore' /\ post' = None => Rest(sessions[feedSession])
             /\ \A card \in cards : card.session = feedSession =>
                  Given(sessions[feedSession], card.article, feedAcceptedPosition)
  BY <1>4 DEF TabStands
<1> QED
  BY <1>1, <1>2, <1>3, <1>4 DEF TabStands

LEMMA LoadFeedPageSound ==
    ASSUME FeedInv, TabTypeOK, TabSound, NEW limit \in Limit, LoadFeedPage(limit)
    PROVE  TabSound'
<1> DEFINE req == NextRequest(limit)
<1>1. /\ scroll = None /\ post = None /\ feedHasMore /\ post' = post /\ dropped' = dropped
      /\ UNCHANGED <<sessions, feedSession, feedCursor, feedHasMore, feedQueueRevision,
                     feedAcceptedPosition, cards, shown>>
      /\ scroll' = [answer |-> None, req |-> req]
  BY LoadFeedPageType DEF LoadFeedPage, feedVars, tabVars
<1>2. TabStands /\ RequestsStand
  BY DEF TabSound
<1>3. Names(feedCursor, feedSession, feedAcceptedPosition, feedQueueRevision)
  BY <1>2 DEF TabStands
<1>4. /\ feedCursor = None => req.session = feedSession /\ req.cursor = None
      /\ feedCursor # None => /\ req.session = feedCursor.session /\ req.cursor # None
                              /\ req.cursor.position = feedCursor.position
                              /\ req.cursor.revision = feedCursor.revision
      /\ req \in KnownPage
  BY NextRequestType
<1> HIDE DEF req
<1>5. req.session = feedSession
  BY <1>3, <1>4 DEF Names
<1>6. Asked' \subseteq Asked \cup {req}
  BY <1>1 DEF Asked
<1>7. TabStands'
  <2>1. ASSUME feedSession # None
        PROVE  Behind(Asked', feedSession, feedAcceptedPosition, feedQueueRevision)
    <3>1. Behind(Asked, feedSession, feedAcceptedPosition, feedQueueRevision)
      BY <1>2, <2>1 DEF TabStands
    <3>2. req.cursor # None => /\ req.cursor.position = feedAcceptedPosition
                               /\ req.cursor.revision = feedQueueRevision
      BY <1>3, <1>4 DEF Names
    <3>3. feedAcceptedPosition \in Nat
      BY TabNumbers
    <3>4. feedAcceptedPosition <= feedAcceptedPosition
      BY <3>3
    <3> QED
      BY <1>6, <3>1, <3>2, <3>4 DEF Behind
  <2>2. Seen(shown, feedSession)' = Seen(shown, feedSession)
    BY <1>1 DEF Seen
  <2> QED
    BY <1>1, <1>2, <2>1, <2>2 DEF TabStands
<1>8. PostStands'
  BY <1>1 DEF PostStands
<1>9. ScrollStands'
  <2>1. scroll'.req = req /\ scroll'.answer = None
    BY <1>1
  <2> QED
    BY <1>1, <1>5, <2>1 DEF ScrollStands, Answered
<1>10. RequestsStand'
  <2>1. \A x \in dropped' \ PageRequest : post' # None /\ post'.answer = Failed /\ x = post'.req
    BY <1>1, <1>2 DEF RequestsStand
  <2>2. ASSUME NEW x \in Asked', x.session # None, x.cursor = None
        PROVE  Rest(sessions'[x.session])
    <3>1. CASE x \in Asked
      BY <1>1, <1>2, <2>2, <3>1 DEF RequestsStand
    <3>2. CASE x = req
      BY <1>1, <1>2, <1>4, <1>5, <2>2, <3>2 DEF TabStands
    <3> QED
      BY <1>6, <3>1, <3>2
  <2> QED
    BY <2>1, <2>2 DEF RequestsStand
<1> QED
  BY <1>7, <1>8, <1>9, <1>10 DEF TabSound

LEMMA GivenLater ==
    ASSUME NEW st \in Session \cup {None}, NEW a, NEW p \in Nat, NEW q \in Nat, p <= q,
           Given(st, a, p)
    PROVE  Given(st, a, q)
<1> SUFFICES ASSUME st # None, a \notin st.given PROVE Given(st, a, q)
  BY DEF Given
<1>1. PICK card \in st.eligible : card.article = a /\ card.end <= p
  BY DEF Given
<1>2. card.end \in Nat
  BY SessionOf DEF Card
<1> QED
  BY <1>1, <1>2 DEF Given

LEMMA AcceptFeedPageSound ==
    ASSUME FeedInv, TabTypeOK, TabSound, AcceptFeedPage
    PROVE  TabSound'
<1> DEFINE page == scroll.answer
           s == page.session
           q == page.position
           r == page.revision
           st == sessions[s]
<1>1. /\ scroll # None /\ Answered(page) /\ scroll' = None /\ post' = post /\ dropped' = dropped
      /\ sessions' = sessions /\ feedCursor' = page.cursor /\ feedSession' = s
      /\ feedHasMore' = (page.cursor # None /\ page.articles # {})
      /\ feedQueueRevision' = r /\ feedAcceptedPosition' = q
  BY DEF AcceptFeedPage, Answered, feedVars
<1>2. page \in PageAnswer /\ cards' \subseteq cards \cup NewCards(page)
      /\ shown' = shown \cup NewCards(page)
  BY AcceptFeedPageType
<1>3. /\ TabStands /\ RequestsStand /\ post = None
      /\ PageStands(page, Asked, st, Seen(shown, s))
      /\ \/ s = feedSession /\ feedAcceptedPosition <= q
         \/ Seen(shown, s) = {}
  BY <1>1 DEF TabSound, PostStands, ScrollStands
<1>4. Cardinality(Article) \in Nat /\ MaxFeedback \in Nat
  BY ArticleAssumption, FS_CardinalityType, FeedBoundAssumption
<1>5. s \in Known /\ q \in Nat /\ r \in Nat /\ s # None
  BY <1>2, <1>4, KnownIds DEF PageAnswer, Positions, Revisions
<1>6. Asked' \subseteq Asked
  BY <1>1 DEF Asked
<1> HIDE DEF page, s, q, r, st
<1>7. TabStands'
  <2>1. Names(page.cursor, s, q, r)
    BY <1>3 DEF PageStands, s, q, r
  <2>2. Behind(Asked', s, q, r)
    <3>1. Behind(Asked, s, q, r)
      BY <1>3 DEF PageStands, s, q, r
    <3> QED
      BY <1>6, <3>1, BehindFewer
  <2>3. Stands(st, q, r, Seen(shown', s))
    <3>1. Stands(st, q, r, Seen(shown, s) \cup page.articles)
      BY <1>3 DEF PageStands, s, q, r
    <3>2. \A a \in page.articles : /\ [article |-> a, session |-> s] \in NewCards(page)
                                   /\ [article |-> a, session |-> s].article = a
                                   /\ [article |-> a, session |-> s].session = s
      BY DEF NewCards, s
    <3>3. Seen(shown, s) \cup page.articles \subseteq Seen(shown', s)
      BY <1>2, <3>2 DEF Seen
    <3> QED
      BY <3>1, <3>3 DEF Stands
  <2>4. ASSUME NEW card \in cards', card.session = s
        PROVE  Given(st, card.article, q)
    <3>1. CASE card \in NewCards(page)
      <4>1. card.article \in page.articles
        BY <3>1 DEF NewCards
      <4> QED
        BY <1>3, <4>1 DEF PageStands, q
    <3>2. CASE card \in cards
      <4>1. card.article \in Seen(shown, s)
        BY <2>4, <3>2 DEF Seen, TabTypeOK
      <4>2. s = feedSession /\ feedAcceptedPosition <= q
        BY <1>3, <4>1
      <4>3. Given(st, card.article, feedAcceptedPosition)
        BY <1>3, <1>5, <2>4, <3>2, <4>2 DEF TabStands, st
      <4>4. st \in Session \cup {None} /\ feedAcceptedPosition \in Nat
        BY <1>5, KnownIds, TabNumbers DEF FeedInv, FeedTypeOK, st
      <4> QED
        BY <1>5, <4>2, <4>3, <4>4, GivenLater
    <3> QED
      BY <1>2, <3>1, <3>2
  <2>5. sessions'[s] = st
    BY <1>1 DEF st
  <2>6. ~(feedCursor' = None /\ feedHasMore')
    BY <1>1
  <2> QED
    BY <1>1, <2>1, <2>2, <2>3, <2>4, <2>5, <2>6 DEF TabStands
<1>8. PostStands'
  BY <1>1, <1>3 DEF PostStands
<1>9. ScrollStands'
  BY <1>1 DEF ScrollStands
<1>10. RequestsStand'
  BY <1>1, <1>3, <1>6, RequestsStay
<1> QED
  BY <1>7, <1>8, <1>9, <1>10 DEF TabSound

LEMMA PageGoneSound ==
    ASSUME FeedInv, TabTypeOK, TabSound, PageError \/ PageLost
    PROVE  TabSound'
<1>1. TabStands /\ RequestsStand /\ scroll # None /\ post = None
  BY DEF TabSound, PostStands, PageError, PageLost
<1>2. /\ UNCHANGED <<sessions, feedSession, feedCursor, feedQueueRevision, feedAcceptedPosition,
                     cards, shown, post>>
      /\ feedHasMore' = FALSE \/ feedHasMore' = feedHasMore
  BY DEF PageError, PageLost, feedVars, tabVars
<1>3. scroll' = None \/ (scroll'.req = scroll.req /\ scroll'.answer = Failed)
  BY <1>1, ScrollOf DEF PageError, PageLost
<1>4. Asked' \subseteq Asked /\ dropped' \ PageRequest \subseteq dropped \ PageRequest
  <2>1. CASE PageLost
    BY <1>1, <1>3, <2>1, DroppedPages DEF PageLost
  <2>2. CASE PageError
    BY <2>2 DEF PageError, Asked
  <2> QED
    BY <2>1, <2>2
<1>5. TabStands'
  BY <1>1, <1>2, <1>4, TabStays
<1>6. PostStands'
  BY <1>1, <1>2 DEF PostStands
<1>7. ScrollStands'
  BY <1>1, <1>2, <1>3 DEF ScrollStands, TabSound, Answered
<1>8. RequestsStand'
  BY <1>1, <1>2, <1>4, RequestsStay
<1> QED
  BY <1>5, <1>6, <1>7, <1>8 DEF TabSound

LEMMA EventOfSound ==
    ASSUME FeedInv, TabTypeOK, TabSound, NEW card \in cards, NEW action \in {"click", "skip"},
           EventOf(card, action)
    PROVE  TabSound'
<1>1. /\ post = None /\ scroll' = None /\ feedCursor' = None /\ Drop(Unanswered(scroll))
      /\ UNCHANGED <<sessions, feedSession, feedHasMore, feedQueueRevision, feedAcceptedPosition,
                     cards, shown>>
  BY DEF EventOf, feedVars
<1>2. /\ post' # None /\ post'.answer = None /\ post'.req \in KnownEvent
      /\ post'.req.named = feedSession
      /\ post'.req.accepted.position = feedAcceptedPosition
      /\ post'.req.accepted.revision = feedQueueRevision
  BY EventOfType
<1>3. TabStands /\ RequestsStand
  BY DEF TabSound
<1>4. Asked' \subseteq Asked /\ dropped' \ PageRequest \subseteq dropped \ PageRequest
  BY <1>1, DroppedPages
<1>5. TabStands'
  BY <1>1, <1>2, <1>3, <1>4, TabStays
<1>6. PostStands'
  <2>1. post'.req.session # None
    BY <1>2, KnownEventType, KnownIds
  <2>2. PostAsked'
    BY <1>1, <1>2, <1>5, <2>1 DEF PostAsked, TabStands
  <2> QED
    BY <1>1, <1>2, <2>2 DEF PostStands, Answered
<1>7. ScrollStands'
  BY <1>1 DEF ScrollStands
<1>8. RequestsStand'
  <2>1. dropped' \ PageRequest = {}
    BY <1>1, <1>3, <1>4 DEF RequestsStand
  <2>2. \A req \in Asked' : req.session # None /\ req.cursor = None => Rest(sessions'[req.session])
    BY <1>1, <1>3, <1>4 DEF RequestsStand
  <2> QED
    BY <2>1, <2>2 DEF RequestsStand
<1> QED
  BY <1>5, <1>6, <1>7, <1>8 DEF TabSound

LEMMA EventDoneSound ==
    ASSUME FeedInv, TabTypeOK, TabSound, EventDone
    PROVE  TabSound'
<1> DEFINE answer == post.answer
           req == post.req
           s == req.session
           p == req.accepted.position
           r == req.accepted.revision
           st == sessions[s]
<1>1. /\ post # None /\ Answered(answer) /\ post' = None /\ cards' = {} /\ feedHasMore' = TRUE
      /\ feedCursor' = answer.cursor /\ feedSession' = answer.session
      /\ feedQueueRevision' = answer.revision /\ feedAcceptedPosition' = answer.position
      /\ UNCHANGED <<sessions, scroll, dropped, shown>>
  BY DEF EventDone, Answered, feedVars
<1>2. /\ TabStands /\ RequestsStand /\ PostAsked /\ scroll = None
      /\ EventStands(req, answer, st)
  BY <1>1 DEF TabSound, PostStands
<1>3. answer \in Reply /\ answer.revision \in Nat
  BY EventDoneType, FeedBoundAssumption DEF Reply, Revisions
<1>4. s \in Known /\ p \in Nat /\ r \in Nat
  BY <1>1, PostOf, KnownEventType, ProgressType
<1>5. Asked' = Asked
  BY <1>1 DEF Asked
<1>6. Behind(Asked, s, p, r) /\ Stands(st, p, r, Seen(shown, s))
  BY <1>2 DEF PostAsked, EventStands
<1>7. /\ answer.session = s /\ answer.position = p /\ r <= answer.revision
      /\ st # None => answer.revision <= st.revision
      /\ Names(answer.cursor, s, p, answer.revision)
      /\ answer.cursor = None => Rest(st)
  BY <1>2 DEF EventStands
<1>8. ~ \E x \in dropped : x \notin PageRequest
  BY <1>1, <1>2 DEF RequestsStand, Answered
<1> HIDE DEF answer, req, s, p, r
<1>9. TabStands'
  <2>1. Behind(Asked, s, p, answer.revision)
    <3>1. p <= p
      BY <1>4
    <3> QED
      BY <1>3, <1>4, <1>6, <1>7, <3>1, AskedPages, BehindLater
  <2>2. Stands(st, p, answer.revision, Seen(shown, s))
    BY <1>6, <1>7 DEF Stands
  <2> QED
    BY <1>1, <1>5, <1>7, <2>1, <2>2 DEF TabStands
<1>10. PostStands'
  BY <1>1 DEF PostStands
<1>11. ScrollStands'
  BY <1>1, <1>2 DEF ScrollStands
<1>12. RequestsStand'
  BY <1>1, <1>2, <1>5, <1>8 DEF RequestsStand
<1> QED
  BY <1>9, <1>10, <1>11, <1>12 DEF TabSound

LEMMA EventLostSound ==
    ASSUME FeedInv, TabTypeOK, TabSound, EventLost
    PROVE  TabSound'
<1>1. /\ post # None /\ post.answer # Failed /\ post' = [post EXCEPT !.answer = Failed]
      /\ Drop(Unanswered(post))
      /\ UNCHANGED <<sessions, feedSession, feedCursor, feedHasMore, feedQueueRevision,
                     feedAcceptedPosition, cards, shown, scroll>>
  BY DEF EventLost, feedVars, tabVars
<1>2. /\ post.req \in KnownEvent /\ post' = [answer |-> Failed, req |-> post.req]
      /\ post'.req = post.req /\ post'.answer = Failed
  BY <1>1, PostOf
<1>3. post' # None
  BY <1>2, PostWaits
<1>4. TabStands /\ RequestsStand /\ PostAsked /\ scroll = None
  BY <1>1 DEF TabSound, PostStands
<1>5. dropped' \subseteq dropped \cup {post.req} /\ post.req \notin PageRequest
  BY <1>1, <1>2, DropType, KnownEventType
<1>6. Asked' \subseteq Asked
  BY <1>1, <1>5 DEF Asked
<1>7. TabStands'
  BY <1>1, <1>3, <1>4, <1>6, TabStays
<1>8. PostStands'
  <2>1. PostAsked'
    <3>1. post.req.session = post.req.named =>
            Behind(Asked', post.req.session, post.req.accepted.position,
                   post.req.accepted.revision)
      BY <1>4, <1>6, BehindFewer DEF PostAsked
    <3> QED
      BY <1>1, <1>2, <1>4, <3>1 DEF PostAsked
  <2> QED
    BY <1>1, <1>2, <1>4, <2>1 DEF PostStands, Answered
<1>9. ScrollStands'
  BY <1>1, <1>4 DEF ScrollStands
<1>10. RequestsStand'
  <2>1. \A x \in dropped' \ PageRequest : x = post.req
    BY <1>1, <1>4, <1>5 DEF RequestsStand
  <2>2. \A x \in Asked' : x.session # None /\ x.cursor = None => Rest(sessions'[x.session])
    BY <1>1, <1>4, <1>6 DEF RequestsStand
  <2> QED
    BY <1>2, <1>3, <2>1, <2>2 DEF RequestsStand
<1> QED
  BY <1>7, <1>8, <1>9, <1>10 DEF TabSound

LEMMA RefreshSound ==
    ASSUME FeedInv, TabTypeOK, TabSound, Refresh
    PROVE  TabSound'
<1>1. /\ scroll' = None /\ feedSession' = None /\ feedCursor' = None /\ Drop(Unanswered(scroll))
      /\ UNCHANGED <<sessions, shown, post>>
  BY DEF Refresh, feedVars
<1>2. RequestsStand /\ PostStands
  BY DEF TabSound
<1>3. Asked' \subseteq Asked /\ dropped' \ PageRequest \subseteq dropped \ PageRequest
  BY <1>1, DroppedPages
<1>4. TabStands'
  BY <1>1 DEF TabStands, Names
<1>5. PostStands'
  <2> SUFFICES ASSUME post # None PROVE PostStands'
    BY <1>1 DEF PostStands
  <2>1. post.req.session = post.req.named =>
          Behind(Asked', post.req.session, post.req.accepted.position, post.req.accepted.revision)
    BY <1>2, <1>3, BehindFewer DEF PostStands, PostAsked
  <2>2. PostAsked'
    BY <1>1, <1>2, <2>1 DEF PostStands, PostAsked
  <2> QED
    BY <1>1, <1>2, <2>2 DEF PostStands
<1>6. ScrollStands'
  BY <1>1 DEF ScrollStands
<1>7. RequestsStand'
  BY <1>1, <1>2, <1>3, RequestsStay
<1> QED
  BY <1>4, <1>5, <1>6, <1>7 DEF TabSound

LEMMA TabSoundStep ==
    ASSUME FeedInv, FeedInv', Counted, Counted', TabTypeOK, TabSound, [Next]_vars, ~EventError
    PROVE  TabSound'
<1>1. CASE DroppedArrives \/ Environment \/ UNCHANGED vars
  BY <1>1, ServedSound
<1>2. CASE AnswerPage
  BY <1>2, AnswerPageSound
<1>3. CASE AnswerEvent
  BY <1>3, AnswerEventSound
<1>4. CASE PageError \/ PageLost
  BY <1>4, PageGoneSound
<1>5. CASE AcceptFeedPage
  BY <1>5, AcceptFeedPageSound
<1>6. CASE EventDone
  BY <1>6, EventDoneSound
<1>7. CASE EventLost
  BY <1>7, EventLostSound
<1>8. CASE Refresh
  BY <1>8, RefreshSound
<1>9. ASSUME NEW limit \in Limit, LoadFeedPage(limit) PROVE TabSound'
  BY <1>9, LoadFeedPageSound
<1>10. ASSUME NEW card \in cards, NEW action \in {"click", "skip"}, EventOf(card, action)
       PROVE  TabSound'
  BY <1>10, EventOfSound
<1> QED
  BY <1>1, <1>2, <1>3, <1>4, <1>5, <1>6, <1>7, <1>8, <1>9, <1>10 DEF Next

LEMMA FailuresGrow ==
    ASSUME failures \in Nat, [Next]_vars
    PROVE  failures' = failures \/ (EventError /\ failures' # 0)
<1>1. CASE EventError
  BY <1>1 DEF EventError
<1>2. CASE ~EventError
  BY <1>2 DEF Next, LoadFeedPage, AcceptFeedPage, PageError, PageLost, EventOf, EventDone,
              EventLost, Refresh, AnswerPage, AnswerEvent, DroppedArrives, Environment, vars
<1> QED
  BY <1>1, <1>2

LEMMA TabInit == Init => FeedInv /\ TabInv
<1> SUFFICES ASSUME Init PROVE FeedInv /\ TabInv
  OBVIOUS
<1>1. FeedInv
  BY FeedInitInv DEF Init
<1>2. /\ feedSession = None /\ feedCursor = None /\ feedHasMore = TRUE
      /\ feedQueueRevision = 0 /\ feedAcceptedPosition = 0
      /\ cards = {} /\ shown = {} /\ scroll = None /\ post = None /\ dropped = {} /\ failures = 0
  BY DEF Init
<1>3. TabTypeOK
  <2>1. 0 \in Positions /\ 0 \in Revisions
    BY ArticleAssumption, FS_CardinalityType, FeedBoundAssumption DEF Positions, Revisions
  <2> QED
    BY <1>2, <2>1 DEF TabTypeOK, Cursor, Scrolls, Posts
<1>4. Counted
  BY FeedBoundAssumption DEF Init, FeedInit, Counted
<1>5. Asked = {}
  BY <1>2 DEF Asked
<1>6. TabSound
  <2>1. TabStands
    BY <1>2 DEF TabStands, Names
  <2>2. PostStands /\ ScrollStands
    BY <1>2 DEF PostStands, ScrollStands
  <2>3. RequestsStand
    BY <1>2, <1>5 DEF RequestsStand
  <2> QED
    BY <2>1, <2>2, <2>3 DEF TabSound
<1> QED
  BY <1>1, <1>3, <1>4, <1>6 DEF TabInv

LEMMA TabNext == FeedInv /\ TabInv /\ [Next]_vars => (FeedInv /\ TabInv)'
<1> SUFFICES ASSUME FeedInv, TabInv, [Next]_vars PROVE (FeedInv /\ TabInv)'
  OBVIOUS
<1>1. Counted /\ TabTypeOK /\ failures \in Nat
  BY DEF TabInv, TabTypeOK
<1>2. FeedInv' /\ Counted' /\ TabTypeOK'
  BY <1>1, TabTypeStep
<1>3. ASSUME failures' = 0 PROVE TabSound'
  <2>1. failures = 0 /\ ~EventError
    BY <1>1, <1>3, FailuresGrow DEF EventError
  <2> QED
    BY <1>1, <1>2, <2>1, TabSoundStep DEF TabInv
<1> QED
  BY <1>2, <1>3 DEF TabInv

\* The requests of a tab, answered, aborted or late, are requests that the sessions
\* know: the tab with its network implements the sessions alone.
THEOREM TabDrivesSessions == Spec => FeedSpec
<1>1. Init => FeedInit
  BY DEF Init
<1>2. FeedInv /\ TabInv /\ [Next]_vars => [FeedNext]_feedVars
  <2> SUFFICES ASSUME FeedInv, TabInv, [Next]_vars PROVE FeedNext \/ UNCHANGED feedVars
    OBVIOUS
  <2>1. ServerStep
    BY NextServes DEF TabInv
  <2>2. ASSUME NEW req \in PageRequest, PageStep(req) PROVE FeedNext
    <3>1. Accepts(req)
      BY <2>2, PageStepStores
    <3> QED
      BY <2>2, <3>1 DEF FeedNext, PageStep
  <2>3. ASSUME NEW req \in FeedbackRequest, EventStep(req) PROVE FeedNext
    <3>1. Matches(Found(req.session), req)
      BY <2>3 DEF EventStep, ProvenanceFails, RerankFails, FeedbackOutcomes
    <3> QED
      BY <2>3, <3>1 DEF FeedNext, EventStep
  <2>4. NewRules \/ (\E s \in SessionId : Forget(s)) => FeedNext
    BY DEF FeedNext
  <2> QED
    BY <2>1, <2>2, <2>3, <2>4 DEF ServerStep
<1> QED
  BY <1>1, <1>2, TabInit, TabNext, PTL DEF Spec, FeedSpec

\* The invariant of the tab, its requests and the sessions they name.
THEOREM TabInvHolds == Spec => [](FeedInv /\ TabInv)
BY TabInit, TabNext, PTL DEF Spec

\* The cursors, requests and answers of loadFeedPage and eventOf name sessions that
\* the server created, within the bounds of a session's position and revision.
THEOREM TabTypeCorrect == Spec => []TabTypeOK
<1>1. FeedInv /\ TabInv => TabTypeOK
  BY DEF TabInv
<1> QED
  BY <1>1, TabInvHolds, PTL

\* What the tab can say of the session it is in.
LEMMA TabReader ==
    ASSUME FeedInv, TabInv, failures = 0, feedSession \in Live
    PROVE  LET st == sessions[feedSession]
               p == feedAcceptedPosition
           IN  /\ Sound(st, version) /\ version \in Nat /\ p \in Nat /\ feedQueueRevision \in Nat
               /\ Lead(st, p)
               /\ \A card \in st.eligible : card.end <= p =>
                    card.article \in Seen(shown, feedSession)
               /\ \A card \in cards : card.session = feedSession => Given(st, card.article, p)
               /\ cards \subseteq shown /\ shown \subseteq ShownCard
<1>1. TabTypeOK /\ TabStands
  BY DEF TabInv, TabSound
<1>2. feedSession \in SessionId /\ sessions[feedSession] # None
  BY DEF Live
<1>3. feedSession # None
  BY <1>2, FeedBoundAssumption, NoneAssumption DEF SessionId
<1>4. Sound(sessions[feedSession], version) /\ version \in Nat
  BY <1>2 DEF FeedInv, FeedTypeOK
<1>5. feedAcceptedPosition \in Nat /\ feedQueueRevision \in Nat
  BY <1>1, TabNumbers
<1>6. /\ Stands(sessions[feedSession], feedAcceptedPosition, feedQueueRevision,
                Seen(shown, feedSession))
      /\ \A card \in cards : card.session = feedSession =>
           Given(sessions[feedSession], card.article, feedAcceptedPosition)
  BY <1>1, <1>3 DEF TabStands
<1> QED
  BY <1>1, <1>2, <1>4, <1>5, <1>6 DEF Stands, TabTypeOK

\* acceptFeedPage counts as accepted what the tab was given to show, and event takes
\* feedback on nothing else, as long as every event gets its answer: rows of a page
\* that was aborted or lost are recovered, not skipped.
THEOREM AcceptedRowsAreShown == Spec => []AcceptedRowsShownUnlessFailed
<1>1. FeedInv /\ TabInv => AcceptedRowsShownUnlessFailed
  <2> SUFFICES ASSUME FeedInv, TabInv, failures = 0, feedSession \in Live,
                      NEW card \in sessions[feedSession].eligible,
                      card.end <= feedAcceptedPosition
               PROVE  [article |-> card.article, session |-> feedSession] \in shown
    BY DEF AcceptedRowsShownUnlessFailed, AcceptedRowsShown
  <2>1. card.article \in Seen(shown, feedSession) /\ shown \subseteq ShownCard
    BY TabReader
  <2>2. PICK c \in shown : c.session = feedSession /\ c.article = card.article
    BY <2>1 DEF Seen
  <2>3. c = [article |-> c.article, session |-> c.session]
    BY <2>1, <2>2 DEF ShownCard
  <2> QED
    BY <2>2, <2>3
<1> QED
  BY <1>1, TabInvHolds, PTL

\* A reader who has all but the last page names a place that can be gone back to.
LEMMA LeadRecovers ==
    ASSUME NEW v \in Nat, NEW st, Sound(st, v), NEW p \in Nat, Lead(st, p),
           NEW accepted, accepted.position = p, accepted.revision = st.revision
    PROVE  Recoverable(st, accepted)
<1> DEFINE ds == st.deliveries
           n == Len(ds)
           q == st.position
           pending == EndingAfter(ds, p)
<1>1. /\ ds \in Seq(Page) /\ n \in Nat /\ q \in Nat
      /\ \A k \in 1..n : /\ ds[k].start \in Nat /\ ds[k].end \in Nat /\ ds[k].start < ds[k].end
                         /\ ds[k].end <= q /\ (k < n => ds[k].end <= LastPage(st).start)
      /\ n > 0 => LastPage(st).end = q
  BY PagesEnd
<1>2. \A k \in 1..n : ds[k].revision = st.revision
  BY DEF Sound, Replayable, PagesFit, PageFits
<1>3. CASE q = p
  <2>1. pending = <<>>
    BY <1>3, NoneAfter
  <2>2. Len(pending) = 0 /\ DOMAIN pending = {}
    BY <2>1, EmptySeq
  <2>3. Chain(pending, p, q)
    BY <1>3, <2>1 DEF Chain
  <2>4. p <= q
    BY <1>1, <1>3
  <2> QED
    BY <2>2, <2>3, <2>4 DEF Recoverable
<1>4. CASE q # p
  <2>1. n > 0 /\ LastPage(st).start = p
    BY <1>4 DEF Lead
  <2>2. n \in 1..n
    BY <1>1, <2>1
  <2>3. /\ LastPage(st) = ds[n] /\ ds[n].start = p /\ ds[n].end = q /\ p < q
        /\ \A k \in 1..n : k < n => ds[k].end <= p
    BY <1>1, <2>1, <2>2 DEF LastPage
  <2> HIDE DEF ds, n, q
  <2>4. PICK from \in 1..n + 1 : /\ pending = SubSeq(ds, from, n)
                                 /\ \A i \in from..n : ds[i].end > p
                                 /\ from > 1 => ds[from - 1].end <= p
    BY <1>1, EndingAfterIsSuffix DEF n
  <2>5. from = n
    <3>1. ASSUME from < n PROVE FALSE
      <4>1. from \in from..n /\ from \in 1..n
        BY <1>1, <3>1
      <4>2. ds[from].end > p /\ ds[from].end <= p /\ ds[from].end \in Nat
        BY <1>1, <2>3, <2>4, <3>1, <4>1
      <4> QED
        BY <4>2
    <3>2. ASSUME from = n + 1 PROVE FALSE
      <4>1. from > 1 /\ from - 1 = n
        BY <1>1, <2>2, <3>2
      <4>2. ds[n].end <= p
        BY <2>4, <4>1
      <4> QED
        BY <1>1, <2>3, <4>2
    <3> QED
      BY <1>1, <3>1, <3>2
  <2>6. pending \in Seq(Page) /\ Len(pending) = 1 /\ pending[1] = ds[n] /\ DOMAIN pending = 1..1
    <3>1. SubSeq(ds, n, n) \in Seq(Page) /\ Len(SubSeq(ds, n, n)) = 1 /\ SubSeq(ds, n, n)[1] = ds[n]
      <4>1. n \in 1..Len(ds) + 1 /\ Len(ds) = n
        BY <1>1, <2>2 DEF n
      <4>2. n - n + 1 = 1 /\ 1 \in 1..n - n + 1 /\ n + 1 - 1 = n
        BY <1>1
      <4> QED
        BY <1>1, <4>1, <4>2, SuffixPages
    <3> QED
      BY <2>4, <2>5, <3>1, LenProperties
  <2> HIDE DEF pending
  <2>7. Chain(pending, p, q)
    <3>1. pending # <<>>
      <4>1. ASSUME pending = <<>> PROVE Len(pending) = 0
        BY <4>1, EmptySeq
      <4>2. Len(pending) # 0
        BY <2>6
      <4> QED
        BY <4>1, <4>2
    <3>2. 1..Len(pending) - 1 = {}
      BY <2>6
    <3> QED
      BY <2>3, <2>6, <3>1, <3>2 DEF Chain
  <2>8. \A i \in DOMAIN pending : pending[i].revision = st.revision
    <3>1. \A i \in 1..1 : i = 1
      OBVIOUS
    <3> QED
      BY <1>2, <2>2, <2>6, <3>1
  <2> QED
    BY <1>1, <2>3, <2>7, <2>8 DEF Recoverable, pending, q, ds
<1> QED
  BY <1>3, <1>4

\* event refuses no feedback of a tab for the pages that were aborted or lost since,
\* and a card of the tab was accepted with the pages that it reports.
THEOREM FeedbackAlwaysFits == Spec => []FeedbackFits
<1>1. FeedInv /\ TabInv => FeedbackFits
  <2> SUFFICES ASSUME FeedInv, TabInv, failures = 0, feedSession \in Live,
                      feedQueueRevision = sessions[feedSession].revision
               PROVE  LET st == sessions[feedSession]
                          accepted == [position |-> feedAcceptedPosition,
                                       revision |-> feedQueueRevision]
                      IN  /\ Recoverable(st, accepted)
                          /\ \A card \in st.eligible :
                              [article |-> card.article, session |-> feedSession] \in cards =>
                                  card.end <= feedAcceptedPosition
    BY DEF FeedbackFits
  <2> DEFINE st == sessions[feedSession]
             p == feedAcceptedPosition
             accepted == [position |-> feedAcceptedPosition, revision |-> feedQueueRevision]
  <2>1. /\ Sound(st, version) /\ version \in Nat /\ p \in Nat /\ Lead(st, p)
        /\ \A card \in cards : card.session = feedSession => Given(st, card.article, p)
    BY TabReader
  <2>2. accepted.position = p /\ accepted.revision = st.revision
    OBVIOUS
  <2> HIDE DEF st, p, accepted
  <2>3. Recoverable(st, accepted)
    BY <2>1, <2>2, LeadRecovers
  <2>4. ASSUME NEW card \in st.eligible,
               [article |-> card.article, session |-> feedSession] \in cards
        PROVE  card.end <= p
    <3> DEFINE mine == [article |-> card.article, session |-> feedSession]
    <3>1. mine.article = card.article /\ mine.session = feedSession
      OBVIOUS
    <3>2. Given(st, card.article, p)
      BY <2>1, <2>4, <3>1
    <3>3. st # None /\ Conserved(st)
      BY <2>1 DEF Sound, Live, st
    <3>4. card.article \notin st.given
      BY <3>3 DEF Conserved, OpenTo
    <3>5. PICK other \in st.eligible : other.article = card.article /\ other.end <= p
      BY <3>2, <3>3, <3>4 DEF Given
    <3>6. other = card
      BY <3>3, <3>5 DEF Conserved
    <3> QED
      BY <3>5, <3>6
  <2> QED
    BY <2>3, <2>4 DEF st, p, accepted
<1> QED
  BY <1>1, TabInvHolds, PTL
================================================================================
