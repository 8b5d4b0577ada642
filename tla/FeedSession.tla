---------------------------- MODULE FeedSession ----------------------------
(***************************************************************************)
(* The live feed sessions of one user (app/lab_serving.py, Lab.event in    *)
(* app/server.py).  A session hands out its articles page by page: windows *)
(* of arriving articles are proof-ranked into a queue, pages are taken     *)
(* from its head.  Pages whose response may have been lost are retained,   *)
(* and feedback that names the last page its reader accepted puts the      *)
(* later ones back before the queue is ranked again.                       *)
(*                                                                         *)
(* Every handler runs under lab.lock and is one action.  A request the     *)
(* code refuses changes nothing and has no action.  A row is an article    *)
(* with the rule version that ranked it; scores are abstracted to the      *)
(* order they give, which may be any.                                      *)
(***************************************************************************)
EXTENDS Integers, SequencesExt

CONSTANTS
    Article,
    Limit,           \* page sizes that readers ask for
    FeedWindow,      \* feed_window: articles that arrive at a time
    HistoryLimit,    \* FEED_DELIVERY_HISTORY_LIMIT
    RowLimit,        \* FEED_DELIVERY_ROW_LIMIT
    None,
    MaxSessions,     \* bound on the sessions created
    MaxFeedback,     \* bound on the events recorded
    MaxVersion       \* bound on the rule version

ASSUME ArticleAssumption == IsFiniteSet(Article) /\ None \notin Article
ASSUME SizeAssumption ==
    /\ Limit \subseteq Nat \ {0} /\ FeedWindow \in Nat \ {0}
    /\ HistoryLimit \in Nat \ {0} /\ RowLimit \in Nat \ {0}
ASSUME FeedBoundAssumption ==
    MaxSessions \in Nat /\ MaxFeedback \in Nat /\ MaxVersion \in Nat

VARIABLES
    sessions,        \* _feed_sessions; None: not created yet, or forgotten
    created,         \* sessions created so far; a session's identity is its number
    version,         \* version of the Lab
    history,         \* the user's profile: articles with a positive action
    recorded         \* events recorded

feedVars == <<sessions, created, version, history, recorded>>

SessionId == 1..MaxSessions
(* A row is an article and the version that ranked it; a delivery is the   *)
(* rows of a page, their positions and the revision; a card is an article  *)
(* that was served and the end of its page.  A session is what NewSession  *)
(* shows: its cards (eligible) are feedback_contexts and                   *)
(* feedback_positions, replay is pair_replay, and given, the articles that *)
(* received feedback, is a history.                                        *)

FeedInit ==
    /\ sessions = [s \in SessionId |-> None]
    /\ created = 0 /\ version = 1 /\ recorded = 0
    /\ history = {}

Articles(rows) == {r.article : r \in ToSet(rows)}
Smaller(a, b) == IF a < b THEN a ELSE b
Larger(a, b) == IF a < b THEN b ELSE a

-----------------------------------------------------------------------------
(* Deliveries                                                              *)

(* The deliveries that end after a position: _acknowledge_feed_deliveries. *)
EndingAfter(ds, p) ==
    LET from == CHOOSE k \in 1..Len(ds) + 1 :
                    /\ \A i \in k..Len(ds) : ds[i].end > p
                    /\ k > 1 => ds[k - 1].end <= p
    IN  SubSeq(ds, from, Len(ds))

(* _record_feed_delivery drops the oldest while there are too many pages   *)
(* or rows, but never the last.  Deliveries are contiguous, so their rows  *)
(* are counted by their positions.                                         *)
Retained(ds) ==
    LET Fits(k) == /\ Len(ds) - k < HistoryLimit
                   /\ ds[Len(ds)].end - ds[k].start <= RowLimit
        from == CHOOSE k \in 1..Len(ds) :
                    /\ k = Len(ds) \/ Fits(k)
                    /\ \A i \in 1..k - 1 : ~Fits(i)
    IN  SubSeq(ds, from, Len(ds))

(* They lead from position p to position q, one after the other.           *)
Chain(ds, p, q) ==
    IF ds = <<>> THEN p = q
    ELSE /\ ds[1].start = p /\ ds[Len(ds)].end = q
         /\ \A i \in 1..Len(ds) - 1 : ds[i].end = ds[i + 1].start

(* Their rows from position p to position q.                               *)
RowsBetween(ds, p, q) ==
    [i \in 1..q - p |->
        LET k == CHOOSE k \in DOMAIN ds : ds[k].start < p + i /\ p + i <= ds[k].end
        IN  ds[k].rows[p + i - ds[k].start]]

-----------------------------------------------------------------------------
(* GET /api/feed: feed_page                                                *)

Found(s) == IF s = None THEN None ELSE sessions[s]

(* The session was ranked by another rule version, or the cursor's session *)
(* is gone: the reader gets a new session.                                 *)
MustReset(req) ==
    LET st == Found(req.session)
    IN  IF st = None THEN req.cursor # None ELSE st.version # version

Opens(req) == req.session = None \/ MustReset(req)

(* Articles already read are not offered again.                            *)
NewSession ==
    [items |-> CHOOSE s \in SetToSeqs(Article \ history) : TRUE,
     source |-> 0, position |-> 0, queue |-> <<>>, revision |-> 0,
     deliveries |-> <<>>, eligible |-> {}, version |-> version,
     replay |-> [version |-> 0, articles |-> {}], given |-> {}]

Accepts(req) ==
    IF Opens(req) THEN created < MaxSessions
    ELSE LET st == Found(req.session)
         IN  /\ st # None
             /\ req.cursor # None => req.cursor = [position |-> st.position,
                                                   revision |-> st.revision]

OpenedId(req) == IF Opens(req) THEN created + 1 ELSE req.session

(* The session before anything is ranked: a cursor proves that the pages   *)
(* before it were received.                                                *)
Opened(req) ==
    IF Opens(req) THEN NewSession
    ELSE LET st == Found(req.session)
         IN  IF req.cursor = None THEN st
             ELSE [st EXCEPT !.deliveries = EndingAfter(@, req.cursor.position)]

NeedsArrivals(st, limit) == Len(st.queue) < limit /\ st.source < Len(st.items)

(* One window arrives, which is never smaller than the page.               *)
Arrivals(st, limit) ==
    IF ~NeedsArrivals(st, limit) THEN {st}
    ELSE LET end == Smaller(Len(st.items), st.source + Larger(limit, FeedWindow))
             arriving == {st.items[i] : i \in st.source + 1..end}
         IN  {[st EXCEPT !.queue = @ \o ranked, !.source = end,
                         !.replay = [version |-> version, articles |-> arriving]] :
                 ranked \in SetToSeqs({[article |-> a, under |-> version] : a \in arriving})}

Deliver(st, limit) ==
    LET n == Smaller(limit, Len(st.queue))
        rows == SubSeq(st.queue, 1, n)
        end == st.position + n
        page == [start |-> st.position, end |-> end, revision |-> st.revision, rows |-> rows]
    IN  [st EXCEPT !.queue = SubSeq(@, n + 1, Len(@)),
                   !.position = end,
                   !.eligible = @ \cup {[article |-> a, end |-> end] : a \in Articles(rows)},
                   !.deliveries = IF n = 0 THEN @ ELSE Retained(Append(@, page))]

PageOutcomes(req) ==
    IF Accepts(req) THEN {Deliver(st, req.limit) : st \in Arrivals(Opened(req), req.limit)}
    ELSE {}

Store(id, st) ==
    /\ sessions' = [sessions EXCEPT ![id] = st]
    /\ created' = Larger(created, id)

FeedPage(req, st) ==
    /\ st \in PageOutcomes(req)
    /\ Store(OpenedId(req), st)
    /\ UNCHANGED <<version, history, recorded>>

(* Ranking the arrivals raises (a reasoner deadline): what was opened and  *)
(* acknowledged stays.                                                     *)
PageFails(req) ==
    /\ Accepts(req)
    /\ NeedsArrivals(Opened(req), req.limit)
    /\ Store(OpenedId(req), Opened(req))
    /\ UNCHANGED <<version, history, recorded>>

-----------------------------------------------------------------------------
(* POST /api/event: event.  accepted is what the reader says it received,  *)
(* or None for a caller that does not say.                                 *)

Recoverable(st, accepted) ==
    /\ accepted.revision = st.revision
    /\ accepted.position <= st.position
    /\ LET pending == EndingAfter(st.deliveries, accepted.position)
       IN  /\ Chain(pending, accepted.position, st.position)
           /\ \A i \in DOMAIN pending : pending[i].revision = accepted.revision

(* The card was served, and its reader had received it.                    *)
Matches(st, req) ==
    /\ st # None
    /\ \E card \in st.eligible :
        /\ card.article = req.article
        /\ req.accepted # None => card.end <= req.accepted.position
    /\ req.accepted # None => Recoverable(st, req.accepted)

(* Mutant: the recovered cards stay open to feedback.                      *)
RecoverKeepsCards(st, accepted) ==
    IF accepted = None THEN st
    ELSE [st EXCEPT !.queue = RowsBetween(st.deliveries, accepted.position, st.position) \o @,
                    !.position = accepted.position,
                    !.deliveries = <<>>]

(* Mutant: the pages are forgotten, and their rows with them.              *)
RecoverNothing(st, accepted) ==
    IF accepted = None THEN st ELSE [st EXCEPT !.deliveries = <<>>]

(* _recover_unaccepted_feed_deliveries                                     *)
Recover(st, accepted) ==
    IF accepted = None THEN st
    ELSE LET rows == RowsBetween(st.deliveries, accepted.position, st.position)
         IN  [st EXCEPT !.queue = rows \o @,
                        !.eligible = {card \in @ : card.article \notin Articles(rows)},
                        !.position = accepted.position,
                        !.deliveries = <<>>]

(* Mutant: without an accepted position the pages stay retained.           *)
TakenKeepsPages(st, req) ==
    [Recover(st, req.accepted) EXCEPT
        !.eligible = {card \in @ : card.article # req.article},
        !.given = @ \cup {req.article},
        !.revision = @ + 1]

(* The feedback is taken and a new revision of the queue begins.           *)
Taken(st, req) ==
    [Recover(st, req.accepted) EXCEPT
        !.eligible = {card \in @ : card.article # req.article},
        !.given = @ \cup {req.article},
        !.deliveries = <<>>,
        !.revision = @ + 1]

(* Mutant: the proofs of an older rule version are used again.             *)
ReusableAnyVersion(st, action) ==
    action = "skip" /\ Articles(st.queue) \subseteq st.replay.articles

(* _pairwise_replay_plan: all pairs of the queue were proved by the        *)
(* version in force.                                                       *)
Reusable(st, action) ==
    /\ action = "skip"
    /\ st.replay.version = version
    /\ Articles(st.queue) \subseteq st.replay.articles

(* _rerank_unserved_queue: every row is ranked anew, or only those whose   *)
(* evidence changed.                                                       *)
Reranked(st, action) ==
    LET rows == ToSet(st.queue)
        stale == IF Reusable(st, action) THEN SUBSET rows ELSE {rows}
        after(changed) == {IF r \in changed THEN [r EXCEPT !.under = version] ELSE r : r \in rows}
    IN  {[st EXCEPT !.queue = ranked, !.version = version] :
            ranked \in UNION {SetToSeqs(all) : all \in {after(changed) : changed \in stale}}}

FeedbackOutcomes(req) ==
    LET st == Found(req.session)
    IN  IF Matches(st, req) THEN Reranked(Taken(st, req), req.action) ELSE {}

Profile(req) ==
    /\ recorded < MaxFeedback
    /\ recorded' = recorded + 1
    /\ history' = IF req.action = "click" THEN history \cup {req.article} ELSE history
    /\ UNCHANGED <<created, version>>

Feedback(req, st) ==
    /\ st \in FeedbackOutcomes(req)
    /\ sessions' = [sessions EXCEPT ![req.session] = st]
    /\ Profile(req)

(* The ranking raises: the event is recorded, the queue keeps its order.   *)
RerankFails(req) ==
    /\ Matches(Found(req.session), req)
    /\ Taken(Found(req.session), req).queue # <<>>
    /\ sessions' = [sessions EXCEPT ![req.session] = Taken(@, req)]
    /\ Profile(req)

(* _validate_relational_context_provenance raises, after the recovery.     *)
ProvenanceFails(req) ==
    /\ Matches(Found(req.session), req)
    /\ sessions' = [sessions EXCEPT ![req.session] = Recover(@, req.accepted)]
    /\ UNCHANGED <<created, version, history, recorded>>

-----------------------------------------------------------------------------
(* A new rule set (a mine or a promotion) leaves the sessions alone.       *)
NewRules ==
    /\ version < MaxVersion
    /\ version' = version + 1
    /\ UNCHANGED <<sessions, created, history, recorded>>

(* _prune_feed_sessions, or a changed configuration.                       *)
Forget(s) ==
    /\ sessions[s] # None
    /\ sessions' = [sessions EXCEPT ![s] = None]
    /\ UNCHANGED <<created, version, history, recorded>>

(* Any requests, in any order.                                             *)
Progress == [position : 0..Cardinality(Article), revision : 0..MaxFeedback]
PageRequest ==
    {req \in [session : SessionId \cup {None}, cursor : Progress \cup {None}, limit : Limit] :
        req.session = None => req.cursor = None}
FeedbackRequest ==
    [session : SessionId, article : Article, action : {"click", "skip"},
     accepted : Progress \cup {None}]

FeedNext ==
    \/ \E req \in {r \in PageRequest : Accepts(r)} :
        PageFails(req) \/ \E st \in PageOutcomes(req) : FeedPage(req, st)
    \/ \E req \in {r \in FeedbackRequest : Matches(Found(r.session), r)} :
        \/ ProvenanceFails(req) \/ RerankFails(req)
        \/ \E st \in FeedbackOutcomes(req) : Feedback(req, st)
    \/ NewRules
    \/ \E s \in SessionId : Forget(s)

FeedSpec == FeedInit /\ [][FeedNext]_feedVars

-----------------------------------------------------------------------------
Live == {s \in SessionId : sessions[s] # None}
Arrived(st) == {st.items[i] : i \in 1..st.source}

(* Every article that arrived was served or waits in the queue, and never  *)
(* both; a waiting article is not open to feedback, and one that received  *)
(* it is neither offered nor open again, whatever was lost and recovered.  *)
RowsConserved ==
    \A s \in Live : LET st == sessions[s]
                        waiting == Articles(st.queue)
                        open == {card.article : card \in st.eligible}
                    IN  /\ st.position + Len(st.queue) = st.source
                        /\ Cardinality(waiting) = Len(st.queue)
                        /\ waiting \cup open \cup st.given = Arrived(st)
                        /\ waiting \cap (open \cup st.given) = {}
                        /\ open \cap st.given = {}

(* The retained pages lead without a gap to the session's position and     *)
(* hold the rows served there, under the current revision: any of them can *)
(* be put back.                                                            *)
DeliveriesReplayable ==
    \A s \in Live : LET st == sessions[s] ds == sessions[s].deliveries
                    IN  /\ ds # <<>> => Chain(ds, ds[1].start, st.position)
                        /\ \A i \in DOMAIN ds :
                            /\ ds[i].revision = st.revision
                            /\ Len(ds[i].rows) = ds[i].end - ds[i].start
                            /\ \A a \in Articles(ds[i].rows) :
                                [article |-> a, end |-> ds[i].end] \in st.eligible

(* A queue that a page may be taken from was ranked by the rules in force  *)
(* ("must never drain a queue that was proof-ranked by an older rule       *)
(* snapshot").                                                             *)
QueueRankedInForce ==
    \A s \in Live : sessions[s].version = version =>
        \A row \in ToSet(sessions[s].queue) : row.under = version
=============================================================================
