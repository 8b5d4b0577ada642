---------------------------- MODULE FeedBrowser ----------------------------
(***************************************************************************)
(* The live feed of web/templates/index.html over the sessions of          *)
(* FeedSession: one tab that scrolls, gives feedback and refreshes, and    *)
(* requests that may be answered, refused, lost, or aborted by the tab and *)
(* still reach the server later.                                           *)
(***************************************************************************)
EXTENDS FeedSession

CONSTANTS
    Failed,          \* an error answer, or none
    MaxDropped       \* bound on the aborted requests still on their way

ASSUME DroppedAssumption == MaxDropped \in Nat /\ Failed # None

VARIABLES
    feedSession, feedCursor, feedHasMore, feedRuleVersion,
    feedQueueRevision, feedAcceptedPosition,
    cards,           \* feedSeen and feedContext: the articles on the page
    scroll,          \* the page request of this generation, with its answer
    post,            \* the event request being waited for, with its answer
    dropped,         \* requests that the tab gave up and the server may see
    shown,           \* history: what the tab was ever given to show
    failures         \* history: events that failed, or whose answer was lost

tabVars == <<feedSession, feedCursor, feedHasMore, feedRuleVersion, feedQueueRevision,
             feedAcceptedPosition, cards>>
netVars == <<scroll, post, dropped>>
vars    == <<feedVars, tabVars, netVars, shown, failures>>

(* A shown card is an article and its session.  The answer to a page       *)
(* request (PageOf) or to an event is None until it comes, or Failed.      *)
TabCursor == [session : Nat, position : Nat, revision : Nat]
FeedCursor == [position : Nat, revision : Nat]
EventRequest ==
    [session : Nat, named : Nat \cup {None}, article : Article, action : {"click", "skip"},
     accepted : FeedCursor]
EventAnswer ==
    [session : Nat, cursor : TabCursor \cup {None}, position : Nat, revision : Nat]
Waiting == [answer : EventAnswer \cup {None, Failed}, req : EventRequest]

ASSUME NoneAssumption == None \notin Nat \cup TabCursor \cup FeedCursor \cup Waiting

Init ==
    /\ FeedInit
    /\ feedSession = None /\ feedCursor = None /\ feedHasMore = TRUE
    /\ feedRuleVersion = None /\ feedQueueRevision = 0 /\ feedAcceptedPosition = 0
    /\ cards = {} /\ shown = {}
    /\ scroll = None /\ post = None /\ dropped = {}
    /\ failures = 0

(* An unanswered request that nobody waits for: it is lost, or not yet.    *)
Drop(requests) ==
    /\ dropped' \in {dropped, dropped \cup requests}
    /\ Cardinality(dropped') <= MaxDropped

Unanswered(r) == IF r # None /\ r.answer = None THEN {r.req} ELSE {}

-----------------------------------------------------------------------------
(* The tab                                                                 *)

(* loadFeedPage, by the user's scrolling or the timer near the end.        *)
LoadFeedPage(limit) ==
    /\ scroll = None /\ post = None /\ feedHasMore
    /\ scroll' = [answer |-> None,
                  req |-> IF feedCursor = None
                          THEN [session |-> feedSession, cursor |-> None, limit |-> limit]
                          ELSE [session |-> feedCursor.session, limit |-> limit,
                                cursor |-> [position |-> feedCursor.position,
                                            revision |-> feedCursor.revision]]]
    /\ UNCHANGED <<feedVars, tabVars, post, dropped, shown, failures>>

(* acceptFeedPage.  A new ordering replaces the cards only if the tab held *)
(* a cursor.                                                               *)
AcceptFeedPage ==
    /\ scroll # None /\ scroll.answer \notin {None, Failed}
    /\ LET page == scroll.answer
           changed == page.reset \/ (feedRuleVersion # None /\ feedRuleVersion # page.version)
           kept == IF changed /\ feedCursor # None THEN {} ELSE cards
           seen == {card.article : card \in kept}
           new == {[article |-> a, session |-> page.session] : a \in page.articles}
       IN  /\ cards' = kept \cup {card \in new : card.article \notin seen}
           /\ shown' = shown \cup new
           /\ feedCursor' = page.cursor
           /\ feedSession' = page.session
           /\ feedHasMore' = (page.cursor # None /\ page.articles # {})
           /\ feedRuleVersion' = page.version
           /\ feedQueueRevision' = page.revision
           /\ feedAcceptedPosition' = page.position
    /\ scroll' = None
    /\ UNCHANGED <<feedVars, post, dropped, failures>>

(* An error answer, or none: the tab stops scrolling.                      *)
PageError ==
    /\ scroll # None /\ scroll.answer = Failed
    /\ scroll' = None
    /\ feedHasMore' = FALSE
    /\ UNCHANGED <<feedVars, feedSession, feedCursor, feedRuleVersion, feedQueueRevision,
                   feedAcceptedPosition, cards, post, dropped, shown, failures>>

PageLost ==
    /\ scroll # None /\ scroll.answer # Failed
    /\ Drop(Unanswered(scroll))
    /\ scroll' = [scroll EXCEPT !.answer = Failed]
    /\ UNCHANGED <<feedVars, tabVars, post, shown, failures>>

(* eventOf: abort the scrolling, forget the cursor, report what was        *)
(* accepted.                                                               *)
EventOf(card, action) ==
    /\ post = None
    /\ recorded + failures < MaxFeedback
    /\ Drop(Unanswered(scroll))
    /\ scroll' = None
    /\ feedCursor' = None
    /\ post' = [answer |-> None,
                req |-> [session |-> card.session, named |-> feedSession,
                         article |-> card.article, action |-> action,
                         accepted |-> [position |-> feedAcceptedPosition,
                                       revision |-> feedQueueRevision]]]
    /\ UNCHANGED <<feedVars, feedSession, feedHasMore, feedRuleVersion, feedQueueRevision,
                   feedAcceptedPosition, cards, shown, failures>>

(* Mutant: the position is left as a refresh set it.                       *)
EventDoneForgetsPosition ==
    /\ post # None /\ post.answer \notin {None, Failed}
    /\ post' = None
    /\ cards' = {}
    /\ feedHasMore' = TRUE
    /\ feedCursor' = post.answer.cursor
    /\ feedSession' = post.answer.session
    /\ feedQueueRevision' = post.answer.revision
    /\ UNCHANGED feedAcceptedPosition
    /\ UNCHANGED <<feedVars, feedRuleVersion, scroll, dropped, shown, failures>>

EventDone ==
    /\ post # None /\ post.answer \notin {None, Failed}
    /\ post' = None
    /\ cards' = {}
    /\ feedHasMore' = TRUE
    /\ feedCursor' = post.answer.cursor
    /\ feedSession' = post.answer.session
    /\ feedQueueRevision' = post.answer.revision
    /\ feedAcceptedPosition' = post.answer.position
    /\ UNCHANGED <<feedVars, feedRuleVersion, scroll, dropped, shown, failures>>

(* Mutant: feedbackPending stays set after an error.                       *)
EventErrorStays ==
    /\ post # None /\ post.answer = Failed
    /\ failures = 0 /\ failures' = 1
    /\ UNCHANGED <<feedVars, tabVars, netVars, shown>>

EventError ==
    /\ post # None /\ post.answer = Failed
    /\ post' = None
    /\ failures' = failures + 1
    /\ UNCHANGED <<feedVars, tabVars, scroll, dropped, shown>>

EventLost ==
    /\ post # None /\ post.answer # Failed
    /\ Drop(Unanswered(post))
    /\ post' = [post EXCEPT !.answer = Failed]
    /\ UNCHANGED <<feedVars, tabVars, scroll, shown, failures>>

(* resetFeed: a user, a button, or the poll that saw a new rule version.   *)
Refresh ==
    /\ created < MaxSessions /\ feedSession # None
    /\ Drop(Unanswered(scroll))
    /\ scroll' = None
    /\ feedSession' = None /\ feedCursor' = None /\ feedHasMore' = TRUE
    /\ feedRuleVersion' = None /\ feedQueueRevision' = 0 /\ feedAcceptedPosition' = 0
    /\ cards' = {}
    /\ UNCHANGED <<feedVars, post, shown, failures>>

-----------------------------------------------------------------------------
(* The server's answers                                                    *)

HasMore(st) == st.queue # <<>> \/ st.source < Len(st.items)

NextCursor(id, st) ==
    IF HasMore(st) THEN [session |-> id, position |-> st.position, revision |-> st.revision]
    ELSE None

PageOf(req, st) ==
    [session |-> OpenedId(req), cursor |-> NextCursor(OpenedId(req), st),
     articles |-> IF st.position = Opened(req).position THEN {}
                  ELSE Articles(Last(st.deliveries).rows),
     position |-> st.position, revision |-> st.revision, version |-> version,
     reset |-> MustReset(req)]

AnswerPage ==
    /\ scroll # None /\ scroll.answer = None
    /\ \/ \E st \in PageOutcomes(scroll.req) :
            /\ FeedPage(scroll.req, st)
            /\ scroll' = [scroll EXCEPT !.answer = PageOf(scroll.req, st)]
       \/ /\ PageFails(scroll.req)
          /\ scroll' = [scroll EXCEPT !.answer = Failed]
       \/ /\ ~Opens(scroll.req) /\ ~Accepts(scroll.req)
          /\ scroll' = [scroll EXCEPT !.answer = Failed]
          /\ UNCHANGED feedVars
    /\ UNCHANGED <<tabVars, post, dropped, shown, failures>>

EventRefused(req) == req.session # req.named \/ ~Matches(Found(req.session), req)

AnswerEvent ==
    /\ post # None /\ post.answer = None
    /\ LET req == post.req
       IN  \/ \E st \in FeedbackOutcomes(req) :
                /\ ~EventRefused(req)
                /\ Feedback(req, st)
                /\ post' = [post EXCEPT !.answer =
                                [session |-> req.session, cursor |-> NextCursor(req.session, st),
                                 position |-> req.accepted.position, revision |-> st.revision]]
           \/ /\ ~EventRefused(req)
              /\ RerankFails(req) \/ ProvenanceFails(req)
              /\ post' = [post EXCEPT !.answer = Failed]
           \/ /\ EventRefused(req)
              /\ post' = [post EXCEPT !.answer = Failed]
              /\ UNCHANGED feedVars
    /\ UNCHANGED <<tabVars, scroll, dropped, shown, failures>>

(* A request that the tab gave up reaches the server.                      *)
DroppedArrives ==
    \E req \in dropped :
        /\ dropped' = dropped \ {req}
        /\ \/ /\ "limit" \in DOMAIN req
              /\ PageFails(req) \/ \E st \in PageOutcomes(req) : FeedPage(req, st)
           \/ /\ "named" \in DOMAIN req
              /\ ~EventRefused(req)
              /\ \/ RerankFails(req) \/ ProvenanceFails(req)
                 \/ \E st \in FeedbackOutcomes(req) : Feedback(req, st)
        /\ UNCHANGED <<tabVars, scroll, post, shown, failures>>

Environment ==
    /\ NewRules \/ \E s \in SessionId : Forget(s)
    /\ UNCHANGED <<tabVars, netVars, shown, failures>>

-----------------------------------------------------------------------------
Next ==
    \/ \E limit \in Limit : LoadFeedPage(limit)
    \/ AcceptFeedPage \/ PageError \/ PageLost
    \/ \E card \in cards, action \in {"click", "skip"} : EventOf(card, action)
    \/ EventDone \/ EventError \/ EventLost \/ Refresh
    \/ AnswerPage \/ AnswerEvent \/ DroppedArrives \/ Environment

Spec == Init /\ [][Next]_vars

(* The reader keeps scrolling, the tab goes on when it has an answer, and  *)
(* every request it waits for is answered or lost (the gateway's timeout). *)
FairSpec ==
    /\ Spec
    /\ WF_vars(\E limit \in Limit : LoadFeedPage(limit))
    /\ WF_vars(AcceptFeedPage) /\ WF_vars(PageError)
    /\ WF_vars(EventDone) /\ WF_vars(EventError)
    /\ WF_vars(AnswerPage \/ PageLost) /\ WF_vars(AnswerEvent \/ EventLost)

-----------------------------------------------------------------------------
(* Every row the tab counts as accepted was given to it to show: a row the *)
(* server handed out in a response that was aborted stays recoverable      *)
(* ("its rows are recoverable from the bounded delivery tail").            *)
AcceptedRowsShown ==
    feedSession \in Live =>
        \A card \in sessions[feedSession].eligible :
            card.end <= feedAcceptedPosition =>
                [article |-> card.article, session |-> feedSession] \in shown

(* The same while every event got its answer.                              *)
AcceptedRowsShownUnlessFailed == failures = 0 => AcceptedRowsShown

(* While every event got its answer, feedback on a card of the current     *)
(* session and revision is never refused for the pages that were aborted   *)
(* or lost since.                                                          *)
FeedbackFits ==
    /\ failures = 0
    /\ feedSession \in Live
    /\ feedQueueRevision = sessions[feedSession].revision
    => LET st == sessions[feedSession]
           accepted == [position |-> feedAcceptedPosition, revision |-> feedQueueRevision]
       IN  /\ Recoverable(st, accepted)
           /\ \A card \in st.eligible :
               [article |-> card.article, session |-> feedSession] \in cards =>
                   card.end <= feedAcceptedPosition

(* Liveness: a reader who keeps scrolling reaches the end of the feed or   *)
(* an error message; no lost answer leaves the tab waiting.                *)
ReaderReachesEnd == feedHasMore ~> ~feedHasMore
=============================================================================
