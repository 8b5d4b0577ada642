---------------------------- MODULE SemanticPreview ----------------------------
(***************************************************************************)
(* /api/semantic/preview: the handler of app/server.py, preview_semantics  *)
(* of app/lab_serving.py and the client of integrations/engine.py.  An     *)
(* article is copied under the lock of the Lab, which is released before   *)
(* the slow call of the parser; a lock of its own lets one call per Lab    *)
(* through, and a bounded cache keeps the answers for a time.  Meanwhile   *)
(* the dataset may be swapped.  An article is its title and abstract:      *)
(* with the settings of the process they are the key of the cache, and an  *)
(* answer from it gets the ID that was asked for.                          *)
(***************************************************************************)
EXTENDS Naturals, FiniteSets, SequencesExt

CONSTANTS
    Reader,      \* handler threads
    Content,     \* articles, NoText among them
    NoText,
    Sizes,       \* how large a parsed answer may be
    MaxEntries, MaxBytes, TTL,  \* of the cache
    MaxLabs, MaxClock, MaxAsks  \* bounds: swaps, time and requests

ASSUME PreviewAssumption ==
    /\ NoText \in Content
    /\ {MaxEntries, MaxBytes, TTL, MaxLabs, MaxClock, MaxAsks} \subseteq Nat \ {0}
    /\ Sizes \subseteq Nat \ {0}

VARIABLES
    activeLab,  \* LAB, one more for every dataset that was loaded
    clock,      \* time.monotonic()
    previews,   \* _semantic_preview_cache of each Lab, the least recently used first
    bytesKept,  \* _semantic_preview_cache_bytes of each Lab
    readers,    \* what each thread is doing, and its last answer
    asks

previewVars == <<activeLab, clock, previews, bytesKept, readers, asks>>

Labs == 1..MaxLabs
NoAnswer == [text |-> NoText, age |-> 0]
Resting == [at |-> "idle", ok |-> FALSE, lab |-> 1, article |-> NoText,
                    since |-> 0, answer |-> NoAnswer, during |-> 1]

PreviewInit ==
    /\ activeLab = 1 /\ clock = 0 /\ asks = 0
    /\ previews = [l \in Labs |-> <<>>]
    /\ bytesKept = [l \in Labs |-> 0]
    /\ readers = [r \in Reader |-> Resting]

Sum(entries) == SumFunction([i \in DOMAIN entries |-> entries[i].bytes])
\* The threads that hold _semantic_lock of a Lab.
Parsing(l) == {r \in Reader : readers[r].at = "parse" /\ readers[r].lab = l}
\* The request ends with an error: 400, 409, 502, 503 or 504.
Refused(r) == readers' = [readers EXCEPT ![r] = Resting]

-----------------------------------------------------------------------------
\* pinned_lab: the article is copied from the active Lab.
AskPreview(r, a) ==
    /\ readers[r].at = "idle"
    /\ asks < MaxAsks /\ asks' = asks + 1
    /\ readers' = [readers EXCEPT ![r] = [Resting EXCEPT !.at = "copied", !.lab = activeLab,
                                                              !.article = a]]
    /\ UNCHANGED <<activeLab, clock, previews, bytesKept>>

\* Another call is under way for longer than this caller waits.
TooBusy(r) ==
    /\ readers[r].at = "copied"
    /\ Parsing(readers[r].lab) # {}
    /\ Refused(r)
    /\ UNCHANGED <<activeLab, clock, previews, bytesKept, asks>>

\* The loop stops at the first entry that is fresh; since a hit moves its entry
\* to the end as it is, expired ones may lie behind.
WithoutExpired(entries) ==
    LET fresh == {i \in DOMAIN entries : entries[i].expires > clock} IN
    IF fresh = {} THEN <<>> ELSE SubSeq(entries, Min(fresh), Len(entries))

\* Where a text is cached and may be served.
FreshAt(entries, text) ==
    {i \in DOMAIN entries : entries[i].text = text /\ entries[i].expires > clock}

\* A text is kept once: its entry, if there is one, is taken out.
OtherTexts(entries, text) ==
    LET places == {i \in DOMAIN entries : entries[i].text = text} IN
    IF places = {} THEN entries ELSE RemoveAt(entries, Min(places))

\* The lock is free: an answer from the cache ends the call.
ServeCached(r) ==
    LET l == readers[r].lab
        left == WithoutExpired(previews[l])
    IN
    /\ readers[r].at = "copied" /\ Parsing(l) = {}
    /\ \E i \in FreshAt(left, readers[r].article) :
         /\ previews' = [previews EXCEPT ![l] = Append(OtherTexts(left, readers[r].article), left[i])]
         /\ readers' = [readers EXCEPT ![r].at = "answered",
                          ![r].answer = [text |-> left[i].text, age |-> clock - left[i].parsedAt]]
    /\ bytesKept' = [bytesKept EXCEPT ![l] = @ - Sum(previews[l]) + Sum(left)]
    /\ UNCHANGED <<activeLab, clock, asks>>

\* Or the parser is called, with the lock held and the time already taken.
CallParser(r) ==
    LET l == readers[r].lab
        left == WithoutExpired(previews[l])
        kept == OtherTexts(left, readers[r].article)
    IN
    /\ readers[r].at = "copied" /\ Parsing(l) = {}
    /\ FreshAt(left, readers[r].article) = {}
    /\ previews' = [previews EXCEPT ![l] = kept]
    /\ bytesKept' = [bytesKept EXCEPT ![l] = @ - Sum(previews[l]) + Sum(kept)]
    /\ readers' = [readers EXCEPT ![r].at = "parse", ![r].since = clock]
    /\ UNCHANGED <<activeLab, clock, asks>>

\* Nothing to parse, no key, or a service that is late, unavailable, refuses, or
\* answers something that is not a preview of this knowledge base.
ParserFails(r) ==
    /\ readers[r].at = "parse"
    /\ Refused(r)
    /\ UNCHANGED <<activeLab, clock, previews, bytesKept, asks>>

\* The least recently used entries go until both limits hold.
Evicted(entries) ==
    LET fits == {n \in 0..Len(entries) :
                   LET rest == SubSeq(entries, n + 1, Len(entries)) IN
                   Len(rest) <= MaxEntries /\ Sum(rest) <= MaxBytes}
    IN SubSeq(entries, Min(fits) + 1, Len(entries))

\* Mutant of Cached: the lifetime starts when the answer is in.
CachedFromNow(r, size) ==
    [text |-> readers[r].article, bytes |-> size, parsedAt |-> readers[r].since, expires |-> clock + TTL]

Cached(r, size) ==
    [text |-> readers[r].article, bytes |-> size, parsedAt |-> readers[r].since, expires |-> readers[r].since + TTL]

\* An answer larger than the cache is given and not kept.
ParserAnswers(r) ==
    LET l == readers[r].lab IN
    /\ readers[r].at = "parse" /\ readers[r].article # NoText
    /\ \E size \in Sizes :
         LET kept == IF size <= MaxBytes THEN Evicted(Append(previews[l], Cached(r, size)))
                                         ELSE previews[l] IN
         /\ previews' = [previews EXCEPT ![l] = kept]
         /\ bytesKept' = [bytesKept EXCEPT ![l] = @ - Sum(previews[l]) + Sum(kept)]
    /\ readers' = [readers EXCEPT ![r].at = "answered",
                     ![r].answer = [text |-> readers[r].article, age |-> 0]]
    /\ UNCHANGED <<activeLab, clock, asks>>

\* The request ends with the answer.
Given(r) == [Resting EXCEPT !.ok = TRUE, !.lab = readers[r].lab, !.during = activeLab]

\* Mutant of Respond: the dataset is not looked at again.
RespondAnyway(r) ==
    /\ readers[r].at = "answered"
    /\ readers' = [readers EXCEPT ![r] = Given(r)]
    /\ UNCHANGED <<activeLab, clock, previews, bytesKept, asks>>

\* Under LAB_SWAP_LOCK: an answer of a Lab that was replaced is refused.
Respond(r) ==
    /\ readers[r].at = "answered"
    /\ IF readers[r].lab = activeLab
       THEN readers' = [readers EXCEPT ![r] = Given(r)]
       ELSE Refused(r)
    /\ UNCHANGED <<activeLab, clock, previews, bytesKept, asks>>

\* /api/dataset/load: a new Lab, with a cache and a lock of its own.
SwapLab ==
    /\ activeLab < MaxLabs /\ activeLab' = activeLab + 1
    /\ UNCHANGED <<clock, previews, bytesKept, readers, asks>>

ClockTicks ==
    /\ clock < MaxClock /\ clock' = clock + 1
    /\ UNCHANGED <<activeLab, previews, bytesKept, readers, asks>>

PreviewNext ==
    \/ SwapLab \/ ClockTicks
    \/ \E r \in Reader :
         \/ \E a \in Content : AskPreview(r, a)
         \/ TooBusy(r) \/ ServeCached(r) \/ CallParser(r) \/ ParserFails(r) \/ ParserAnswers(r)
         \/ Respond(r)

PreviewSpec == PreviewInit /\ [][PreviewNext]_previewVars

-----------------------------------------------------------------------------
(* lab_serving.py:121 "one bounded, versioned preview slot": whatever was   *)
(* expired, moved, refused or evicted, the counted bytes are those kept,    *)
(* both limits hold, and no text is kept twice.                             *)
PreviewsBounded ==
    \A l \in Labs :
      /\ bytesKept[l] = Sum(previews[l])
      /\ bytesKept[l] <= MaxBytes /\ Len(previews[l]) <= MaxEntries
      /\ \A i, j \in DOMAIN previews[l] : previews[l][i].text = previews[l][j].text => i = j

(* One call of the parser at a time for a Lab (lab_serving.py:139-142).     *)
SingleFlightPerLab == \A l \in Labs : Cardinality(Parsing(l)) <= 1

(* An answer is for the text of the article that was asked for and was      *)
(* parsed less than its lifetime before it was served; it is let through     *)
(* only while the dataset it was made for is the active one.                *)
PreviewsCurrent ==
    \A r \in Reader :
      /\ readers[r].at = "answered" =>
           /\ readers[r].answer.text = readers[r].article /\ readers[r].article # NoText
           /\ readers[r].answer.age < TTL
      /\ readers[r].ok => readers[r].lab = readers[r].during

(* lab_serving.py:120-181 and app/server.py:1579-1592: the previews that    *)
(* are kept stay within their bounds, one call at a time makes them, and    *)
(* none is given too late or for a dataset that is gone.                    *)
PreviewsSound == PreviewsBounded /\ SingleFlightPerLab /\ PreviewsCurrent
=============================================================================
