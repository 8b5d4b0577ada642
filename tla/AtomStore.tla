------------------------------ MODULE AtomStore ------------------------------
(***************************************************************************)
(* What a scorer's proof worker promises its callers: it behaves as one    *)
(* store that holds a rule snapshot and the acknowledged mutations since,  *)
(* in order.  A mutation takes effect once or not at all; a query is       *)
(* answered from exactly what was acknowledged; the store may go away, and *)
(* if it comes back it has lost and gained nothing.                        *)
(***************************************************************************)
EXTENDS Sequences

CONSTANTS
    Caller,          \* threads that use the store
    Mutation,        \* add and remove commands
    Snapshot,        \* rule snapshots
    None

VARIABLES
    base,            \* the rule snapshot, or None
    log,             \* mutations acknowledged since it was installed
    up,              \* the store accepts commands
    seen             \* what the last answer to each caller was computed from

vars == <<base, log, up, seen>>

Init == base = None /\ log = <<>> /\ up = FALSE /\ seen = [c \in Caller |-> None]

Install(s) == base' = s /\ log' = <<>> /\ up' = TRUE /\ UNCHANGED seen

Accept(m) == up /\ log' = Append(log, m) /\ UNCHANGED <<base, up, seen>>

Answer(c) ==
    /\ up
    /\ seen' = [seen EXCEPT ![c] = [base |-> base, log |-> log]]
    /\ UNCHANGED <<base, log, up>>

GoAway == up /\ up' = FALSE /\ UNCHANGED <<base, log, seen>>

ComeBack == ~up /\ base # None /\ up' = TRUE /\ UNCHANGED <<base, log, seen>>

Next ==
    \/ \E s \in Snapshot : Install(s)
    \/ \E m \in Mutation : Accept(m)
    \/ \E c \in Caller : Answer(c)
    \/ GoAway \/ ComeBack

Spec == Init /\ [][Next]_vars
=============================================================================
