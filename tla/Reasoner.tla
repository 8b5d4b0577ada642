------------------------------ MODULE Reasoner ------------------------------
(***************************************************************************)
(* IsolatedPeTTaChainer of app/reasoner.py: a PeTTaChainer in a process of *)
(* its own, called over a pipe under a deadline.  A call holds _lock from  *)
(* beginning to end; the worker process runs, answers, fails, hangs or     *)
(* dies beside it.  A call that missed its deadline kills the worker and   *)
(* starts another one from the snapshot and the acknowledged mutations.    *)
(*                                                                         *)
(* What a worker knows is abstracted to what it was told: the snapshot it  *)
(* was started with and the mutations it executed.  A refused call         *)
(* changes nothing and has no action; neither have the audit fields.       *)
(***************************************************************************)
EXTENDS Naturals, Sequences

CONSTANTS
    Caller,          \* threads that share the object
    Mutation,        \* the add and remove commands callers may send
    Units,           \* the statements each of them counts for
    Query,           \* the query_many command
    Snapshot,        \* the statement lists given to replace()
    None,
    MaxMutations,    \* _max_journal_mutations
    MaxStatements    \* _max_journal_statements

ASSUME UnitsAssumption == Units \in [Mutation -> Nat]
ASSUME CommandAssumption ==
    Query \notin Mutation /\ Mutation \cap Snapshot = {} /\ Query \notin Snapshot
ASSUME ReasonerNoneAssumption == None \notin Caller \cup Mutation \cup Snapshot \cup {Query}
ASSUME LimitAssumption == MaxMutations \in Nat \ {0} /\ MaxStatements \in Nat \ {0}

VARIABLES
    lock,            \* the caller that holds _lock
    pc,              \* where each caller's call stands
    command,         \* the command or the snapshot of each caller's last call
    answer,          \* what its last query was answered from
    attached,        \* _connection and _process are set
    alive,           \* that process runs
    executed,        \* what that process was started with and executed since
    request,         \* the command in the pipe to the worker
    reply,           \* the answer in the pipe from it
    bootstrap,       \* _bootstrap_statements; None: no snapshot yet
    journal,         \* _mutation_journal
    journalUnits     \* _journal_statements

callerVars == <<lock, pc, command, answer>>
workerVars == <<attached, alive, executed, request, reply>>
storeVars  == <<bootstrap, journal, journalUnits>>
vars       == <<callerVars, workerVars, storeVars>>

Command == Mutation \cup {Query}
State   == [base : Snapshot, log : Seq(Mutation)]
Reply   == [ok : BOOLEAN, state : State]

TypeOK ==
    /\ lock \in Caller \cup {None}
    /\ pc \in [Caller -> {"idle", "send", "await", "recover", "launch"}]
    /\ command \in [Caller -> Command \cup Snapshot \cup {None}]
    /\ answer \in [Caller -> State \cup {None}]
    /\ attached \in BOOLEAN /\ alive \in BOOLEAN
    /\ executed \in State \cup {None}
    /\ request \in Command \cup {None}
    /\ reply \in Reply \cup {None}
    /\ bootstrap \in Snapshot \cup {None}
    /\ journal \in Seq(Mutation)
    /\ journalUnits \in Nat

Init ==
    /\ lock = None
    /\ pc = [c \in Caller |-> "idle"]
    /\ command = [c \in Caller |-> None]
    /\ answer = [c \in Caller |-> None]
    /\ attached = FALSE /\ alive = FALSE
    /\ executed = None /\ request = None /\ reply = None
    /\ bootstrap = None /\ journal = <<>> /\ journalUnits = 0

Committed == [base |-> bootstrap, log |-> journal]

Run(state, cmd) ==
    IF cmd \in Mutation THEN [state EXCEPT !.log = Append(@, cmd)] ELSE state

Enter(c, cmd, to) ==
    /\ lock = None /\ lock' = c
    /\ pc' = [pc EXCEPT ![c] = to]
    /\ command' = [command EXCEPT ![c] = cmd]
    /\ UNCHANGED <<answer, workerVars, storeVars>>

Return(c, from) ==
    /\ pc[c] = from
    /\ pc' = [pc EXCEPT ![c] = "idle"]
    /\ lock' = None
    /\ UNCHANGED command

(* _connection, _process = None, and the process stopped or killed.        *)
Detach ==
    /\ attached' = FALSE /\ alive' = FALSE
    /\ request' = None /\ reply' = None
    /\ UNCHANGED executed

Attach(state) ==
    /\ attached' = TRUE /\ alive' = TRUE
    /\ request' = None /\ reply' = None
    /\ executed' = state

-----------------------------------------------------------------------------
(* _rpc                                                                    *)

Fits(m) == Len(journal) + 1 <= MaxMutations /\ journalUnits + Units[m] <= MaxStatements

Call(c, cmd) ==
    /\ attached
    /\ cmd \in Mutation => Fits(cmd)
    /\ Enter(c, cmd, "send")

Send(c) ==
    /\ pc[c] = "send"
    /\ pc' = [pc EXCEPT ![c] = "await"]
    /\ request' = command[c]
    /\ UNCHANGED <<lock, command, answer, attached, alive, executed, reply, storeVars>>

(* The acknowledged mutation joins the journal before the call returns.    *)
Receive(c) ==
    /\ reply # None /\ reply.ok
    /\ Return(c, "await")
    /\ reply' = None
    /\ IF command[c] \in Mutation
       THEN /\ journal' = Append(journal, command[c])
            /\ journalUnits' = journalUnits + Units[command[c]]
            /\ UNCHANGED answer
       ELSE /\ answer' = [answer EXCEPT ![c] = reply.state]
            /\ UNCHANGED <<journal, journalUnits>>
    /\ UNCHANGED <<attached, alive, executed, request, bootstrap>>

(* A broken pipe, an error answer or an exited process: the worker is      *)
(* retired and none takes its place.                                       *)
Fail(c, from) ==
    /\ Return(c, from)
    /\ Detach
    /\ UNCHANGED <<answer, storeVars>>

SendFails(c)    == ~alive /\ Fail(c, "send")
ReceiveError(c) == reply # None /\ ~reply.ok /\ Fail(c, "await")
SeeExit(c)      == ~alive /\ reply = None /\ Fail(c, "await")

(* Mutants: the deadline of a query is not enforced, and a worker that     *)
(* missed a deadline is kept.                                              *)
DeadlineOfMutations(c) ==
    /\ pc[c] = "await" /\ command[c] # Query
    /\ pc' = [pc EXCEPT ![c] = "recover"]
    /\ Detach
    /\ UNCHANGED <<lock, command, answer, storeVars>>

DeadlineKeepsWorker(c) ==
    /\ Return(c, "await")
    /\ UNCHANGED <<answer, workerVars, storeVars>>

(* The deadline passes, whatever the worker has done or is about to do.    *)
Deadline(c) ==
    /\ pc[c] = "await"
    /\ pc' = [pc EXCEPT ![c] = "recover"]
    /\ Detach
    /\ UNCHANGED <<lock, command, answer, storeVars>>

(* Mutant: the command that timed out is replayed with the journal.        *)
RecoverRetries(c) ==
    /\ Return(c, "recover")
    /\ Attach(Run(Committed, command[c]))
    /\ UNCHANGED <<answer, storeVars>>

(* _recover_locked: the bootstrap of a new worker replays the journal.  It *)
(* may fail (an error, an exit, the startup deadline).                     *)
Recover(c) ==
    /\ Return(c, "recover")
    /\ Attach(Committed)
    /\ UNCHANGED <<answer, storeVars>>

RecoverFails(c) ==
    /\ Return(c, "recover")
    /\ UNCHANGED <<answer, workerVars, storeVars>>

-----------------------------------------------------------------------------
(* replace() and close()                                                   *)

StartReplace(c, s) == Enter(c, s, "launch")

(* The new worker compiled the snapshot: it takes over, the old one stops. *)
Replace(c) ==
    /\ Return(c, "launch")
    /\ Attach([base |-> command[c], log |-> <<>>])
    /\ bootstrap' = command[c] /\ journal' = <<>> /\ journalUnits' = 0
    /\ UNCHANGED answer

ReplaceFails(c) ==
    /\ Return(c, "launch")
    /\ UNCHANGED <<answer, workerVars, storeVars>>

Close ==
    /\ lock = None /\ attached
    /\ Detach
    /\ UNCHANGED <<callerVars, storeVars>>

-----------------------------------------------------------------------------
(* _scoring_worker.  An add that raises may have added part of its atoms,  *)
(* here all or none of them.                                               *)

Execute ==
    /\ alive /\ request # None
    /\ request' = None
    /\ executed' = Run(executed, request)
    /\ reply' = [ok |-> TRUE, state |-> executed']
    /\ UNCHANGED <<callerVars, attached, alive, storeVars>>

ExecuteFails ==
    /\ alive /\ request # None
    /\ request' = None
    /\ executed' \in {executed, Run(executed, request)}
    /\ reply' = [ok |-> FALSE, state |-> executed']
    /\ UNCHANGED <<callerVars, attached, alive, storeVars>>

Crash ==
    /\ alive /\ alive' = FALSE
    /\ UNCHANGED <<callerVars, attached, executed, request, reply, storeVars>>

-----------------------------------------------------------------------------
CallerStep(c) ==
    \/ Send(c) \/ SendFails(c)
    \/ Receive(c) \/ ReceiveError(c) \/ SeeExit(c) \/ Deadline(c)
    \/ Recover(c) \/ RecoverFails(c)
    \/ Replace(c) \/ ReplaceFails(c)

Next ==
    \/ \E c \in Caller :
        \/ \E cmd \in Command : Call(c, cmd)
        \/ \E s \in Snapshot : StartReplace(c, s)
        \/ CallerStep(c)
    \/ Close
    \/ Execute \/ ExecuteFails \/ Crash

Spec == Init /\ [][Next]_vars

(* The calling thread runs and its deadlines pass; a launch is bounded by  *)
(* the startup deadline.  The worker may hang for ever.                    *)
FairSpec == Spec /\ \A c \in Caller : WF_vars(CallerStep(c))

-----------------------------------------------------------------------------
(* Between calls the worker has executed exactly the acknowledged          *)
(* mutations, and nothing of an earlier call is left in the pipe for the   *)
(* next one to read ("restore the last fully acknowledged snapshot").      *)
WorkerHoldsJournal ==
    lock = None /\ attached => /\ executed = Committed
                               /\ request = None /\ reply = None

(* The journal that a recovery replays stays within its limits.            *)
JournalWithinLimits == Len(journal) <= MaxMutations /\ journalUnits <= MaxStatements

(* The callers see one atomic store ("at-most-once RPC semantics").        *)
Store == INSTANCE AtomStore WITH base <- bootstrap, log <- journal, up <- attached, seen <- answer
ImplementsAtomStore == Store!Spec

(* Liveness: whatever the worker does, every call returns.                 *)
CallsReturn == \A c \in Caller : pc[c] # "idle" ~> pc[c] = "idle"
=============================================================================
