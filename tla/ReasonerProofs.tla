--------------------------- MODULE ReasonerProofs ---------------------------
(***************************************************************************)
(* The isolated reasoner for every set of callers and commands: its worker *)
(* holds the acknowledged mutations between calls, the journal stays       *)
(* within its limits, and callers see an AtomStore.                        *)
(***************************************************************************)
EXTENDS Reasoner, TLAPS

Clean == request = None /\ reply = None

Ready == attached => Clean /\ executed = Committed

(* What the caller that holds the lock may rely on, by where it stands.    *)
Sending(c) ==
    pc[c] = "send" =>
        /\ attached /\ Ready
        /\ command[c] \in Command
        /\ command[c] \in Mutation => Fits(command[c])

Awaiting(c) ==
    pc[c] = "await" =>
        /\ attached
        /\ command[c] \in Command
        /\ command[c] \in Mutation => Fits(command[c])
        /\ \/ request = command[c] /\ reply = None /\ executed = Committed
           \/ /\ request = None
              /\ reply # None /\ reply.ok => /\ executed = Run(Committed, command[c])
                                            /\ reply.state = executed

Replacing(c) ==
    /\ pc[c] = "recover" => ~attached /\ bootstrap # None
    /\ pc[c] = "launch" => command[c] \in Snapshot /\ Ready

RInv ==
    /\ TypeOK
    /\ JournalWithinLimits
    /\ \A c \in Caller : pc[c] # "idle" <=> lock = c
    /\ lock = None => Ready
    /\ attached => bootstrap # None
    /\ ~attached => Clean /\ ~alive
    /\ \A c \in Caller : Sending(c) /\ Awaiting(c) /\ Replacing(c)

-----------------------------------------------------------------------------
(* Executing a command keeps a worker's state a state.                     *)
LEMMA RunIsState == ASSUME NEW s \in State, NEW cmd \in Command PROVE Run(s, cmd) \in State
<1>1. CASE cmd \in Mutation
  <2>1. Run(s, cmd) = [base |-> s.base, log |-> Append(s.log, cmd)]
    BY <1>1 DEF Run, State
  <2> QED
    BY <1>1, <2>1 DEF State
<1>2. CASE cmd \notin Mutation
  BY <1>2 DEF Run
<1> QED
  BY <1>1, <1>2

(* Executing a query changes nothing; a mutation goes to the end.          *)
LEMMA RunCommitted ==
    ASSUME TypeOK, bootstrap # None, NEW cmd \in Command
    PROVE  /\ Committed \in State
           /\ cmd \in Mutation =>
                  Run(Committed, cmd) = [base |-> bootstrap, log |-> Append(journal, cmd)]
           /\ cmd \notin Mutation => Run(Committed, cmd) = Committed
BY DEF Run, Committed, State, TypeOK

LEMMA InitRInv == Init => RInv
<1> SUFFICES ASSUME Init PROVE RInv
  OBVIOUS
<1> USE DEF Init
<1>1. TypeOK
  <2>1. journal \in Seq(Mutation) /\ journalUnits \in Nat
    OBVIOUS
  <2>2. /\ pc \in [Caller -> {"idle"}]
        /\ command \in [Caller -> {None}] /\ answer \in [Caller -> {None}]
    OBVIOUS
  <2> QED
    BY <2>1, <2>2 DEF TypeOK
<1>2. JournalWithinLimits
  BY LimitAssumption DEF JournalWithinLimits
<1>3. Clean /\ Ready /\ \A c \in Caller : pc[c] = "idle" /\ lock # c
  BY ReasonerNoneAssumption DEF Clean, Ready
<1> QED
  BY <1>1, <1>2, <1>3 DEF RInv, Sending, Awaiting, Replacing

LEMMA StepRInv == RInv /\ [Next]_vars => RInv'
<1> SUFFICES ASSUME RInv, [Next]_vars PROVE RInv'
  OBVIOUS
<1> USE DEF vars, callerVars, workerVars, storeVars
<1>0. /\ TypeOK /\ JournalWithinLimits
      /\ \A c \in Caller : pc[c] # "idle" <=> lock = c
      /\ lock = None => Ready
      /\ attached => bootstrap # None
      /\ ~attached => Clean /\ ~alive
      /\ \A c \in Caller : Sending(c) /\ Awaiting(c) /\ Replacing(c)
      /\ None \notin Caller
  BY ReasonerNoneAssumption DEF RInv
<1>1. CASE UNCHANGED vars
  BY <1>0, <1>1 DEF RInv, TypeOK, JournalWithinLimits, Ready, Clean, Committed, Sending, Awaiting,
                    Replacing, Fits, Run
<1>2. ASSUME NEW c \in Caller, NEW cmd \in Command, Call(c, cmd) PROVE RInv'
  <2> USE <1>2 DEF Call, Enter
  <2>1. TypeOK'
    BY <1>0 DEF TypeOK
  <2>2. JournalWithinLimits'
    BY <1>0 DEF JournalWithinLimits
  <2>3. /\ \A b \in Caller : pc'[b] # "idle" <=> lock' = b
       /\ (lock' = None => Ready')
    BY <1>0 DEF TypeOK, Ready, Clean, Committed, Sending, Awaiting, Replacing
  <2>4. /\ (attached' => bootstrap' # None)
       /\ (~attached' => Clean' /\ ~alive')
    BY <1>0, ReasonerNoneAssumption DEF Clean, Sending, Awaiting, Replacing
  <2>5. \A b \in Caller : Sending(b)' /\ Awaiting(b)' /\ Replacing(b)'
    BY <1>0 DEF TypeOK, Sending, Awaiting, Replacing, Ready, Clean, Committed, Fits, Run
  <2> QED
    BY <2>1, <2>2, <2>3, <2>4, <2>5 DEF RInv
<1>3. ASSUME NEW c \in Caller, NEW s \in Snapshot, StartReplace(c, s) PROVE RInv'
  <2> USE <1>3 DEF StartReplace, Enter
  <2>1. TypeOK'
    BY <1>0 DEF TypeOK
  <2>2. JournalWithinLimits'
    BY <1>0 DEF JournalWithinLimits
  <2>3. /\ \A b \in Caller : pc'[b] # "idle" <=> lock' = b
       /\ (lock' = None => Ready')
    BY <1>0 DEF TypeOK, Ready, Clean, Committed, Sending, Awaiting, Replacing
  <2>4. /\ (attached' => bootstrap' # None)
       /\ (~attached' => Clean' /\ ~alive')
    BY <1>0, ReasonerNoneAssumption DEF Clean, Sending, Awaiting, Replacing
  <2>5. \A b \in Caller : Sending(b)' /\ Awaiting(b)' /\ Replacing(b)'
    BY <1>0 DEF TypeOK, Sending, Awaiting, Replacing, Ready, Clean, Committed, Fits, Run
  <2> QED
    BY <2>1, <2>2, <2>3, <2>4, <2>5 DEF RInv
<1>4. ASSUME NEW c \in Caller, Send(c) PROVE RInv'
  <2> USE <1>4 DEF Send
  <2>1. TypeOK'
    BY <1>0 DEF TypeOK, Sending
  <2>2. JournalWithinLimits'
    BY <1>0 DEF JournalWithinLimits
  <2>3. /\ \A b \in Caller : pc'[b] # "idle" <=> lock' = b
       /\ (lock' = None => Ready')
    BY <1>0 DEF TypeOK, Ready, Clean, Committed, Sending, Awaiting, Replacing
  <2>4. /\ (attached' => bootstrap' # None)
       /\ (~attached' => Clean' /\ ~alive')
    BY <1>0, ReasonerNoneAssumption DEF Clean, Sending, Awaiting, Replacing
  <2>5. \A b \in Caller : Sending(b)' /\ Awaiting(b)' /\ Replacing(b)'
    BY <1>0 DEF TypeOK, Sending, Awaiting, Replacing, Ready, Clean, Committed, Fits, Run
  <2> QED
    BY <2>1, <2>2, <2>3, <2>4, <2>5 DEF RInv
<1>5. ASSUME NEW c \in Caller, SendFails(c) \/ ReceiveError(c) \/ SeeExit(c) PROVE RInv'
  <2> USE <1>5 DEF SendFails, ReceiveError, SeeExit, Fail, Return, Detach
  <2>1. TypeOK'
    BY <1>0 DEF TypeOK
  <2>2. JournalWithinLimits'
    BY <1>0 DEF JournalWithinLimits
  <2>3. /\ \A b \in Caller : pc'[b] # "idle" <=> lock' = b
       /\ (lock' = None => Ready')
    BY <1>0 DEF TypeOK, Ready, Clean, Committed, Sending, Awaiting, Replacing
  <2>4. /\ (attached' => bootstrap' # None)
       /\ (~attached' => Clean' /\ ~alive')
    BY <1>0, ReasonerNoneAssumption DEF Clean, Sending, Awaiting, Replacing
  <2>5. \A b \in Caller : Sending(b)' /\ Awaiting(b)' /\ Replacing(b)'
    BY <1>0 DEF TypeOK, Sending, Awaiting, Replacing, Ready, Clean, Committed, Fits, Run
  <2> QED
    BY <2>1, <2>2, <2>3, <2>4, <2>5 DEF RInv
<1>6. ASSUME NEW c \in Caller, Receive(c) PROVE RInv'
  <2> USE <1>6 DEF Receive, Return
  <2>1. TypeOK'
    <3>1. reply \in Reply /\ command[c] \in Command
      BY <1>0 DEF TypeOK, Awaiting
    <3>2. answer' \in [Caller -> State \cup {None}]
      BY <1>0, <3>1 DEF TypeOK, Reply
    <3>3. journal' \in Seq(Mutation) /\ journalUnits' \in Nat
      <4>1. CASE command[c] \in Mutation
        <5>1. Units[command[c]] \in Nat /\ journal \in Seq(Mutation) /\ journalUnits \in Nat
          BY <1>0, <4>1, UnitsAssumption DEF TypeOK
        <5>2. journal' = Append(journal, command[c]) /\ journalUnits' = journalUnits + Units[command[c]]
          BY <4>1
        <5> QED
          BY <4>1, <5>1, <5>2
      <4>2. CASE command[c] \notin Mutation
        BY <1>0, <4>2 DEF TypeOK
      <4> QED
        BY <4>1, <4>2
    <3> QED
      BY <1>0, <3>2, <3>3 DEF TypeOK
  <2>2. JournalWithinLimits'
    BY <1>0, UnitsAssumption DEF TypeOK, JournalWithinLimits, Awaiting, Fits
  <2>3. /\ \A b \in Caller : pc'[b] # "idle" <=> lock' = b
       /\ (lock' = None => Ready')
    <3>1. executed = Run(Committed, command[c]) /\ bootstrap # None /\ request = None
      BY <1>0 DEF Awaiting
    <3>2. executed' = Committed'
      BY <1>0, <3>1, RunCommitted DEF Awaiting, Committed
    <3> QED
      BY <1>0, <3>1, <3>2 DEF TypeOK, Ready, Clean
  <2>4. /\ (attached' => bootstrap' # None)
       /\ (~attached' => Clean' /\ ~alive')
    BY <1>0, ReasonerNoneAssumption DEF Clean, Sending, Awaiting, Replacing
  <2>5. \A b \in Caller : Sending(b)' /\ Awaiting(b)' /\ Replacing(b)'
    BY <1>0 DEF TypeOK, Sending, Awaiting, Replacing, Ready, Clean, Committed, Fits, Run
  <2> QED
    BY <2>1, <2>2, <2>3, <2>4, <2>5 DEF RInv
<1>7. ASSUME NEW c \in Caller, Deadline(c) PROVE RInv'
  <2> USE <1>7 DEF Deadline, Detach
  <2>1. TypeOK'
    BY <1>0 DEF TypeOK
  <2>2. JournalWithinLimits'
    BY <1>0 DEF JournalWithinLimits
  <2>3. /\ \A b \in Caller : pc'[b] # "idle" <=> lock' = b
       /\ (lock' = None => Ready')
    BY <1>0 DEF TypeOK, Ready, Clean, Committed, Sending, Awaiting, Replacing
  <2>4. /\ (attached' => bootstrap' # None)
       /\ (~attached' => Clean' /\ ~alive')
    BY <1>0, ReasonerNoneAssumption DEF Clean, Sending, Awaiting, Replacing
  <2>5. \A b \in Caller : Sending(b)' /\ Awaiting(b)' /\ Replacing(b)'
    BY <1>0 DEF TypeOK, Sending, Awaiting, Replacing, Ready, Clean, Committed, Fits, Run
  <2> QED
    BY <2>1, <2>2, <2>3, <2>4, <2>5 DEF RInv
<1>8. ASSUME NEW c \in Caller, Recover(c) PROVE RInv'
  <2> USE <1>8 DEF Recover, Return, Attach
  <2>1. TypeOK'
    BY <1>0 DEF TypeOK, Replacing, Committed, State
  <2>2. JournalWithinLimits'
    BY <1>0 DEF JournalWithinLimits
  <2>3. /\ \A b \in Caller : pc'[b] # "idle" <=> lock' = b
       /\ (lock' = None => Ready')
    BY <1>0 DEF TypeOK, Ready, Clean, Committed, Sending, Awaiting, Replacing
  <2>4. /\ (attached' => bootstrap' # None)
       /\ (~attached' => Clean' /\ ~alive')
    BY <1>0, ReasonerNoneAssumption DEF Clean, Sending, Awaiting, Replacing
  <2>5. \A b \in Caller : Sending(b)' /\ Awaiting(b)' /\ Replacing(b)'
    BY <1>0 DEF TypeOK, Sending, Awaiting, Replacing, Ready, Clean, Committed, Fits, Run
  <2> QED
    BY <2>1, <2>2, <2>3, <2>4, <2>5 DEF RInv
<1>9. ASSUME NEW c \in Caller, RecoverFails(c) \/ ReplaceFails(c) PROVE RInv'
  <2> USE <1>9 DEF RecoverFails, ReplaceFails, Return
  <2>1. TypeOK'
    BY <1>0 DEF TypeOK
  <2>2. JournalWithinLimits'
    BY <1>0 DEF JournalWithinLimits
  <2>3. /\ \A b \in Caller : pc'[b] # "idle" <=> lock' = b
       /\ (lock' = None => Ready')
    BY <1>0 DEF TypeOK, Ready, Clean, Committed, Sending, Awaiting, Replacing
  <2>4. /\ (attached' => bootstrap' # None)
       /\ (~attached' => Clean' /\ ~alive')
    BY <1>0, ReasonerNoneAssumption DEF Clean, Sending, Awaiting, Replacing
  <2>5. \A b \in Caller : Sending(b)' /\ Awaiting(b)' /\ Replacing(b)'
    BY <1>0 DEF TypeOK, Sending, Awaiting, Replacing, Ready, Clean, Committed, Fits, Run
  <2> QED
    BY <2>1, <2>2, <2>3, <2>4, <2>5 DEF RInv
<1>10. ASSUME NEW c \in Caller, Replace(c) PROVE RInv'
  <2> USE <1>10 DEF Replace, Return, Attach
  <2>1. TypeOK'
    BY <1>0 DEF TypeOK, Replacing, State
  <2>2. JournalWithinLimits'
    BY LimitAssumption DEF JournalWithinLimits
  <2>3. /\ \A b \in Caller : pc'[b] # "idle" <=> lock' = b
       /\ (lock' = None => Ready')
    BY <1>0 DEF TypeOK, Ready, Clean, Committed, Sending, Awaiting, Replacing
  <2>4. /\ (attached' => bootstrap' # None)
       /\ (~attached' => Clean' /\ ~alive')
    BY <1>0, ReasonerNoneAssumption DEF Clean, Sending, Awaiting, Replacing
  <2>5. \A b \in Caller : Sending(b)' /\ Awaiting(b)' /\ Replacing(b)'
    BY <1>0 DEF TypeOK, Sending, Awaiting, Replacing, Ready, Clean, Committed, Fits, Run
  <2> QED
    BY <2>1, <2>2, <2>3, <2>4, <2>5 DEF RInv
<1>11. CASE Close
  <2> USE <1>11 DEF Close, Detach
  <2>1. TypeOK'
    BY <1>0 DEF TypeOK
  <2>2. JournalWithinLimits'
    BY <1>0 DEF JournalWithinLimits
  <2>3. /\ \A b \in Caller : pc'[b] # "idle" <=> lock' = b
       /\ (lock' = None => Ready')
    BY <1>0 DEF TypeOK, Ready, Clean, Committed, Sending, Awaiting, Replacing
  <2>4. /\ (attached' => bootstrap' # None)
       /\ (~attached' => Clean' /\ ~alive')
    BY <1>0, ReasonerNoneAssumption DEF Clean, Sending, Awaiting, Replacing
  <2>5. \A b \in Caller : Sending(b)' /\ Awaiting(b)' /\ Replacing(b)'
    BY <1>0 DEF TypeOK, Sending, Awaiting, Replacing, Ready, Clean, Committed, Fits, Run
  <2> QED
    BY <2>1, <2>2, <2>3, <2>4, <2>5 DEF RInv
<1>12. CASE Execute
  <2> USE <1>12 DEF Execute
  <2>1. TypeOK'
    <3>1. PICK c \in Caller : lock = c
      BY <1>0 DEF TypeOK, Ready, Clean
    <3>2. request = command[c] /\ command[c] \in Command /\ executed \in State
      BY <1>0, <3>1, RunCommitted DEF TypeOK, Awaiting, Sending, Replacing, Ready, Clean
    <3>3. executed' \in State
      BY <3>2, RunIsState
    <3> QED
      BY <1>0, <3>3 DEF TypeOK, Reply
  <2>2. JournalWithinLimits'
    BY <1>0 DEF JournalWithinLimits
  <2>3. /\ \A b \in Caller : pc'[b] # "idle" <=> lock' = b
       /\ (lock' = None => Ready')
    BY <1>0 DEF TypeOK, Ready, Clean, Committed, Sending, Awaiting, Replacing
  <2>4. /\ (attached' => bootstrap' # None)
       /\ (~attached' => Clean' /\ ~alive')
    BY <1>0, ReasonerNoneAssumption DEF Clean, Sending, Awaiting, Replacing
  <2>5. \A b \in Caller : Sending(b)' /\ Awaiting(b)' /\ Replacing(b)'
    BY <1>0 DEF TypeOK, Sending, Awaiting, Replacing, Ready, Clean, Committed, Fits, Run
  <2> QED
    BY <2>1, <2>2, <2>3, <2>4, <2>5 DEF RInv
<1>13. CASE ExecuteFails
  <2> USE <1>13 DEF ExecuteFails
  <2>1. TypeOK'
    <3>1. PICK c \in Caller : lock = c
      BY <1>0 DEF TypeOK, Ready, Clean
    <3>2. request = command[c] /\ command[c] \in Command /\ executed \in State
      BY <1>0, <3>1, RunCommitted DEF TypeOK, Awaiting, Sending, Replacing, Ready, Clean
    <3>3. executed' \in State
      BY <3>2, RunIsState
    <3> QED
      BY <1>0, <3>3 DEF TypeOK, Reply
  <2>2. JournalWithinLimits'
    BY <1>0 DEF JournalWithinLimits
  <2>3. /\ \A b \in Caller : pc'[b] # "idle" <=> lock' = b
       /\ (lock' = None => Ready')
    BY <1>0 DEF TypeOK, Ready, Clean, Committed, Sending, Awaiting, Replacing
  <2>4. /\ (attached' => bootstrap' # None)
       /\ (~attached' => Clean' /\ ~alive')
    BY <1>0, ReasonerNoneAssumption DEF Clean, Sending, Awaiting, Replacing
  <2>5. \A b \in Caller : Sending(b)' /\ Awaiting(b)' /\ Replacing(b)'
    BY <1>0 DEF TypeOK, Sending, Awaiting, Replacing, Ready, Clean, Committed, Fits, Run
  <2> QED
    BY <2>1, <2>2, <2>3, <2>4, <2>5 DEF RInv
<1>14. CASE Crash
  <2> USE <1>14 DEF Crash
  <2>1. TypeOK'
    BY <1>0 DEF TypeOK
  <2>2. JournalWithinLimits'
    BY <1>0 DEF JournalWithinLimits
  <2>3. /\ \A b \in Caller : pc'[b] # "idle" <=> lock' = b
       /\ (lock' = None => Ready')
    BY <1>0 DEF TypeOK, Ready, Clean, Committed, Sending, Awaiting, Replacing
  <2>4. /\ (attached' => bootstrap' # None)
       /\ (~attached' => Clean' /\ ~alive')
    BY <1>0, ReasonerNoneAssumption DEF Clean, Sending, Awaiting, Replacing
  <2>5. \A b \in Caller : Sending(b)' /\ Awaiting(b)' /\ Replacing(b)'
    BY <1>0 DEF TypeOK, Sending, Awaiting, Replacing, Ready, Clean, Committed, Fits, Run
  <2> QED
    BY <2>1, <2>2, <2>3, <2>4, <2>5 DEF RInv
<1> QED
  BY <1>1, <1>2, <1>3, <1>4, <1>5, <1>6, <1>7, <1>8, <1>9, <1>10, <1>11, <1>12, <1>13, <1>14
  DEF Next, CallerStep

-----------------------------------------------------------------------------
THEOREM ReasonerInvariance == Spec => []RInv
<1> QED
  BY InitRInv, StepRInv, PTL DEF Spec

(* The reasoner's variables hold values of their types.                    *)
THEOREM ReasonerTypeCorrect == Spec => []TypeOK
<1>1. RInv => TypeOK
  BY DEF RInv
<1> QED
  BY <1>1, ReasonerInvariance, PTL

(* Whatever timed out, failed or crashed before, a worker that is not in a *)
(* call has executed exactly the acknowledged mutations, and its pipe is   *)
(* empty.                                                                  *)
THEOREM WorkerIsExact == Spec => []WorkerHoldsJournal
<1>1. RInv => WorkerHoldsJournal
  BY DEF RInv, WorkerHoldsJournal, Ready, Clean
<1> QED
  BY <1>1, ReasonerInvariance, PTL

(* The journal never exceeds its limits.                                   *)
THEOREM JournalIsBounded == Spec => []JournalWithinLimits
<1>1. RInv => JournalWithinLimits
  BY DEF RInv
<1> QED
  BY <1>1, ReasonerInvariance, PTL

-----------------------------------------------------------------------------
(* Refinement: the store changes where an answer is received, a worker is  *)
(* given up or a worker takes over; every other step leaves it alone.      *)

LEMMA InitStore == Init => Store!Init
BY DEF Init, Store!Init

LEMMA StepStore == RInv /\ [Next]_vars => [Store!Next]_Store!vars
<1> SUFFICES ASSUME RInv, [Next]_vars PROVE [Store!Next]_Store!vars
  OBVIOUS
<1> USE DEF vars, callerVars, workerVars, storeVars, Store!vars
<1>1. CASE UNCHANGED vars
  BY <1>1
<1>2. ASSUME NEW c \in Caller, Receive(c) PROVE Store!Next
  <2>1. /\ attached /\ bootstrap # None /\ TypeOK /\ command[c] \in Command
        /\ reply.state = Run(Committed, command[c])
    BY <1>2 DEF RInv, Awaiting, Receive, Return
  <2>2. CASE command[c] \in Mutation
    <3>1. Store!Accept(command[c])
      BY <1>2, <2>1, <2>2 DEF Receive, Return, Store!Accept
    <3> QED
      BY <2>2, <3>1 DEF Store!Next
  <2>3. CASE command[c] \notin Mutation
    <3>1. reply.state = [base |-> bootstrap, log |-> journal]
      BY <2>1, <2>3, RunCommitted DEF Committed
    <3>2. Store!Answer(c)
      BY <1>2, <2>1, <2>3, <3>1 DEF Receive, Return, Store!Answer
    <3> QED
      BY <3>2 DEF Store!Next
  <2> QED
    BY <2>2, <2>3
<1>3. ASSUME NEW c \in Caller, Replace(c) PROVE Store!Next
  <2>1. command[c] \in Snapshot
    BY <1>3 DEF RInv, Replacing, Replace, Return
  <2>2. Store!Install(command[c])
    BY <1>3 DEF Replace, Return, Attach, Store!Install
  <2> QED
    BY <2>1, <2>2 DEF Store!Next
<1>4. ASSUME NEW c \in Caller, Recover(c) PROVE Store!Next
  <2>1. ~attached /\ bootstrap # None
    BY <1>4 DEF RInv, Replacing, Recover, Return
  <2> QED
    BY <1>4, <2>1 DEF Recover, Return, Attach, Store!ComeBack, Store!Next
<1>5. ASSUME NEW c \in Caller,
             SendFails(c) \/ ReceiveError(c) \/ SeeExit(c) \/ Deadline(c)
      PROVE  Store!Next
  <2>1. attached
    BY <1>5 DEF RInv, Sending, Awaiting, SendFails, ReceiveError, SeeExit, Fail, Return, Deadline
  <2> QED
    BY <1>5, <2>1 DEF SendFails, ReceiveError, SeeExit, Fail, Return, Deadline, Detach,
                      Store!GoAway, Store!Next
<1>6. CASE Close
  BY <1>6 DEF Close, Detach, Store!GoAway, Store!Next
<1>7. ASSUME NEW c \in Caller,
             \/ \E cmd \in Command : Call(c, cmd)
             \/ \E s \in Snapshot : StartReplace(c, s)
             \/ Send(c) \/ RecoverFails(c) \/ ReplaceFails(c)
      PROVE  UNCHANGED Store!vars
  BY <1>7 DEF Call, StartReplace, Enter, Send, RecoverFails, ReplaceFails, Return
<1>8. CASE Execute \/ ExecuteFails \/ Crash
  BY <1>8 DEF Execute, ExecuteFails, Crash
<1> QED
  BY <1>1, <1>2, <1>3, <1>4, <1>5, <1>6, <1>7, <1>8 DEF Next, CallerStep

(* Callers of the isolated reasoner cannot tell it from an AtomStore that  *)
(* may go away: no mutation is lost, repeated or half done.                *)
THEOREM ReasonerIsAtomStore == Spec => ImplementsAtomStore
<1> QED
  BY InitStore, StepStore, ReasonerInvariance, PTL DEF Spec, ImplementsAtomStore, Store!Spec

=============================================================================
