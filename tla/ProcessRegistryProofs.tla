------------------------ MODULE ProcessRegistryProofs ------------------------
(* The registry's guarantees for any number of threads, names and handles. *)
EXTENDS ProcessRegistry, TLAPS

(* Who holds the lock is inside a call, past the wait for the lock, and    *)
(* nobody else is.                                                         *)
LockOwner ==
    \A t \in Thread : lock = t <=> (InCall(t) /\ call[t].at # "wait")

(* Only cleanup() waits for a process, always for one it has signalled; an *)
(* add is about a handle that was started; a walk visits registered names. *)
CallShape ==
    \A t \in Thread :
        /\ ~InCall(t) => call[t].at = "wait"
        /\ call[t].at \in {"term", "kill"} =>
              /\ call[t].op = "cleanup"
              /\ call[t].arg \in Proc
              /\ proc[call[t].arg] \notin {"none", "running"}
        /\ call[t].op = "add" => call[t].arg \in Proc /\ proc[call[t].arg] # "none"
        /\ call[t].op \in {"check", "cleanup"} => call[t].todo \subseteq Registered

(* What is registered was started.                                         *)
RegisteredStarted == \A n \in Registered : proc[reg[n]] # "none"

RInv == RTypeOK /\ LockOwner /\ CallShape /\ RegisteredStarted /\ CleanupProgress

(* Every step keeps the types.                                             *)
LEMMA RTypeStep ==
    ASSUME RTypeOK, CallShape, [RNext]_rvars
    PROVE  RTypeOK'
<1> USE NamesAssumption
<1> SUFFICES ASSUME RNext PROVE RTypeOK'
    BY DEF RTypeOK, rvars
<1>1. ASSUME NEW p \in Proc, Spawn(p) \/ Exit(p) \/ SignalUnregistered(p)
      PROVE  RTypeOK'
  <2>1. CASE Spawn(p)
    BY <2>1 DEF RTypeOK, Spawn, PState, Alive
  <2>2. CASE Exit(p)
    BY <2>2 DEF RTypeOK, Exit, PState, Exited, NonZero
  <2>3. CASE SignalUnregistered(p)
    BY <2>3 DEF RTypeOK, SignalUnregistered, Terminated, Killed, PState, Alive
  <2>. QED
    BY <1>1, <2>1, <2>2, <2>3
<1>2. ASSUME NEW t \in Thread PROVE CallTo("check", NoProc) \in Call /\ CallTo("cleanup", NoProc) \in Call
                                    /\ CallTo("details", NoProc) \in Call /\ NoCall \in Call
  BY DEF CallTo, Call, NoCall, Op
<1>3. ASSUME NEW t \in Thread, NEW p \in Proc, CallAdd(t, p) PROVE RTypeOK'
  BY <1>3 DEF CallAdd, Begin, CallTo, Call, Op, RTypeOK
<1>4. ASSUME NEW t \in Thread, CallCheck(t) \/ CallCleanup(t) \/ CallDetails(t) \/ CleanupInstead(t)
      PROVE RTypeOK'
  BY <1>2, <1>4 DEF CallCheck, CallCleanup, CallDetails, CleanupInstead, Begin, RTypeOK
<1>5. ASSUME NEW t \in Thread, Acquire(t) PROVE RTypeOK'
  <2>1. WalkOver(call[t].op) \subseteq Name
    BY DEF WalkOver, Registered, RTypeOK
  <2>. QED
    BY <1>5, <2>1 DEF Acquire, Moves, RTypeOK, Call, Op
<1>6. ASSUME NEW t \in Thread, Walk(t) PROVE RTypeOK'
  <2>1. CASE AddProcess(t)
    BY <2>1, <1>2 DEF AddProcess, Holding, Release, RTypeOK, CallShape
  <2>2. CASE Poll(t)
    BY <2>2 DEF Poll, Moves, Holding, RTypeOK, Call
  <2>3. CASE CheckReturn(t)
    BY <2>3, <1>2 DEF CheckReturn, Release, RTypeOK
  <2>4. CASE SkipExited(t)
    BY <2>4 DEF SkipExited, Moves, RTypeOK, Call
  <2>5. CASE Terminate(t)
    <3>1. PICK n \in call[t].todo :
              /\ proc' = Terminated(reg[n])
              /\ Moves(t, "term", call[t].todo \ {n}, reg[n])
      BY <2>5 DEF Terminate
    <3>2. n \in Name /\ reg[n] \in Proc \cup {NoProc}
      BY <3>1 DEF RTypeOK, Call
    <3>3. call' \in [Thread -> Call]
      BY <3>1, <3>2 DEF Moves, RTypeOK, Call
    <3>4. proc' \in [Proc -> PState]
      BY <3>1, <3>2 DEF RTypeOK, Terminated, PState, Alive
    <3>. QED
      BY <2>5, <3>3, <3>4 DEF Terminate, RTypeOK
  <2>6. CASE WaitReturns(t) \/ KillTimeout(t)
    BY <2>6 DEF WaitReturns, KillTimeout, Moves, RTypeOK, Call
  <2>7. CASE TermTimeout(t)
    <3>1. call' \in [Thread -> Call]
      BY <2>7 DEF TermTimeout, Moves, RTypeOK, Call
    <3>2. proc' \in [Proc -> PState]
      BY <2>7 DEF TermTimeout, Killed, RTypeOK, PState, Alive
    <3>. QED
      BY <2>7, <3>1, <3>2 DEF TermTimeout, RTypeOK
  <2>8. CASE CleanupReturn(t) \/ DetailsReturn(t)
    BY <2>8, <1>2 DEF CleanupReturn, DetailsReturn, Release, RTypeOK
  <2>. QED
    BY <1>6, <2>1, <2>2, <2>3, <2>4, <2>5, <2>6, <2>7, <2>8 DEF Walk
<1>. QED
  BY <1>1, <1>3, <1>4, <1>5, <1>6 DEF RNext

(* A handle that was started stays started, and one that is not running    *)
(* undisturbed never becomes so again.                                     *)
LEMMA NoResurrection ==
    ASSUME RTypeOK, CallShape, [RNext]_rvars, NEW p \in Proc, proc[p] # "none"
    PROVE  proc'[p] # "none" /\ (proc[p] # "running" => proc'[p] # "running")
<1> USE NamesAssumption
<1>1. CASE proc' = proc
  BY <1>1
<1>2. ASSUME NEW q \in Proc, Spawn(q) \/ Exit(q) \/ SignalUnregistered(q)
      PROVE  proc'[p] # "none" /\ (proc[p] # "running" => proc'[p] # "running")
  BY <1>2 DEF Spawn, Exit, SignalUnregistered, Terminated, Killed, Exited, NonZero, RTypeOK, Alive
<1>3. ASSUME NEW t \in Thread, Terminate(t)
      PROVE  proc'[p] # "none" /\ (proc[p] # "running" => proc'[p] # "running")
  BY <1>3 DEF Terminate, Terminated, RTypeOK
<1>4. ASSUME NEW t \in Thread, TermTimeout(t)
      PROVE  proc'[p] # "none" /\ (proc[p] # "running" => proc'[p] # "running")
  BY <1>4 DEF TermTimeout, Killed, RTypeOK, Alive
<1>. QED
  BY <1>1, <1>2, <1>3, <1>4
  DEF RNext, rvars, CallAdd, CallCheck, CallCleanup, CallDetails, CleanupInstead, Acquire, Walk,
      AddProcess, Poll, CheckReturn, SkipExited, WaitReturns, KillTimeout, CleanupReturn, DetailsReturn

(* An exit code is final.                                                  *)
LEMMA ExitIsFinal ==
    ASSUME RTypeOK, CallShape, [RNext]_rvars, NEW p \in Proc, proc[p] \in Exited
    PROVE  proc'[p] = proc[p]
<1> USE DEF RTypeOK, Alive, NonZero, Exited
<1>1. ASSUME NEW q \in Proc, Spawn(q) \/ Exit(q) \/ SignalUnregistered(q) PROVE proc'[p] = proc[p]
  BY <1>1 DEF Spawn, Exit, Ends, SignalUnregistered, Terminated, Killed
<1>2. ASSUME NEW t \in Thread, Terminate(t) \/ TermTimeout(t) PROVE proc'[p] = proc[p]
  BY <1>2 DEF Terminate, TermTimeout, Terminated, Killed
<1>. QED
  BY <1>1, <1>2
  DEF RNext, rvars, CallAdd, CallCheck, CallCleanup, CallDetails, CleanupInstead, Acquire, Walk,
      AddProcess, Poll, CheckReturn, SkipExited, WaitReturns, KillTimeout, CleanupReturn, DetailsReturn

(* Only the holder of the lock changes the table, by an add.               *)
LEMMA TableStep ==
    ASSUME RTypeOK, LockOwner, CallShape, [RNext]_rvars
    PROVE  \/ reg' = reg
           \/ \E t \in Thread : AddProcess(t)
BY DEF RNext, rvars, Spawn, Exit, SignalUnregistered, CallAdd, CallCheck, CallCleanup, CallDetails,
       CleanupInstead, Acquire, Walk, Poll, CheckReturn, SkipExited, Terminate, WaitReturns,
       TermTimeout, KillTimeout, CleanupReturn, DetailsReturn

(* Every step keeps what is registered started and registered.             *)
LEMMA RegisteredStep ==
    ASSUME RTypeOK, LockOwner, CallShape, RegisteredStarted, [RNext]_rvars
    PROVE  RegisteredStarted' /\ Registered \subseteq Registered'
<1> USE NamesAssumption
<1>1. CASE reg' = reg
  BY <1>1, NoResurrection DEF RegisteredStarted, Registered, RTypeOK
<1>2. ASSUME NEW t \in Thread, AddProcess(t)
      PROVE  RegisteredStarted' /\ Registered \subseteq Registered'
  BY <1>2 DEF AddProcess, Holding, CallShape, RegisteredStarted, Registered, RTypeOK
<1>. QED
  BY <1>1, <1>2, TableStep

(* The lock and the calls agree after every step.                          *)
LEMMA LockStep ==
    ASSUME RTypeOK, LockOwner, CallShape, [RNext]_rvars
    PROVE  LockOwner'
<1> USE NamesAssumption DEF LockOwner, InCall
<1>1. CASE lock' = lock /\ call' = call
  BY <1>1
<1>2. ASSUME NEW t \in Thread, NEW op \in Op \ {"none"}, NEW arg, Begin(t, op, arg), lock' = lock
      PROVE  LockOwner'
  BY <1>2 DEF Begin, CallTo, RTypeOK
<1>3. ASSUME NEW t \in Thread, CleanupInstead(t) PROVE LockOwner'
  BY <1>3 DEF CleanupInstead, CallTo, RTypeOK
<1>4. ASSUME NEW t \in Thread, Acquire(t) PROVE LockOwner'
  BY <1>4 DEF Acquire, Moves, RTypeOK
<1>5. ASSUME NEW t \in Thread, NEW op \in Op \ {"none"}, Holding(t, op), Release(t) PROVE LockOwner'
  BY <1>5 DEF Holding, Release, NoCall, RTypeOK
<1>6. ASSUME NEW t \in Thread, NEW at \in {"hold", "term", "kill"}, NEW todo, NEW arg,
             InCall(t), call[t].at # "wait", Moves(t, at, todo, arg), lock' = lock
      PROVE  LockOwner'
  BY <1>6 DEF Moves, RTypeOK
<1>7. ASSUME NEW t \in Thread, CallCheck(t) \/ CallCleanup(t) \/ CallDetails(t) PROVE LockOwner'
  BY <1>7, <1>2 DEF CallCheck, CallCleanup, CallDetails, Op
<1>8. ASSUME NEW t \in Thread, NEW p \in Proc, CallAdd(t, p) PROVE LockOwner'
  BY <1>8, <1>2 DEF CallAdd, Op
<1>9. ASSUME NEW t \in Thread, Walk(t) PROVE LockOwner'
  <2>1. CASE AddProcess(t) \/ CheckReturn(t) \/ CleanupReturn(t) \/ DetailsReturn(t)
    BY <2>1, <1>5 DEF AddProcess, CheckReturn, CleanupReturn, DetailsReturn, Op
  <2>2. CASE Poll(t) \/ SkipExited(t) \/ Terminate(t)
    BY <2>2, <1>6 DEF Poll, SkipExited, Terminate, Holding
  <2>3. CASE WaitReturns(t) \/ TermTimeout(t) \/ KillTimeout(t)
    BY <2>3, <1>6 DEF WaitReturns, TermTimeout, KillTimeout, CallShape
  <2>. QED
    BY <1>9, <2>1, <2>2, <2>3 DEF Walk
<1>10. ASSUME NEW p \in Proc, Spawn(p) \/ Exit(p) \/ SignalUnregistered(p) PROVE LockOwner'
  BY <1>10, <1>1 DEF Spawn, Exit, SignalUnregistered
<1>. QED
  BY <1>1, <1>3, <1>4, <1>7, <1>8, <1>9, <1>10 DEF RNext, rvars

(* The shape of the calls is kept: first for the calls a step leaves alone,*)
(* then for the one it changes.                                            *)
LEMMA ShapeStep ==
    ASSUME RTypeOK, LockOwner, CallShape, RegisteredStarted, [RNext]_rvars
    PROVE  CallShape'
<1> USE NamesAssumption
<1> DEFINE Shape(c) ==
        /\ c.op = "none" => c.at = "wait"
        /\ c.at \in {"term", "kill"} =>
              c.op = "cleanup" /\ c.arg \in Proc /\ proc'[c.arg] \notin {"none", "running"}
        /\ c.op = "add" => c.arg \in Proc /\ proc'[c.arg] # "none"
        /\ c.op \in {"check", "cleanup"} => c.todo \subseteq Registered'
<1>1. Registered \subseteq Registered'
  BY RegisteredStep
<1>2. \A p \in Proc : proc[p] # "none" =>
          proc'[p] # "none" /\ (proc[p] # "running" => proc'[p] # "running")
  BY NoResurrection
<1>3. \A t \in Thread : Shape(call[t])
  BY <1>1, <1>2 DEF CallShape, InCall
<1> HIDE DEF Shape
<1>4. SUFFICES \A t \in Thread : Shape(call'[t])
  BY <1>4 DEF CallShape, InCall, Shape
<1>5. CASE call' = call
  BY <1>3, <1>5
<1>6. ASSUME NEW u \in Thread, NEW c, call' = [call EXCEPT ![u] = c], Shape(c)
      PROVE  \A t \in Thread : Shape(call'[t])
  BY <1>3, <1>6 DEF RTypeOK
<1>7. Shape(NoCall) /\ Shape(CallTo("details", NoProc))
  BY DEF Shape, NoCall, CallTo
<1>8. Shape(CallTo("check", NoProc)) /\ Shape(CallTo("cleanup", NoProc))
  BY DEF Shape, CallTo
<1>9. ASSUME NEW u \in Thread, CallCheck(u) \/ CallCleanup(u) \/ CallDetails(u) \/ CleanupInstead(u)
      PROVE  \A t \in Thread : Shape(call'[t])
  BY <1>6, <1>7, <1>8, <1>9 DEF CallCheck, CallCleanup, CallDetails, CleanupInstead, Begin
<1>10. ASSUME NEW u \in Thread, NEW p \in Proc, CallAdd(u, p)
       PROVE  \A t \in Thread : Shape(call'[t])
  <2>1. Shape(CallTo("add", p))
    BY <1>2, <1>10 DEF CallAdd, CallTo, Shape
  <2>. QED
    BY <2>1, <1>6, <1>10 DEF CallAdd, Begin
<1>11. ASSUME NEW u \in Thread, Acquire(u) PROVE \A t \in Thread : Shape(call'[t])
  <2> DEFINE c == [op |-> call[u].op, at |-> "hold", todo |-> WalkOver(call[u].op), arg |-> call[u].arg]
  <2>1. Shape(call[u])
    BY <1>3
  <2>2. Shape(c)
    BY <2>1, <1>1, <1>11 DEF Shape, WalkOver, Acquire, InCall
  <2>. QED
    BY <2>2, <1>6, <1>11 DEF Acquire, Moves
<1>12. ASSUME NEW u \in Thread, Release(u) PROVE \A t \in Thread : Shape(call'[t])
  BY <1>6, <1>7, <1>12 DEF Release
<1>13. ASSUME NEW u \in Thread, NEW todo \in SUBSET call[u].todo, NEW arg,
              call[u].op \in {"check", "cleanup"}, Moves(u, "hold", todo, arg)
       PROVE  \A t \in Thread : Shape(call'[t])
  <2>1. Shape([op |-> call[u].op, at |-> "hold", todo |-> todo, arg |-> arg])
    BY <1>3, <1>13 DEF Shape
  <2>. QED
    BY <2>1, <1>6, <1>13 DEF Moves
<1>14. ASSUME NEW u \in Thread, Terminate(u) PROVE \A t \in Thread : Shape(call'[t])
  <2>1. PICK n \in call[u].todo :
            /\ proc[reg[n]] \in Alive
            /\ proc' = Terminated(reg[n])
            /\ Moves(u, "term", call[u].todo \ {n}, reg[n])
    BY <1>14 DEF Terminate
  <2> DEFINE c == [op |-> call[u].op, at |-> "term", todo |-> call[u].todo \ {n}, arg |-> reg[n]]
  <2>2. call[u].op = "cleanup" /\ n \in Registered /\ reg[n] \in Proc
    BY <1>14 DEF Terminate, Holding, CallShape, Registered, RTypeOK
  <2>3. proc'[reg[n]] \notin {"none", "running"}
    BY <2>1, <2>2 DEF Terminated, Alive, RTypeOK
  <2>4. Shape(c)
    BY <2>2, <2>3, <1>3 DEF Shape
  <2>. QED
    BY <2>1, <2>4, <1>6 DEF Moves
<1>15. ASSUME NEW u \in Thread, TermTimeout(u) PROVE \A t \in Thread : Shape(call'[t])
  <2>1. Shape([op |-> call[u].op, at |-> "kill", todo |-> call[u].todo, arg |-> call[u].arg])
    BY <1>3, <1>15 DEF Shape, TermTimeout
  <2>. QED
    BY <2>1, <1>6, <1>15 DEF TermTimeout, Moves
<1>16. ASSUME NEW u \in Thread, Walk(u) PROVE \A t \in Thread : Shape(call'[t])
  <2>1. CASE Poll(u) \/ SkipExited(u)
    <3>1. PICK n \in call[u].todo : Moves(u, "hold", call[u].todo \ {n}, NoProc)
      BY <2>1 DEF Poll, SkipExited
    <3>2. call[u].op \in {"check", "cleanup"} /\ call[u].todo \ {n} \in SUBSET call[u].todo
      BY <2>1 DEF Poll, SkipExited, Holding
    <3>. QED
      BY <3>1, <3>2, <1>13
  <2>2. CASE WaitReturns(u) \/ KillTimeout(u)
    BY <2>2, <1>13 DEF WaitReturns, KillTimeout, CallShape
  <2>. QED
    BY <1>16, <2>1, <2>2, <1>12, <1>14, <1>15
    DEF Walk, AddProcess, CheckReturn, CleanupReturn, DetailsReturn
<1>. QED
  BY <1>5, <1>9, <1>10, <1>11, <1>16 DEF RNext, rvars, Spawn, Exit, SignalUnregistered

(* cleanup() never loses ground: the names it has passed stay signalled.   *)
LEMMA CleanupStep ==
    ASSUME RInv, [RNext]_rvars
    PROVE  CleanupProgress'
<1> USE NamesAssumption
<1> USE DEF RInv
<1> SUFFICES ASSUME NEW t \in Thread, call'[t].op = "cleanup", call'[t].at # "wait",
                    NEW n \in Registered' \ call'[t].todo
             PROVE  proc'[reg'[n]] # "running"
  BY DEF CleanupProgress
<1>1. \A p \in Proc : proc[p] # "none" /\ proc[p] # "running" => proc'[p] # "running"
  BY NoResurrection
<1>2. ASSUME call'[t] = call[t], reg' = reg PROVE proc'[reg'[n]] # "running"
  BY <1>1, <1>2 DEF CleanupProgress, RegisteredStarted, Registered, RTypeOK
<1>3. ASSUME NEW u \in Thread, AddProcess(u) PROVE proc'[reg'[n]] # "running"
  <2>1. call'[u] = NoCall /\ lock = u
    BY <1>3 DEF AddProcess, Holding, Release, LockOwner, InCall, RTypeOK
  <2>2. u # t
    BY <2>1 DEF NoCall
  <2>3. call'[t] = call[t]
    BY <2>2, <1>3 DEF AddProcess, Release, RTypeOK
  <2>4. lock = t
    BY <2>3 DEF LockOwner, InCall
  <2>. QED
    BY <2>1, <2>2, <2>4
<1>4. ASSUME NEW u \in Thread, Acquire(u) PROVE proc'[reg'[n]] # "running"
  <2>1. CASE u = t
    BY <2>1, <1>4 DEF Acquire, Moves, WalkOver, Registered, RTypeOK
  <2>2. CASE u # t
    BY <2>2, <1>4, <1>2 DEF Acquire, Moves, RTypeOK
  <2>. QED
    BY <2>1, <2>2
<1>5. ASSUME NEW u \in Thread, Poll(u) PROVE proc'[reg'[n]] # "running"
  <2>1. u # t
    BY <1>5 DEF Poll, Moves, Holding, RTypeOK
  <2>. QED
    BY <2>1, <1>5, <1>2 DEF Poll, Moves, RTypeOK
<1>6. ASSUME NEW u \in Thread, CheckReturn(u) \/ CleanupReturn(u) \/ DetailsReturn(u)
      PROVE  proc'[reg'[n]] # "running"
  <2>1. u # t
    BY <1>6 DEF CheckReturn, CleanupReturn, DetailsReturn, Release, NoCall, RTypeOK
  <2>. QED
    BY <2>1, <1>6, <1>2 DEF CheckReturn, CleanupReturn, DetailsReturn, Release, RTypeOK
<1>7. ASSUME NEW u \in Thread, SkipExited(u) PROVE proc'[reg'[n]] # "running"
  BY <1>7 DEF SkipExited, Moves, Holding, CleanupProgress, Registered, RTypeOK, Alive
<1>8. ASSUME NEW u \in Thread, Terminate(u) PROVE proc'[reg'[n]] # "running"
  BY <1>8, <1>1 DEF Terminate, Terminated, Moves, Holding, CleanupProgress, Registered, RTypeOK, Alive
<1>9. ASSUME NEW u \in Thread, WaitReturns(u) \/ TermTimeout(u) \/ KillTimeout(u)
      PROVE  proc'[reg'[n]] # "running"
  <2>1. reg' = reg /\ call'[t].todo = call[t].todo /\ call'[t].op = call[t].op
    BY <1>9 DEF WaitReturns, TermTimeout, KillTimeout, Moves, RTypeOK
  <2>2. call[t].at # "wait"
    BY <1>9 DEF WaitReturns, TermTimeout, KillTimeout, Moves, RTypeOK
  <2>3. reg[n] \in Proc /\ proc[reg[n]] # "running" /\ proc[reg[n]] # "none"
    BY <2>1, <2>2 DEF CleanupProgress, RegisteredStarted, Registered, RTypeOK
  <2>. QED
    BY <2>1, <2>3, <1>1
<1>10. ASSUME NEW u \in Thread, NEW op, NEW arg,
              call' = [call EXCEPT ![u] = CallTo(op, arg)], reg' = reg
       PROVE  proc'[reg'[n]] # "running"
  <2>1. u # t
    BY <1>10 DEF CallTo, RTypeOK
  <2>. QED
    BY <2>1, <1>10, <1>2 DEF RTypeOK
<1>11. ASSUME NEW u \in Thread,
              (\E p \in Proc : CallAdd(u, p)) \/ CallCheck(u) \/ CallCleanup(u) \/ CallDetails(u)
              \/ CleanupInstead(u)
       PROVE  proc'[reg'[n]] # "running"
  BY <1>10, <1>11 DEF CallAdd, CallCheck, CallCleanup, CallDetails, CleanupInstead, Begin
<1>12. CASE call' = call /\ reg' = reg
  BY <1>2, <1>12
<1>. QED
  BY <1>3, <1>4, <1>5, <1>6, <1>7, <1>8, <1>9, <1>11, <1>12
  DEF RNext, rvars, Walk, Spawn, Exit, SignalUnregistered

(* The strengthened invariant holds of an empty registry.                  *)
LEMMA RInvInit == RInit => RInv
BY NamesAssumption
DEF RInit, RInv, RTypeOK, LockOwner, CallShape, RegisteredStarted, CleanupProgress, Registered,
    NoCall, Call, Op, PState, InCall

(* Every step keeps the strengthened invariant.                            *)
LEMMA RInvStep == RInv /\ [RNext]_rvars => RInv'
BY RTypeStep, LockStep, ShapeStep, RegisteredStep, CleanupStep DEF RInv

(* The inductive invariant of the registry, whatever its clients call.     *)
THEOREM RegistryInvariant == RSpec => []RInv
<1>. QED
  BY RInvInit, RInvStep, PTL DEF RSpec

(* Type correctness of the registry.                                       *)
THEOREM RegistryTypeOK == RSpec => []RTypeOK
BY RegistryInvariant, PTL DEF RInv

(* A cleanup in progress has signalled everything it has passed.           *)
THEOREM RegistryCleanupProgress == RSpec => []CleanupProgress
BY RegistryInvariant, PTL DEF RInv

(* cleanup() returns only with everything registered signalled or exited.  *)
THEOREM RegistryCleanupStopsAll == RSpec => CleanupStopsAll
<1> DEFINE A == \A t \in Thread :
                  lock = t /\ lock' = "free" /\ call[t].op = "cleanup" =>
                     \A n \in Name : reg'[n] # NoProc => proc'[reg'[n]] # "running"
<1>1. RInv /\ [RNext]_rvars => [A]_rvars
  <2> SUFFICES ASSUME RInv, RNext, NEW t \in Thread, lock = t, lock' = "free", call[t].op = "cleanup",
                      NEW n \in Name, reg'[n] # NoProc
               PROVE  proc'[reg'[n]] # "running"
    OBVIOUS
  <2> USE NamesAssumption DEF RInv
  <2>1. CleanupReturn(t)
    BY DEF RNext, Walk, Spawn, Exit, SignalUnregistered, CallAdd, CallCheck, CallCleanup, CallDetails,
           CleanupInstead, Acquire, AddProcess, Poll, CheckReturn, SkipExited, Terminate, WaitReturns,
           TermTimeout, KillTimeout, CleanupReturn, DetailsReturn, LockOwner, InCall, Holding
  <2>. QED
    BY <2>1 DEF CleanupReturn, Holding, CleanupProgress, Registered
<1>. QED
  BY <1>1, RegistryInvariant, PTL DEF RSpec, CleanupStopsAll

(* A call that returned True has seen a failure in the list.               *)
FoundIsListed == \A t \in Thread : found[t] => failed # {}

(* A failure that check_failures() has returned is returned ever after.    *)
THEOREM RegistryFailureIsSticky == RSpec => FailureIsSticky
<1>1. RInit => FoundIsListed
  BY DEF RInit, FoundIsListed
<1>2. ASSUME RTypeOK, FoundIsListed, [RNext]_rvars
      PROVE  FoundIsListed' /\ [\A t \in Thread : found[t] => found'[t]]_rvars
  <2>1. failed \subseteq failed'
    BY <1>2
    DEF RNext, rvars, Spawn, Exit, SignalUnregistered, CallAdd, CallCheck, CallCleanup, CallDetails,
        CleanupInstead, Acquire, Walk, AddProcess, Poll, CheckReturn, SkipExited, Terminate, WaitReturns,
        TermTimeout, KillTimeout, CleanupReturn, DetailsReturn
  <2>2. ASSUME NEW t \in Thread, CheckReturn(t)
        PROVE  FoundIsListed' /\ \A u \in Thread : found[u] => found'[u]
    BY <1>2, <2>2 DEF CheckReturn, FoundIsListed, RTypeOK
  <2>3. CASE found' = found
    BY <1>2, <2>1, <2>3 DEF FoundIsListed
  <2>. QED
    BY <1>2, <2>2, <2>3
    DEF RNext, rvars, Spawn, Exit, SignalUnregistered, CallAdd, CallCheck, CallCleanup, CallDetails,
        CleanupInstead, Acquire, Walk, AddProcess, Poll, SkipExited, Terminate, WaitReturns,
        TermTimeout, KillTimeout, CleanupReturn, DetailsReturn
<1>. QED
  BY <1>1, <1>2, RegistryTypeOK, PTL DEF RSpec, FailureIsSticky

=============================================================================
