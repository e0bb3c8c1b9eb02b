--------------------------- MODULE ProcessRegistry ---------------------------
(***************************************************************************)
(* The registry of spawned srun processes (core/processes.py): a table     *)
(* from process names to Popen handles, a list of the names found to have  *)
(* failed, and one non-reentrant lock that every operation takes.          *)
(*                                                                         *)
(* An operation is a call that a thread makes: it waits for the lock,      *)
(* walks over the names with the lock held, and returns.  Processes exit   *)
(* between any two steps of a walk.                                        *)
(***************************************************************************)
EXTENDS Naturals

CONSTANTS
    Thread,     \* the threads of the orchestrator that call the registry
    Proc,       \* the Popen handles the run may create
    NoProc,     \* "no process": the value of a name that is not registered
    Name,       \* process names
    NameOf,     \* the name a handle is registered under
    Critical    \* the handles registered with critical=True

ASSUME NamesAssumption ==
    /\ NoProc \notin Proc
    /\ NameOf \in [Proc -> Name]
    /\ Critical \subseteq Proc
    /\ "free" \notin Thread

VARIABLES
    proc,       \* what has become of each handle
    reg,        \* _processes: the handle registered under each name
    failed,     \* _failed_processes
    lock,       \* _lock: the thread that holds it, or "free"
    call,       \* the registry call each thread is in
    found       \* what each thread's last check_failures() returned

rvars == <<proc, reg, failed, lock, call, found>>

-----------------------------------------------------------------------------
(* A handle is running until it exits by itself ("ok": code 0, "failed": a *)
(* non-zero code) or is told to stop: "stopping" has been sent SIGTERM,    *)
(* "killing" SIGKILL, and "stopped" exited with a non-zero code after that.*)
Alive == {"running", "stopping", "killing"}
NonZero == {"failed", "stopped"}
Exited == {"ok"} \cup NonZero
PState == {"none"} \cup Alive \cup Exited

Op == {"none", "add", "check", "cleanup", "details"}

(* `at` is the point the call has reached: waiting for the lock, walking   *)
(* over the names with the lock held, or, in ManagedProcess.terminate, in  *)
(* wait() after terminate() or after kill().  `todo` is what the walk has  *)
(* still to visit and `arg` the handle the step is about.                  *)
Call == [op : Op, at : {"wait", "hold", "term", "kill"},
         todo : SUBSET Name, arg : Proc \cup {NoProc}]

NoCall == [op |-> "none", at |-> "wait", todo |-> {}, arg |-> NoProc]
CallTo(op, arg) == [op |-> op, at |-> "wait", todo |-> {}, arg |-> arg]

InCall(t) == call[t].op # "none"
Holding(t, op) == call[t].op = op /\ call[t].at = "hold"
Registered == {n \in Name : reg[n] # NoProc}

RTypeOK ==
    /\ proc \in [Proc -> PState]
    /\ reg \in [Name -> Proc \cup {NoProc}]
    /\ failed \subseteq Name
    /\ lock \in Thread \cup {"free"}
    /\ call \in [Thread -> Call]
    /\ found \in [Thread -> BOOLEAN]

RInit ==
    /\ proc = [p \in Proc |-> "none"]
    /\ reg = [n \in Name |-> NoProc]
    /\ failed = {}
    /\ lock = "free"
    /\ call = [t \in Thread |-> NoCall]
    /\ found = [t \in Thread |-> FALSE]

-----------------------------------------------------------------------------
(* Processes.                                                              *)

Spawn(p) ==
    /\ proc[p] = "none"
    /\ proc' = [proc EXCEPT ![p] = "running"]
    /\ UNCHANGED <<reg, failed, lock, call, found>>

(* A process ends: with any code by itself or after SIGTERM, and with a    *)
(* non-zero one after SIGKILL.                                             *)
Ends == {<<"running", "ok">>, <<"running", "failed">>,
         <<"stopping", "ok">>, <<"stopping", "stopped">>, <<"killing", "stopped">>}

Exit(p) ==
    /\ \E s \in Exited : <<proc[p], s>> \in Ends /\ proc' = [proc EXCEPT ![p] = s]
    /\ UNCHANGED <<reg, failed, lock, call, found>>

(* Popen.terminate() and Popen.kill().                                     *)
Terminated(p) == [proc EXCEPT ![p] = IF @ = "running" THEN "stopping" ELSE @]
Killed(p) == [proc EXCEPT ![p] = IF @ \in Alive THEN "killing" ELSE @]

(* A signal that does not come from cleanup(), to a handle that its owner  *)
(* has not registered.                                                     *)
SignalUnregistered(p) ==
    /\ \A n \in Name : reg[n] # p
    /\ proc' \in {Terminated(p), Killed(p)}
    /\ UNCHANGED <<reg, failed, lock, call, found>>

-----------------------------------------------------------------------------
(* Calls.                                                                  *)

Begin(t, op, arg) ==
    /\ ~InCall(t)
    /\ call' = [call EXCEPT ![t] = CallTo(op, arg)]

CallAdd(t, p) ==
    /\ proc[p] # "none"
    /\ Begin(t, "add", p)
    /\ UNCHANGED <<proc, reg, failed, lock, found>>

CallCheck(t) ==
    Begin(t, "check", NoProc) /\ UNCHANGED <<proc, reg, failed, lock, found>>

CallCleanup(t) ==
    Begin(t, "cleanup", NoProc) /\ UNCHANGED <<proc, reg, failed, lock, found>>

(* print_failure_details returns at once when no failure is listed.        *)
CallDetails(t) ==
    /\ failed # {}
    /\ Begin(t, "details", NoProc)
    /\ UNCHANGED <<proc, reg, failed, lock, found>>

(* A thread that is not holding the lock is interrupted by a signal: it    *)
(* leaves the call it was waiting in and calls cleanup() instead.          *)
CleanupInstead(t) ==
    /\ lock # t
    /\ call' = [call EXCEPT ![t] = CallTo("cleanup", NoProc)]
    /\ UNCHANGED <<proc, reg, failed, lock, found>>

WalkOver(op) == {n \in Name : \/ op \in {"check", "cleanup"} /\ n \in Registered
                              \/ op = "details" /\ n \in failed}

(* The call of thread t moves on.                                          *)
Moves(t, at, todo, arg) ==
    call' = [call EXCEPT ![t] = [op |-> call[t].op, at |-> at, todo |-> todo, arg |-> arg]]

Acquire(t) ==
    /\ InCall(t)
    /\ call[t].at = "wait"
    /\ lock = "free"
    /\ lock' = t
    /\ Moves(t, "hold", WalkOver(call[t].op), call[t].arg)
    /\ UNCHANGED <<proc, reg, failed, found>>

Release(t) ==
    /\ lock' = "free"
    /\ call' = [call EXCEPT ![t] = NoCall]

AddProcess(t) ==
    /\ Holding(t, "add")
    /\ reg' = [reg EXCEPT ![NameOf[call[t].arg]] = call[t].arg]
    /\ Release(t)
    /\ UNCHANGED <<proc, failed, found>>

HasFailed(n) == reg[n] \in Critical /\ proc[reg[n]] \in NonZero

Poll(t) ==
    /\ Holding(t, "check")
    /\ \E n \in call[t].todo :
         /\ Moves(t, "hold", call[t].todo \ {n}, NoProc)
         /\ failed' = IF HasFailed(n) THEN failed \cup {n} ELSE failed
    /\ UNCHANGED <<proc, reg, lock, found>>

CheckReturn(t) ==
    /\ Holding(t, "check") /\ call[t].todo = {}
    /\ found' = [found EXCEPT ![t] = (failed # {})]
    /\ Release(t)
    /\ UNCHANGED <<proc, reg, failed>>

(* cleanup() skips a process that has exited; ManagedProcess.terminate     *)
(* sends SIGTERM to one that has not, and waits.                           *)
SkipExited(t) ==
    /\ Holding(t, "cleanup")
    /\ \E n \in call[t].todo :
         /\ proc[reg[n]] \notin Alive
         /\ Moves(t, "hold", call[t].todo \ {n}, NoProc)
    /\ UNCHANGED <<proc, reg, failed, lock, found>>

Terminate(t) ==
    /\ Holding(t, "cleanup")
    /\ \E n \in call[t].todo :
         /\ proc[reg[n]] \in Alive
         /\ proc' = Terminated(reg[n])
         /\ Moves(t, "term", call[t].todo \ {n}, reg[n])
    /\ UNCHANGED <<reg, failed, lock, found>>

WaitReturns(t) ==
    /\ call[t].at \in {"term", "kill"}
    /\ proc[call[t].arg] \notin Alive
    /\ Moves(t, "hold", call[t].todo, NoProc)
    /\ UNCHANGED <<proc, reg, failed, lock, found>>

(* Mutant: the wait() after terminate() has no timeout.                    *)
TermNeverTimesOut(t) ==
    /\ call[t].at = "term" /\ proc[call[t].arg] \notin Alive
    /\ Moves(t, "hold", call[t].todo, NoProc)
    /\ UNCHANGED <<proc, reg, failed, lock, found>>

TermTimeout(t) ==
    /\ call[t].at = "term"
    /\ proc[call[t].arg] \in Alive
    /\ proc' = Killed(call[t].arg)
    /\ Moves(t, "kill", call[t].todo, call[t].arg)
    /\ UNCHANGED <<reg, failed, lock, found>>

(* Mutant: TimeoutExpired of the second wait() ends cleanup().             *)
KillTimeoutEscapes(t) ==
    /\ call[t].at = "kill"
    /\ proc[call[t].arg] \in Alive
    /\ Release(t)
    /\ UNCHANGED <<proc, reg, failed, found>>

(* wait() after kill() times out: cleanup() logs the exception and goes on.*)
KillTimeout(t) ==
    /\ call[t].at = "kill"
    /\ proc[call[t].arg] \in Alive
    /\ Moves(t, "hold", call[t].todo, NoProc)
    /\ UNCHANGED <<proc, reg, failed, lock, found>>

CleanupReturn(t) ==
    /\ Holding(t, "cleanup") /\ call[t].todo = {}
    /\ Release(t)
    /\ UNCHANGED <<proc, reg, failed, found>>

DetailsReturn(t) ==
    /\ Holding(t, "details")
    /\ Release(t)
    /\ UNCHANGED <<proc, reg, failed, found>>

(* The steps a thread takes inside a call that holds the lock.             *)
Walk(t) ==
    \/ AddProcess(t)
    \/ Poll(t)
    \/ CheckReturn(t)
    \/ SkipExited(t)
    \/ Terminate(t)
    \/ WaitReturns(t)
    \/ TermTimeout(t)
    \/ KillTimeout(t)
    \/ CleanupReturn(t)
    \/ DetailsReturn(t)

RNext ==
    \/ \E p \in Proc : Spawn(p) \/ Exit(p) \/ SignalUnregistered(p)
    \/ \E t \in Thread :
         \/ \E p \in Proc : CallAdd(t, p)
         \/ CallCheck(t) \/ CallCleanup(t) \/ CallDetails(t)
         \/ CleanupInstead(t)
         \/ Acquire(t)
         \/ Walk(t)

RSpec == RInit /\ [][RNext]_rvars
-----------------------------------------------------------------------------
(* While cleanup() walks the table no process it has passed is left        *)
(* undisturbed: each has exited or has been sent a signal.                 *)
CleanupProgress ==
    \A t \in Thread :
        call[t].op = "cleanup" /\ call[t].at # "wait" =>
            \A n \in Registered \ call[t].todo : proc[reg[n]] # "running"

(* cleanup() "terminate[s] all registered processes" (processes.py:150):   *)
(* whatever other threads register while it waits and whatever processes   *)
(* ignore, nothing registered is running undisturbed when it returns.      *)
CleanupStopsAll ==
    [][\A t \in Thread :
         lock = t /\ lock' = "free" /\ call[t].op = "cleanup" =>
            \A n \in Name : reg'[n] # NoProc => proc'[reg'[n]] # "running"]_rvars

(* A failure is never forgotten: once check_failures() has returned True   *)
(* to a thread it does so every time, also after the failed name has been  *)
(* registered again for a healthy process (_failed_processes only grows).  *)
FailureIsSticky == [][\A t \in Thread : found[t] => found'[t]]_rvars
=============================================================================
