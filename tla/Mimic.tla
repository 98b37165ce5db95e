------------------------------- MODULE Mimic -------------------------------
(***************************************************************************)
(* Mimic, the packet-rewriting helper, as a child of the processes that    *)
(* need it on one interface (app/internal/mimic): starting it or sharing   *)
(* the one another process runs, relaunching it when it exits, and closing *)
(* it while any of that is going on.                                       *)
(*                                                                         *)
(* External: the mimic program attaches when no other one owns the         *)
(* interface and exits otherwise; the kernel signals a child whose parent  *)
(* died.                                                                   *)
(***************************************************************************)
EXTENDS Naturals, FiniteSets

CONSTANTS
    Procs,        \* chameleon processes on the host
    MaxLaunches   \* bound: children launched by one process

Children == Procs \X (1..MaxLaunches)

VARIABLES
    main,      \* of each process: "off", "launch", "up", "close", "gone"
    how,       \* its Instance: "none", "own", or "shared" (a nil one)
    proc,      \* Instance.proc, by launch number
    stopped,   \* Instance.stopped, with closing closed
    asked,     \* the child Close read from proc and stops
    sup,       \* supervise: "none", "top", "wait", "delay", "launch", "stop", "done"
    launched,  \* children launched
    child      \* of each child: "none", "starting", "attached", "stopping", "dead"

vars == <<main, how, proc, stopped, asked, sup, launched, child>>

Init ==
    /\ main = [p \in Procs |-> "off"]
    /\ how = [p \in Procs |-> "none"]
    /\ proc = [p \in Procs |-> 0]
    /\ stopped = [p \in Procs |-> FALSE]
    /\ asked = [p \in Procs |-> 0]
    /\ sup = [p \in Procs |-> "none"]
    /\ launched = [p \in Procs |-> 0]
    /\ child = [c \in Children |-> "none"]

Alive(c) == child[c] \in {"starting", "attached", "stopping"}

newest(p) == <<p, launched[p]>>

--------------------------------------------------------------------------------
(* The child, from outside.                                                *)

(* It attaches, and writes its lock file, unless the interface is taken.   *)
Attach(c) ==
    /\ child[c] = "starting"
    /\ \A d \in Children : child[d] \notin {"attached", "stopping"}
    /\ child' = [child EXCEPT ![c] = "attached"]
    /\ UNCHANGED <<asked, main, how, proc, stopped, sup, launched>>

(* It leaves on its own, or because it was asked to.                       *)
Dies(c) ==
    /\ child[c] \in {"starting", "attached", "stopping"}
    /\ child' = [child EXCEPT ![c] = "dead"]
    /\ UNCHANGED <<asked, main, how, proc, stopped, sup, launched>>

--------------------------------------------------------------------------------
(* launchProcess starts one child; waitReady returns once the lock file    *)
(* names it.                                                               *)

launch(p) ==
    /\ launched[p] < MaxLaunches
    /\ launched' = [launched EXCEPT ![p] = @ + 1]
    /\ child' = [child EXCEPT ![<<p, launched[p] + 1>>] = "starting"]

Ready(p) == child[newest(p)] = "attached"

(* process.stop: the signal, and waiting for the exit.                     *)
stop(c) == child' = [child EXCEPT ![c] = IF Alive(c) THEN "stopping" ELSE @]

(* waitReady gives up: the child exited, or its time is over and stop has  *)
(* waited for it.                                                          *)
Failed(p) == child[newest(p)] = "dead"

(* The time is over: stop asks the child to leave.                         *)
readyTimeout(p) ==
    /\ main[p] = "launch" \/ sup[p] = "launch"
    /\ child[newest(p)] = "starting"
    /\ stop(newest(p))
    /\ UNCHANGED <<asked, main, how, proc, stopped, sup, launched>>

(* Start: the mimic running on the interface is used if its filters cover  *)
(* the address (filtersCover) and refused if they do not; otherwise a      *)
(* child is launched.                                                      *)
runningOn == \E c \in Children : child[c] \in {"attached", "stopping"}

Start(p) ==
    /\ main[p] = "off"
    /\ \/ /\ runningOn
          /\ \/ main' = [main EXCEPT ![p] = "up"] /\ how' = [how EXCEPT ![p] = "shared"]
             \/ main' = [main EXCEPT ![p] = "gone"] /\ UNCHANGED how
          /\ UNCHANGED <<launched, child>>
       \/ /\ ~runningOn
          /\ launch(p)
          /\ main' = [main EXCEPT ![p] = "launch"]
          /\ UNCHANGED how
    /\ UNCHANGED <<asked, proc, stopped, sup>>

(* startWithBackoff: the Instance and its supervisor, or the error.        *)
Started(p) ==
    /\ main[p] = "launch"
    /\ \/ /\ Ready(p)
          /\ main' = [main EXCEPT ![p] = "up"]
          /\ how' = [how EXCEPT ![p] = "own"]
          /\ proc' = [proc EXCEPT ![p] = launched[p]]
          /\ sup' = [sup EXCEPT ![p] = "top"]
       \/ /\ Failed(p)
          /\ main' = [main EXCEPT ![p] = "gone"]
          /\ UNCHANGED <<how, proc, sup>>
    /\ UNCHANGED <<asked, stopped, launched, child>>

--------------------------------------------------------------------------------
(* supervise and restart.                                                  *)

(* current(): nothing to wait for once the Instance is stopped.            *)
current(p) ==
    /\ sup[p] = "top"
    /\ sup' = [sup EXCEPT ![p] = IF stopped[p] THEN "done" ELSE "wait"]
    /\ UNCHANGED <<asked, main, how, proc, stopped, launched, child>>

waitedLockedOut(p) ==
    /\ sup[p] = "wait"
    /\ main[p] # "close"
    /\ child[<<p, proc[p]>>] = "dead"
    /\ sup' = [sup EXCEPT ![p] = IF stopped[p] THEN "done" ELSE "delay"]
    /\ UNCHANGED <<asked, main, how, proc, stopped, launched, child>>

(* wait() returns, and closed() tells an exit of its own from Close's.     *)
waited(p) ==
    /\ sup[p] = "wait"
    /\ child[<<p, proc[p]>>] = "dead"
    /\ sup' = [sup EXCEPT ![p] = IF stopped[p] THEN "done" ELSE "delay"]
    /\ UNCHANGED <<asked, main, how, proc, stopped, launched, child>>

(* sleep: the delay passes and mimic is launched again, or Close cuts it   *)
(* short.                                                                  *)
sleep(p) ==
    /\ sup[p] = "delay"
    /\ \/ /\ launch(p)
          /\ sup' = [sup EXCEPT ![p] = "launch"]
       \/ /\ stopped[p]
          /\ sup' = [sup EXCEPT ![p] = "done"]
          /\ UNCHANGED <<launched, child>>
    /\ UNCHANGED <<asked, main, how, proc, stopped>>

(* adopt: the new child becomes the Instance's, unless Close came in while *)
(* it was launching; then it is stopped again.                             *)
adopt(p) ==
    /\ sup[p] = "launch"
    /\ Ready(p)
    /\ \/ /\ ~stopped[p]
          /\ proc' = [proc EXCEPT ![p] = launched[p]]
          /\ sup' = [sup EXCEPT ![p] = "top"]
          /\ UNCHANGED child
       \/ /\ stopped[p]
          /\ stop(newest(p))
          /\ sup' = [sup EXCEPT ![p] = "stop"]
          /\ UNCHANGED proc
    /\ UNCHANGED <<asked, main, how, stopped, launched>>

(* The refused child has left; or a launch failed and is tried again after *)
(* the next delay.                                                         *)
restartEnds(p) ==
    /\ \/ sup[p] = "stop" /\ sup' = [sup EXCEPT ![p] = "done"]
       \/ sup[p] = "launch" /\ sup' = [sup EXCEPT ![p] = "delay"]
    /\ child[newest(p)] = "dead"
    /\ UNCHANGED <<asked, main, how, proc, stopped, launched, child>>

--------------------------------------------------------------------------------
(* Instance.Close: mark it stopped, stop the child it has, wait for the    *)
(* supervisor.  A nil Instance has nothing to do.                          *)
Close(p) ==
    /\ main[p] = "up"
    /\ \/ /\ how[p] = "own"
          /\ stopped' = [stopped EXCEPT ![p] = TRUE]
          /\ asked' = [asked EXCEPT ![p] = proc[p]]
          /\ main' = [main EXCEPT ![p] = "close"]
          /\ stop(<<p, proc[p]>>)
       \/ /\ how[p] = "shared"
          /\ main' = [main EXCEPT ![p] = "gone"]
          /\ UNCHANGED <<stopped, asked, child>>
    /\ UNCHANGED <<how, proc, sup, launched>>

CloseReturns(p) ==
    /\ main[p] = "close"
    /\ ~Alive(<<p, asked[p]>>)
    /\ sup[p] = "done"
    /\ main' = [main EXCEPT ![p] = "gone"]
    /\ UNCHANGED <<asked, how, proc, stopped, sup, launched, child>>

(* The process dies: the kernel sends its children the parent-death signal.*)
Killed(p) ==
    /\ main[p] \in {"launch", "up", "close"}
    /\ main' = [main EXCEPT ![p] = "killed"]
    /\ sup' = [sup EXCEPT ![p] = "none"]
    /\ child' = [c \in Children |-> IF c[1] = p /\ Alive(c) THEN "stopping" ELSE child[c]]
    /\ UNCHANGED <<asked, how, proc, stopped, launched>>

Next ==
    \/ \E c \in Children : Attach(c) \/ Dies(c)
    \/ \E p \in Procs :
          \/ readyTimeout(p) \/ Start(p) \/ Started(p)
          \/ current(p) \/ waited(p) \/ sleep(p) \/ adopt(p) \/ restartEnds(p)
          \/ Close(p) \/ CloseReturns(p) \/ Killed(p)

(* A child that was asked to leave is gone within WaitDelay at the latest; *)
(* a launch attaches, exits or times out; goroutines run on.               *)
Fairness ==
    /\ \A c \in Children : WF_vars(child[c] = "stopping" /\ Dies(c))
    /\ \A p \in Procs :
          /\ WF_vars(readyTimeout(p))
          /\ WF_vars(Started(p))
          /\ WF_vars(current(p) \/ waited(p) \/ sleep(p) \/ adopt(p) \/ restartEnds(p))
          /\ WF_vars(CloseReturns(p))

Spec == Init /\ [][Next]_vars
FairSpec == Spec /\ Fairness

--------------------------------------------------------------------------------
(* Correctness.                                                            *)

(* Once Close has returned, or Start has failed, no child of the process   *)
(* is left attached to the interface - not the one a restart was launching *)
(* while Close ran either (adopt, Instance.Close, launchProcess).          *)
NoneLeft ==
    \A p \in Procs : main[p] = "gone" => \A i \in 1..MaxLaunches : ~Alive(<<p, i>>)

(* Close returns, wherever the supervisor is: waiting, in its delay, or in *)
(* the middle of a launch (supervise, restart, sleep).                     *)
CloseEnds == \A p \in Procs : main[p] = "close" ~> main[p] # "close"
=============================================================================
