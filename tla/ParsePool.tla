------------------------------- MODULE ParsePool -------------------------------
(***************************************************************************)
(* The parse worker pool of the index (index/workers.py, run_parallel): a  *)
(* parent that dispatches units to child processes over private pipes,     *)
(* collects their results, stops a worker that overran its time and stands *)
(* up a new one for a worker that died.  Parent and children interleave;   *)
(* a child may die at any moment.                                          *)
(***************************************************************************)
EXTENDS Integers, FiniteSets

CONSTANTS
    Workers,        \* the slots of the pool (resolve_jobs)
    Units,          \* how many requests there are; positions are 1..Units
    MaxIdleDeaths,  \* bound: children that die with no unit left to answer for
    None

Positions == 1..Units

Statuses == {"parsed", "crashed", "timed_out"}

(* What a child sends back: worker_main's (position, result).                *)
Message == [position : Positions, status : {"parsed", "crashed"}]

ASSUME PoolAssumption ==
    /\ Units \in Nat
    /\ MaxIdleDeaths \in Nat
    /\ None \notin Positions /\ None \notin Statuses /\ None \notin Message

VARIABLES
    parent,      \* where the parent's loop is, and the workers it has yet to visit
    pending,     \* positions not dispatched
    assigned,    \* per worker, the position the parent believes it has
    collected,   \* per position, its result once there is one
    child,       \* per worker: "ready", "busy" or "dead"
    jobs,        \* per worker, the position in its request pipe
    work,        \* per worker, the position being parsed
    results,     \* per worker, the message in its result pipe
    late,        \* per worker, whether its unit has passed the timeout
    idleDeaths,  \* bound counter
    events       \* history: per position, what really happened to it

vars == <<parent, pending, assigned, collected, child, jobs, work, results, late,
          idleDeaths, events>>

parentVars == <<pending, assigned, collected>>
childVars == <<child, jobs, work, results>>

Init ==
    /\ parent = [phase |-> "dispatch", todo |-> Workers]
    /\ pending = Positions
    /\ assigned = [w \in Workers |-> None]
    /\ collected = [p \in Positions |-> None]
    /\ child = [w \in Workers |-> "ready"]
    /\ jobs = [w \in Workers |-> None]
    /\ work = [w \in Workers |-> None]
    /\ results = [w \in Workers |-> None]
    /\ late = [w \in Workers |-> FALSE]
    /\ idleDeaths = 0
    /\ events = [p \in Positions |-> {}]

Idle(w) == assigned[w] = None

-----------------------------------------------------------------------------
(* The parent's loop: one pass of _dispatch, _collect and _enforce_deadlines *)
(* after another, each visiting the workers one by one.                      *)

Visit(w, phase) ==
    /\ parent.phase = phase
    /\ w \in parent.todo
    /\ parent' = [parent EXCEPT !.todo = @ \ {w}]

(* The pending list starts reversed, is popped from its end and pushed back  *)
(* there: the next position is always the smallest one.                      *)
Smallest(p) == p \in pending /\ \A other \in pending : p <= other

(* Mutant: the new unit inherits the clock of the one before.                *)
DispatchKeepsClock(w) ==
    /\ Visit(w, "dispatch")
    /\ Idle(w)
    /\ child[w] # "dead"
    /\ \E p \in pending :
        /\ Smallest(p)
        /\ pending' = pending \ {p}
        /\ assigned' = [assigned EXCEPT ![w] = p]
        /\ jobs' = [jobs EXCEPT ![w] = p]
    /\ UNCHANGED <<collected, child, work, results, late, idleDeaths, events>>

Dispatch(w) ==
    /\ Visit(w, "dispatch")
    /\ Idle(w)
    /\ child[w] # "dead"
    /\ \E p \in pending :
        /\ Smallest(p)
        /\ pending' = pending \ {p}
        /\ assigned' = [assigned EXCEPT ![w] = p]
        /\ jobs' = [jobs EXCEPT ![w] = p]
        /\ late' = [late EXCEPT ![w] = FALSE]
    /\ UNCHANGED <<collected, child, work, results, idleDeaths, events>>

(* Mutant: the popped request is not put back when the pipe is broken.       *)
PassOverLost(w) ==
    /\ Visit(w, "dispatch")
    /\ pending # {}
    /\ ~Idle(w) \/ child[w] = "dead"
    /\ pending' = IF Idle(w) THEN {p \in pending : ~Smallest(p)} ELSE pending
    /\ UNCHANGED <<assigned, collected, childVars, late, idleDeaths, events>>

(* Busy already; or the pipe is broken, the request goes back to the list    *)
(* and the worker stays idle.                                                *)
PassOver(w) ==
    /\ Visit(w, "dispatch")
    /\ pending # {}
    /\ ~Idle(w) \/ child[w] = "dead"
    /\ UNCHANGED <<parentVars, childVars, late, idleDeaths, events>>

EndDispatch ==
    /\ parent.phase = "dispatch"
    /\ parent.todo = {} \/ pending = {}
    /\ parent' = [phase |-> "wait", todo |-> {}]
    /\ UNCHANGED <<parentVars, childVars, late, idleDeaths, events>>

(* wait(): the busy workers whose result pipe has a message or has ended;    *)
(* none when the poll interval passed first or no worker is busy.            *)
Wait ==
    /\ parent.phase = "wait"
    /\ parent' = [phase |-> "collect",
                  todo |-> {w \in Workers :
                              ~Idle(w) /\ (results[w] # None \/ child[w] = "dead")}]
    /\ UNCHANGED <<parentVars, childVars, late, idleDeaths, events>>

Collect(w) ==
    /\ Visit(w, "collect")
    /\ results[w] # None
    /\ collected' = [collected EXCEPT ![results[w].position] = results[w].status]
    /\ assigned' = [assigned EXCEPT ![w] = None]
    /\ results' = [results EXCEPT ![w] = None]
    /\ UNCHANGED <<pending, child, jobs, work, late, idleDeaths, events>>

(* End of file: left to the deadline pass.                                   *)
CollectEof(w) ==
    /\ Visit(w, "collect")
    /\ results[w] = None
    /\ UNCHANGED <<parentVars, childVars, late, idleDeaths, events>>

EndCollect ==
    /\ parent.phase = "collect"
    /\ parent.todo = {}
    /\ parent' = [phase |-> "enforce", todo |-> Workers]
    /\ UNCHANGED <<parentVars, childVars, late, idleDeaths, events>>

(* Mutant: the successor is given the old result pipe.                       *)
ReplaceKeepsPipe(w) ==
    /\ assigned' = [assigned EXCEPT ![w] = None]
    /\ child' = [child EXCEPT ![w] = "ready"]
    /\ jobs' = [jobs EXCEPT ![w] = None]
    /\ work' = [work EXCEPT ![w] = None]
    /\ late' = [late EXCEPT ![w] = FALSE]
    /\ UNCHANGED results

(* replace(): the process is killed, its pipes are closed with whatever is   *)
(* in them, and a fresh process takes the slot.                              *)
Replace(w) ==
    /\ assigned' = [assigned EXCEPT ![w] = None]
    /\ child' = [child EXCEPT ![w] = "ready"]
    /\ jobs' = [jobs EXCEPT ![w] = None]
    /\ work' = [work EXCEPT ![w] = None]
    /\ results' = [results EXCEPT ![w] = None]
    /\ late' = [late EXCEPT ![w] = FALSE]

(* Mutant: the unit is given up but its process runs on.                     *)
StopOverrunLetsRun(w) ==
    /\ Visit(w, "enforce")
    /\ ~Idle(w)
    /\ late[w]
    /\ collected' = [collected EXCEPT ![assigned[w]] = "timed_out"]
    /\ assigned' = [assigned EXCEPT ![w] = None]
    /\ UNCHANGED <<pending, childVars, late, idleDeaths, events>>

(* Mutant: the process is stopped and no new one takes its place.            *)
StopOverrunNoSuccessor(w) ==
    /\ Visit(w, "enforce")
    /\ ~Idle(w)
    /\ late[w]
    /\ collected' = [collected EXCEPT ![assigned[w]] = "timed_out"]
    /\ assigned' = [assigned EXCEPT ![w] = None]
    /\ child' = [child EXCEPT ![w] = "dead"]
    /\ jobs' = [jobs EXCEPT ![w] = None]
    /\ work' = [work EXCEPT ![w] = None]
    /\ results' = [results EXCEPT ![w] = None]
    /\ UNCHANGED <<pending, late, idleDeaths, events>>

StopOverrun(w) ==
    /\ Visit(w, "enforce")
    /\ ~Idle(w)
    /\ late[w]
    /\ collected' = [collected EXCEPT ![assigned[w]] = "timed_out"]
    /\ Replace(w)
    /\ UNCHANGED <<pending, idleDeaths, events>>

ReplaceDead(w) ==
    /\ Visit(w, "enforce")
    /\ ~Idle(w)
    /\ ~late[w]
    /\ child[w] = "dead"
    /\ collected' = [collected EXCEPT ![assigned[w]] = "crashed"]
    /\ Replace(w)
    /\ UNCHANGED <<pending, idleDeaths, events>>

(* An idle worker is not looked at, dead or alive.                           *)
LeaveAlone(w) ==
    /\ Visit(w, "enforce")
    /\ Idle(w) \/ (~late[w] /\ child[w] # "dead")
    /\ UNCHANGED <<parentVars, childVars, late, idleDeaths, events>>

AllCollected == \A p \in Positions : collected[p] # None

(* The loop's condition; on the way out shutdown() ends every worker.        *)
EndEnforce ==
    /\ parent.phase = "enforce"
    /\ parent.todo = {}
    /\ parent' = [phase |-> IF AllCollected THEN "done" ELSE "dispatch", todo |-> Workers]
    /\ UNCHANGED <<parentVars, childVars, late, idleDeaths, events>>

ParentStep ==
    \/ \E w \in Workers :
        \/ Dispatch(w)
        \/ PassOver(w)
        \/ Collect(w)
        \/ CollectEof(w)
        \/ StopOverrun(w)
        \/ ReplaceDead(w)
        \/ LeaveAlone(w)
    \/ EndDispatch
    \/ Wait
    \/ EndCollect
    \/ EndEnforce

-----------------------------------------------------------------------------
(* worker_main, in the child.                                                *)
Running == parent.phase # "done"

Happened(p, event) == events' = [events EXCEPT ![p] = @ \cup {event}]

Receive(w) ==
    /\ Running
    /\ child[w] = "ready"
    /\ jobs[w] # None
    /\ child' = [child EXCEPT ![w] = "busy"]
    /\ work' = [work EXCEPT ![w] = jobs[w]]
    /\ jobs' = [jobs EXCEPT ![w] = None]
    /\ UNCHANGED <<parent, parentVars, results, late, idleDeaths, events>>

(* Mutant: an exception is sent back with a status of its own.               *)
AnswerRaised(w) ==
    /\ Running
    /\ child[w] = "busy"
    /\ results' = [results EXCEPT ![w] = [position |-> work[w], status |-> "raised"]]
    /\ child' = [child EXCEPT ![w] = "ready"]
    /\ work' = [work EXCEPT ![w] = None]
    /\ UNCHANGED <<parent, parentVars, jobs, late, idleDeaths, events>>

(* execute() returned, or raised: any exception becomes the unit's result.   *)
Answer(w) ==
    /\ Running
    /\ child[w] = "busy"
    /\ \E status \in {"parsed", "crashed"} :
        /\ results' = [results EXCEPT ![w] = [position |-> work[w], status |-> status]]
        /\ Happened(work[w], status)
    /\ child' = [child EXCEPT ![w] = "ready"]
    /\ work' = [work EXCEPT ![w] = None]
    /\ UNCHANGED <<parent, parentVars, jobs, late, idleDeaths>>

(* The process disappears with a unit to answer for: in its request pipe or  *)
(* being parsed.                                                             *)
DieBusy(w) ==
    /\ Running
    /\ child[w] # "dead"
    /\ jobs[w] # None \/ work[w] # None
    /\ Happened(IF work[w] # None THEN work[w] ELSE jobs[w], "crashed")
    /\ child' = [child EXCEPT ![w] = "dead"]
    /\ jobs' = [jobs EXCEPT ![w] = None]
    /\ work' = [work EXCEPT ![w] = None]
    /\ UNCHANGED <<parent, parentVars, results, late, idleDeaths>>

(* It disappears with nothing to do, or with its answer already sent: what   *)
(* is in the result pipe stays readable.                                     *)
DieIdle(w) ==
    /\ Running
    /\ child[w] = "ready"
    /\ jobs[w] = None
    /\ idleDeaths < MaxIdleDeaths
    /\ idleDeaths' = idleDeaths + 1
    /\ child' = [child EXCEPT ![w] = "dead"]
    /\ IF results[w] # None THEN Happened(results[w].position, "crashed")
                            ELSE UNCHANGED events
    /\ UNCHANGED <<parent, parentVars, jobs, work, results, late>>

(* The parent's clock passes the unit's deadline.                            *)
Overrun(w) ==
    /\ Running
    /\ ~Idle(w)
    /\ ~late[w]
    /\ late' = [late EXCEPT ![w] = TRUE]
    /\ Happened(assigned[w], "timed_out")
    /\ UNCHANGED <<parent, parentVars, childVars, idleDeaths>>

ChildStep(w) == Receive(w) \/ Answer(w)

Next ==
    \/ ParentStep
    \/ \E w \in Workers : ChildStep(w) \/ DieBusy(w) \/ DieIdle(w) \/ Overrun(w)
    \/ ~Running /\ UNCHANGED vars

(* The parent's loop runs and time passes.  Nothing is asked of the          *)
(* children: they may hang for ever.                                         *)
Spec ==
    /\ Init
    /\ [][Next]_vars
    /\ WF_vars(ParentStep)
    /\ \A w \in Workers : WF_vars(Overrun(w))

-----------------------------------------------------------------------------
(* The domains.                                                              *)
TypeOK ==
    /\ parent \in [phase : {"dispatch", "wait", "collect", "enforce", "done"},
                   todo : SUBSET Workers]
    /\ pending \in SUBSET Positions
    /\ assigned \in [Workers -> Positions \cup {None}]
    /\ collected \in [Positions -> Statuses \cup {None}]
    /\ child \in [Workers -> {"ready", "busy", "dead"}]
    /\ jobs \in [Workers -> Positions \cup {None}]
    /\ work \in [Workers -> Positions \cup {None}]
    /\ results \in [Workers -> Message \cup {None}]
    /\ late \in [Workers -> BOOLEAN]
    /\ idleDeaths \in 0..MaxIdleDeaths
    /\ events \in [Positions -> SUBSET Statuses]

(* At every moment a unit is in exactly one place: waiting, with exactly one *)
(* worker, or answered.  A broken pipe, a death, a timeout or a replacement  *)
(* neither loses a unit nor hands it out twice.                              *)
EachUnitInOnePlace ==
    \A p \in Positions :
        /\ ~(p \in pending /\ collected[p] # None)
        /\ p \in pending \/ collected[p] # None => \A w \in Workers : assigned[w] # p
        /\ p \in pending \/ collected[p] # None \/ \E w \in Workers : assigned[w] = p
        /\ \A v, w \in Workers : assigned[v] = p /\ assigned[w] = p => v = w

(* Whatever a child is doing or has said is about the unit the parent        *)
(* believes it has: a result is never credited to another unit, and nothing  *)
(* of a replaced process reaches its successor.                              *)
ChildServesItsUnit ==
    \A w \in Workers :
        /\ jobs[w] # None => jobs[w] = assigned[w]
        /\ work[w] # None => work[w] = assigned[w]
        /\ results[w] # None => results[w].position = assigned[w]

(* A unit is reported with something that really happened to it: parsed only *)
(* if a child parsed it, crashed only if its parse raised or its process     *)
(* died, timed out only if its own deadline passed.                          *)
ReportedAsItHappened ==
    \A p \in Positions : collected[p] # None => collected[p] \in events[p]

(* A unit's result is final: a late answer never replaces a timeout.         *)
ResultsFinal ==
    [][\A p \in Positions : collected[p] # None => collected'[p] = collected[p]]_vars

(* Every unit gets a result even if children hang or die, as long as one     *)
(* worker does not die idle.                                                 *)
PoolFinishes == <>(parent.phase = "done")

(* The parent's book-keeping is true of its children, whatever they do: each *)
(* unit is in one place, with the worker that really has it, and reported as *)
(* what happened to it (workers.py run_parallel).                           *)
PoolIsTrue ==
    /\ TypeOK
    /\ EachUnitInOnePlace
    /\ ChildServesItsUnit
    /\ ReportedAsItHappened
=============================================================================
