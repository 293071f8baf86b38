---------------------------- MODULE ParsePoolProofs ----------------------------
(***************************************************************************)
(* Proofs about ParsePool, for any pool and any number of units, and about *)
(* IndexMerge, for any program the units may hold.                         *)
(***************************************************************************)
EXTENDS IndexMerge, DataInduction, TLAPS

(* What a child owes for the unit its worker was given, and why the parent  *)
(* may believe what it sees of it.                                          *)
ChildAccount ==
    \A w \in Workers :
        /\ child[w] = "busy" <=> work[w] # None
        /\ child[w] = "dead" => jobs[w] = None
        /\ work[w] # None => jobs[w] = None
        /\ results[w] # None => jobs[w] = None /\ work[w] = None
        /\ assigned[w] # None /\ child[w] = "ready" => jobs[w] # None \/ results[w] # None
        /\ assigned[w] # None /\ child[w] = "dead" => "crashed" \in events[assigned[w]]
        /\ assigned[w] # None /\ late[w] => "timed_out" \in events[assigned[w]]
        /\ results[w] # None => results[w].status \in events[results[w].position]

(* The inductive invariant.                                                 *)
PoolInv ==
    /\ TypeOK
    /\ EachUnitInOnePlace
    /\ ChildServesItsUnit
    /\ ChildAccount
    /\ ReportedAsItHappened

(* The invariant holds when the workers have just been started.             *)
LEMMA InitInv == Init => PoolInv
  BY PoolAssumption DEF Init, PoolInv, TypeOK, EachUnitInOnePlace, ChildServesItsUnit,
       ChildAccount, ReportedAsItHappened, Positions, Statuses

(* The parent's loop after a step that only moves it along.                 *)
Moves == parent' \in [phase : {"dispatch", "wait", "collect", "enforce", "done"},
                      todo : SUBSET Workers]

(* A step that only moves the parent's loop along keeps the invariant.      *)
LEMMA ParentMoves ==
  ASSUME PoolInv, Moves, UNCHANGED <<parentVars, childVars, late, idleDeaths, events>>
  PROVE  PoolInv'
  BY DEF PoolInv, TypeOK, EachUnitInOnePlace, ChildServesItsUnit, ChildAccount,
       ReportedAsItHappened, Moves, parentVars, childVars

(* Handing a unit to an idle worker takes it from the queue into one pair  *)
(* of hands.                                                                *)
LEMMA DispatchInv ==
  ASSUME PoolInv, NEW w \in Workers, Dispatch(w)
  PROVE  PoolInv'
<1> USE PoolAssumption DEF PoolInv, TypeOK, Message, parentVars, childVars
<1>1. TypeOK'
  BY DEF Dispatch, Visit, Idle, Smallest, ChildServesItsUnit, Statuses
<1>2. EachUnitInOnePlace'
  BY DEF Dispatch, Visit, Idle, Smallest, EachUnitInOnePlace, ChildServesItsUnit, Statuses
<1>3. ChildServesItsUnit'
  BY DEF Dispatch, Visit, Idle, Smallest, ChildServesItsUnit
<1>4. ChildAccount'
  BY DEF Dispatch, Visit, Idle, Smallest, ChildAccount, ChildServesItsUnit, Statuses
<1>5. ReportedAsItHappened'
  BY DEF Dispatch, Visit, Idle, Smallest, ReportedAsItHappened, ChildAccount, ChildServesItsUnit, Statuses
<1> QED BY <1>1, <1>2, <1>3, <1>4, <1>5

(* A result that was received in time is the result of the unit handed out. *)
LEMMA CollectInv ==
  ASSUME PoolInv, NEW w \in Workers, Collect(w)
  PROVE  PoolInv'
<1> USE PoolAssumption DEF PoolInv, TypeOK, Message, parentVars, childVars
<1>1. TypeOK'
  BY DEF Collect, Visit, ChildServesItsUnit, Statuses
<1>2. EachUnitInOnePlace'
  BY DEF Collect, Visit, EachUnitInOnePlace, ChildServesItsUnit, Statuses
<1>3. ChildServesItsUnit'
  BY DEF Collect, Visit, ChildServesItsUnit, ChildAccount
<1>4. ChildAccount'
  BY DEF Collect, Visit, ChildAccount, ChildServesItsUnit, Statuses
<1>5. ReportedAsItHappened'
  BY DEF Collect, Visit, ReportedAsItHappened, ChildAccount, ChildServesItsUnit, Statuses
<1> QED BY <1>1, <1>2, <1>3, <1>4, <1>5

(* A unit that overran its deadline is reported, and its worker replaced.   *)
LEMMA StopOverrunInv ==
  ASSUME PoolInv, NEW w \in Workers, StopOverrun(w)
  PROVE  PoolInv'
<1> USE PoolAssumption DEF PoolInv, TypeOK, Message, parentVars, childVars
<1>1. TypeOK'
  BY DEF StopOverrun, Replace, Visit, Idle, ChildServesItsUnit, Statuses
<1>2. EachUnitInOnePlace'
  BY DEF StopOverrun, Replace, Visit, Idle, EachUnitInOnePlace, ChildServesItsUnit, Statuses
<1>3. ChildServesItsUnit'
  BY DEF StopOverrun, Replace, Visit, Idle, ChildServesItsUnit
<1>4. ChildAccount'
  BY DEF StopOverrun, Replace, Visit, Idle, ChildAccount, ChildServesItsUnit, Statuses
<1>5. ReportedAsItHappened'
  BY DEF StopOverrun, Replace, Visit, Idle, ReportedAsItHappened, ChildAccount, ChildServesItsUnit, Statuses
<1> QED BY <1>1, <1>2, <1>3, <1>4, <1>5

(* A unit whose worker died is reported, and its worker replaced.           *)
LEMMA ReplaceDeadInv ==
  ASSUME PoolInv, NEW w \in Workers, ReplaceDead(w)
  PROVE  PoolInv'
<1> USE PoolAssumption DEF PoolInv, TypeOK, Message, parentVars, childVars
<1>1. TypeOK'
  BY DEF ReplaceDead, Replace, Visit, Idle, ChildServesItsUnit, Statuses
<1>2. EachUnitInOnePlace'
  BY DEF ReplaceDead, Replace, Visit, Idle, EachUnitInOnePlace, ChildServesItsUnit, Statuses
<1>3. ChildServesItsUnit'
  BY DEF ReplaceDead, Replace, Visit, Idle, ChildServesItsUnit
<1>4. ChildAccount'
  BY DEF ReplaceDead, Replace, Visit, Idle, ChildAccount, ChildServesItsUnit, Statuses
<1>5. ReportedAsItHappened'
  BY DEF ReplaceDead, Replace, Visit, Idle, ReportedAsItHappened, ChildAccount, ChildServesItsUnit, Statuses
<1> QED BY <1>1, <1>2, <1>3, <1>4, <1>5

(* A worker takes up the request that waits in its pipe.                    *)
LEMMA ReceiveInv ==
  ASSUME PoolInv, NEW w \in Workers, Receive(w)
  PROVE  PoolInv'
<1> USE PoolAssumption DEF PoolInv, TypeOK, Message, parentVars, childVars
<1>1. TypeOK'
  BY DEF Receive, ChildServesItsUnit, Statuses
<1>2. EachUnitInOnePlace'
  BY DEF Receive, EachUnitInOnePlace, ChildServesItsUnit, Statuses
<1>3. ChildServesItsUnit'
  BY DEF Receive, ChildServesItsUnit
<1>4. ChildAccount'
  BY DEF Receive, ChildAccount, ChildServesItsUnit, Statuses
<1>5. ReportedAsItHappened'
  BY DEF Receive, ReportedAsItHappened, ChildAccount, ChildServesItsUnit, Statuses
<1> QED BY <1>1, <1>2, <1>3, <1>4, <1>5

(* A worker answers for the unit it was given and for no other.             *)
LEMMA AnswerInv ==
  ASSUME PoolInv, NEW w \in Workers, Answer(w)
  PROVE  PoolInv'
<1> USE PoolAssumption DEF PoolInv, TypeOK, Message, parentVars, childVars
<1>1. PICK status \in {"parsed", "crashed"} :
         /\ results' = [results EXCEPT ![w] = [position |-> work[w], status |-> status]]
         /\ events' = [events EXCEPT ![work[w]] = @ \cup {status}]
  BY DEF Answer, Happened
<1>2. work[w] \in Positions /\ work[w] = assigned[w]
  BY DEF Answer, ChildAccount, ChildServesItsUnit
<1>3. /\ results' \in [Workers -> Message \cup {None}]
      /\ results'[w].position = work[w] /\ results'[w].status = status
      /\ \A v \in Workers \ {w} : results'[v] = results[v]
  BY <1>1, <1>2
<1>4. /\ events' \in [Positions -> SUBSET Statuses]
      /\ \A p \in Positions : events[p] \subseteq events'[p]
      /\ status \in events'[work[w]]
  BY <1>1, <1>2 DEF Statuses
<1>5. /\ child' = [child EXCEPT ![w] = "ready"] /\ child[w] = "busy"
      /\ work' = [work EXCEPT ![w] = None]
      /\ UNCHANGED <<parent, pending, assigned, collected, jobs, late, idleDeaths>>
  BY DEF Answer
<1>6. TypeOK'
  BY <1>3, <1>4, <1>5
<1>7. EachUnitInOnePlace'
  BY <1>5 DEF EachUnitInOnePlace
<1>8. ChildServesItsUnit'
  BY <1>2, <1>3, <1>5 DEF ChildServesItsUnit, ChildAccount
<1>9. ChildAccount'
  <2>1. ASSUME NEW v \in Workers, results'[v] # None
        PROVE  results'[v].status \in events'[results'[v].position]
    <3>1. CASE v = w  BY <3>1, <1>3, <1>4
    <3>2. CASE v # w
      <4>1. results'[v] = results[v] /\ results[v] \in Message
        BY <3>2, <2>1, <1>3
      <4>2. QED BY <4>1, <2>1, <1>4 DEF ChildAccount
    <3>3. QED BY <3>1, <3>2
  <2>2. \A v \in Workers : results'[v] # None => jobs'[v] = None /\ work'[v] = None
    BY <1>2, <1>3, <1>5 DEF ChildAccount
  <2>3. results'[w] # None
    BY <1>1, <1>2
  <2>4. QED BY <1>3, <1>4, <1>5, <2>1, <2>2, <2>3 DEF ChildAccount
<1>10. ReportedAsItHappened'
  BY <1>4, <1>5 DEF ReportedAsItHappened
<1> QED BY <1>6, <1>7, <1>8, <1>9, <1>10

(* A worker that dies at work leaves its unit with the parent.              *)
LEMMA DieBusyInv ==
  ASSUME PoolInv, NEW w \in Workers, DieBusy(w)
  PROVE  PoolInv'
<1> USE PoolAssumption DEF PoolInv, TypeOK, Message, parentVars, childVars
<1>1. TypeOK'
  BY DEF DieBusy, Happened, ChildServesItsUnit, Statuses
<1>2. EachUnitInOnePlace'
  BY DEF DieBusy, Happened, EachUnitInOnePlace, ChildServesItsUnit, Statuses
<1>3. ChildServesItsUnit'
  BY DEF DieBusy, Happened, ChildServesItsUnit
<1>4. ChildAccount'
  BY DEF DieBusy, Happened, ChildAccount, ChildServesItsUnit, Statuses
<1>5. ReportedAsItHappened'
  BY DEF DieBusy, Happened, ReportedAsItHappened, ChildAccount, ChildServesItsUnit, Statuses
<1> QED BY <1>1, <1>2, <1>3, <1>4, <1>5

(* A worker that dies idle holds no unit.                                   *)
LEMMA DieIdleInv ==
  ASSUME PoolInv, NEW w \in Workers, DieIdle(w)
  PROVE  PoolInv'
<1> USE PoolAssumption DEF PoolInv, TypeOK, Message, parentVars, childVars
<1>1. TypeOK'
  BY DEF DieIdle, Happened, ChildServesItsUnit, Statuses
<1>2. EachUnitInOnePlace'
  BY DEF DieIdle, Happened, EachUnitInOnePlace, ChildServesItsUnit, Statuses
<1>3. ChildServesItsUnit'
  BY DEF DieIdle, Happened, ChildServesItsUnit
<1>4. ChildAccount'
  BY DEF DieIdle, Happened, ChildAccount, ChildServesItsUnit, Statuses
<1>5. ReportedAsItHappened'
  BY DEF DieIdle, Happened, ReportedAsItHappened, ChildAccount, ChildServesItsUnit, Statuses
<1> QED BY <1>1, <1>2, <1>3, <1>4, <1>5

(* A deadline that passes changes no unit's place.                          *)
LEMMA OverrunInv ==
  ASSUME PoolInv, NEW w \in Workers, Overrun(w)
  PROVE  PoolInv'
<1> USE PoolAssumption DEF PoolInv, TypeOK, Message, parentVars, childVars
<1>1. TypeOK'
  BY DEF Overrun, Happened, Idle, ChildServesItsUnit, Statuses
<1>2. EachUnitInOnePlace'
  BY DEF Overrun, Happened, Idle, EachUnitInOnePlace, ChildServesItsUnit, Statuses
<1>3. ChildServesItsUnit'
  BY DEF Overrun, Happened, Idle, ChildServesItsUnit
<1>4. ChildAccount'
  BY DEF Overrun, Happened, Idle, ChildAccount, ChildServesItsUnit, Statuses
<1>5. ReportedAsItHappened'
  BY DEF Overrun, Happened, Idle, ReportedAsItHappened, ChildAccount, ChildServesItsUnit, Statuses
<1> QED BY <1>1, <1>2, <1>3, <1>4, <1>5

-----------------------------------------------------------------------------
(* The parent's other steps only move its loop along.                       *)
LEMMA StepInv == PoolInv /\ [Next]_vars => PoolInv'
<1> SUFFICES ASSUME PoolInv, [Next]_vars PROVE PoolInv'
  OBVIOUS
<1>1. ASSUME NEW w \in Workers, Dispatch(w) PROVE PoolInv'
  BY <1>1, DispatchInv
<1>2. ASSUME NEW w \in Workers, Collect(w) PROVE PoolInv'
  BY <1>2, CollectInv
<1>3. ASSUME NEW w \in Workers, StopOverrun(w) PROVE PoolInv'
  BY <1>3, StopOverrunInv
<1>4. ASSUME NEW w \in Workers, ReplaceDead(w) PROVE PoolInv'
  BY <1>4, ReplaceDeadInv
<1>5. ASSUME NEW w \in Workers, PassOver(w) \/ CollectEof(w) \/ LeaveAlone(w) PROVE PoolInv'
  <2>1. Moves
    BY <1>5 DEF PassOver, CollectEof, LeaveAlone, Visit, Moves, PoolInv, TypeOK
  <2>2. UNCHANGED <<parentVars, childVars, late, idleDeaths, events>>
    BY <1>5 DEF PassOver, CollectEof, LeaveAlone
  <2>3. QED BY <2>1, <2>2, ParentMoves
<1>6. ASSUME EndDispatch \/ Wait \/ EndCollect \/ EndEnforce PROVE PoolInv'
  <2>1. Moves
    BY <1>6 DEF EndDispatch, Wait, EndCollect, EndEnforce, Moves
  <2>2. UNCHANGED <<parentVars, childVars, late, idleDeaths, events>>
    BY <1>6 DEF EndDispatch, Wait, EndCollect, EndEnforce
  <2>3. QED BY <2>1, <2>2, ParentMoves
<1>7. ASSUME NEW w \in Workers, Receive(w) PROVE PoolInv'
  BY <1>7, ReceiveInv
<1>8. ASSUME NEW w \in Workers, Answer(w) PROVE PoolInv'
  BY <1>8, AnswerInv
<1>9. ASSUME NEW w \in Workers, DieBusy(w) PROVE PoolInv'
  BY <1>9, DieBusyInv
<1>10. ASSUME NEW w \in Workers, DieIdle(w) PROVE PoolInv'
  BY <1>10, DieIdleInv
<1>11. ASSUME NEW w \in Workers, Overrun(w) PROVE PoolInv'
  BY <1>11, OverrunInv
<1>12. ASSUME UNCHANGED vars PROVE PoolInv'
  <2>1. Moves
    BY <1>12 DEF vars, Moves, PoolInv, TypeOK
  <2>2. UNCHANGED <<parentVars, childVars, late, idleDeaths, events>>
    BY <1>12 DEF vars, parentVars, childVars
  <2>3. QED BY <2>1, <2>2, ParentMoves
<1>13. QED
  BY <1>1, <1>2, <1>3, <1>4, <1>5, <1>6, <1>7, <1>8, <1>9, <1>10, <1>11, <1>12
     DEF Next, ParentStep, ChildStep

(* The invariant holds in every state of the pool (run_parallel), for any   *)
(* number of workers and units.                                             *)
THEOREM PoolInvariant == Spec => []PoolInv
  BY InitInv, StepInv, PTL DEF Spec

(* Type correctness of the pool (run_parallel).                             *)
THEOREM PoolTypeCorrect == Spec => []TypeOK
<1>1. PoolInv => TypeOK
  BY DEF PoolInv
<1>2. QED BY <1>1, PoolInvariant, PTL

(* No unit is lost or handed out twice, for any number of workers, units,   *)
(* deaths and timeouts (_dispatch, _collect, _enforce_deadlines).           *)
THEOREM NoUnitLostOrDoubled == Spec => []EachUnitInOnePlace
<1>1. PoolInv => EachUnitInOnePlace
  BY DEF PoolInv
<1>2. QED BY <1>1, PoolInvariant, PTL

(* A result is never credited to another unit, and nothing survives a       *)
(* replaced process (_Pool.replace, worker_main).                           *)
THEOREM NoForeignResult == Spec => []ChildServesItsUnit
<1>1. PoolInv => ChildServesItsUnit
  BY DEF PoolInv
<1>2. QED BY <1>1, PoolInvariant, PTL

(* A unit is only reported with something that happened to it.              *)
THEOREM HonestReport == Spec => []ReportedAsItHappened
<1>1. PoolInv => ReportedAsItHappened
  BY DEF PoolInv
<1>2. QED BY <1>1, PoolInvariant, PTL

(* The pool loses nothing, doubles nothing, credits nothing to another unit *)
(* and invents no outcome (run_parallel).                                   *)
THEOREM PoolAlwaysTrue == Spec => []PoolIsTrue
<1>1. PoolInv => PoolIsTrue
  BY DEF PoolInv, PoolIsTrue
<1>2. QED BY <1>1, PoolInvariant, PTL

(* A result that is there stays.                                            *)
LEMMA ResultStays ==
  ASSUME PoolInv, [Next]_vars, NEW p \in Positions, collected[p] # None
  PROVE  collected'[p] = collected[p]
<1> USE PoolAssumption DEF PoolInv, TypeOK, EachUnitInOnePlace
<1>1. \A w \in Workers : assigned[w] # p
  OBVIOUS
<1>2. ASSUME NEW w \in Workers, Collect(w) PROVE collected'[p] = collected[p]
  BY <1>1, <1>2 DEF Collect, ChildServesItsUnit
<1>3. ASSUME NEW w \in Workers, StopOverrun(w) \/ ReplaceDead(w)
      PROVE  collected'[p] = collected[p]
  BY <1>1, <1>3 DEF StopOverrun, ReplaceDead
<1>4. CASE UNCHANGED collected
  BY <1>4
<1>5. QED
  BY <1>1, <1>2, <1>3, <1>4
     DEF Next, ParentStep, ChildStep, Dispatch, PassOver, CollectEof, LeaveAlone,
         EndDispatch, Wait, EndCollect, EndEnforce, Receive, Answer, DieBusy, DieIdle,
         Overrun, vars, parentVars

(* A unit's result never changes once it is there: a late answer cannot     *)
(* replace the timeout that was reported for it.                            *)
THEOREM ResultsAreFinal == Spec => ResultsFinal
<1>1. PoolInv /\ [Next]_vars
        => [\A p \in Positions : collected[p] # None => collected'[p] = collected[p]]_vars
  BY ResultStays
<1>2. QED BY <1>1, PoolInvariant, PTL DEF Spec, ResultsFinal

-----------------------------------------------------------------------------
(* The cursors of a unit, and the recursive functions on them.              *)
IsTree(cursors) ==
    /\ cursors \in Seq({cursors[i] : i \in DOMAIN cursors})
    /\ \A i \in DOMAIN cursors : cursors[i].parent \in 0..(i - 1)

(* The cursors of a unit are a tree in pre-order.                           *)
LEMMA TreeOfCursors ==
  ASSUME NEW cursors, IsTree(cursors)
  PROVE  /\ Len(cursors) \in Nat /\ DOMAIN cursors = 1..Len(cursors)
         /\ Parents(Len(cursors), [i \in 1..Len(cursors) |-> cursors[i].parent])
<1>1. Len(cursors) \in Nat /\ DOMAIN cursors = 1..Len(cursors)
  BY DEF IsTree
<1>2. \A i \in 1..Len(cursors) : cursors[i].parent \in 0..(i - 1)
  BY <1>1 DEF IsTree
<1> DEFINE n == Len(cursors)
           up == [i \in 1..n |-> cursors[i].parent]
<1>3. up \in [1..n -> Nat] /\ \A i \in 1..n : up[i] \in 0..(i - 1)
  <2> HIDE DEF n
  <2>1. QED BY <1>1, <1>2 DEF n
<1>4. QED BY <1>1, <1>3 DEF Parents

(* Whether a cursor is inside the tree is told by it and its parent.        *)
LEMMA InsideTreeIs ==
  ASSUME NEW cursors, IsTree(cursors)
  PROVE  /\ InsideTree(cursors)[0]
         /\ \A i \in 1..Len(cursors) :
              InsideTree(cursors)[i]
                <=> (cursors[i].file \in Repository /\ InsideTree(cursors)[cursors[i].parent])
<1> DEFINE n == Len(cursors)
           up == [i \in 1..n |-> cursors[i].parent]
           step == [ik \in (1..n) \X BOOLEAN |-> cursors[ik[1]].file \in Repository /\ ik[2]]
           Is(f) == f = [i \in 0..n |->
                           i = 0 \/ (cursors[i].file \in Repository /\ f[cursors[i].parent])]
           inside == CHOOSE f : Is(f)
<1>1. n \in Nat /\ Parents(n, up) /\ \A i \in 1..n : up[i] = cursors[i].parent
  BY TreeOfCursors
<1>2. /\ step \in Steps(n, BOOLEAN)
      /\ \A i \in 1..n, k \in BOOLEAN : step[<<i, k>>] = (cursors[i].file \in Repository /\ k)
  BY DEF Steps
<1>3. InsideTree(cursors) = inside
  BY DEF InsideTree
<1> HIDE DEF n, up, step
<1>4. 0 \in 0..n /\ \A i \in 1..n : i \in 0..n /\ up[i] \in 0..n /\ i # 0
  BY <1>1 DEF Parents
<1>5. PICK g : IsInherited(g, n, up, BOOLEAN, TRUE, step)
  BY <1>1, <1>2, ByParents
<1>6. /\ g \in [0..n -> BOOLEAN] /\ g[0] = TRUE
      /\ \A i \in 1..n : g[i] = step[<<i, g[up[i]]>>]
  BY <1>5 DEF IsInherited
<1>7. \A i \in 1..n : g[i] = (cursors[i].file \in Repository /\ g[cursors[i].parent])
  <2>1. ASSUME NEW i \in 1..n PROVE g[i] = (cursors[i].file \in Repository /\ g[cursors[i].parent])
    <3>1. g[up[i]] \in BOOLEAN /\ up[i] = cursors[i].parent
      BY <1>1, <1>4, <1>6
    <3>2. g[i] = step[<<i, g[up[i]]>>]
      BY <1>6
    <3>3. step[<<i, g[up[i]]>>] = (cursors[i].file \in Repository /\ g[up[i]])
      BY <1>2, <3>1, Zenon
    <3>4. QED BY <3>1, <3>2, <3>3, Zenon
  <2>2. QED BY <2>1
<1>8. \A i \in 0..n : i = 0 \/ i \in 1..n
  BY <1>1
<1>9. Is(g)
  <2>1. \A i \in 0..n : g[i] = (i = 0 \/ (cursors[i].file \in Repository /\ g[cursors[i].parent]))
    BY <1>4, <1>6, <1>7, <1>8
  <2>2. g = [i \in 0..n |-> g[i]]
    BY <1>6
  <2>3. QED BY <2>1, <2>2
<1>10. Is(inside)
  BY <1>9
<1> HIDE DEF inside
<1>11. inside[0] /\ \A i \in 1..n : inside[i] <=> (cursors[i].file \in Repository /\ inside[cursors[i].parent])
  BY <1>4, <1>10
<1>12. QED BY <1>3, <1>11 DEF n

(* The body below which a cursor's children are.                            *)
LEMMA BodyOfIs ==
  ASSUME NEW cursors, IsTree(cursors)
  PROVE  /\ BodyOf(cursors)[0] = None
         /\ \A i \in 1..Len(cursors) :
              BodyOf(cursors)[i] = IF Declares(cursors[i]) /\ cursors[i].body THEN cursors[i]
                                   ELSE BodyOf(cursors)[cursors[i].parent]
<1> DEFINE n == Len(cursors)
           up == [i \in 1..n |-> cursors[i].parent]
           V == {cursors[i] : i \in 1..n} \cup {None}
           Value(i, k) == IF Declares(cursors[i]) /\ cursors[i].body THEN cursors[i] ELSE k
           step == [ik \in (1..n) \X V |-> Value(ik[1], ik[2])]
           Is(f) == f = [i \in 0..n |->
                           IF i = 0 THEN None
                           ELSE IF Declares(cursors[i]) /\ cursors[i].body THEN cursors[i]
                           ELSE f[cursors[i].parent]]
           body == CHOOSE f : Is(f)
<1>1. n \in Nat /\ Parents(n, up) /\ \A i \in 1..n : up[i] = cursors[i].parent
  BY TreeOfCursors
<1>2. \A i \in 1..n, k \in V : Value(i, k) \in V
  OBVIOUS
<1>3. None \in V
  OBVIOUS
<1>4. BodyOf(cursors) = body
  BY DEF BodyOf
<1> HIDE DEF n, up, V
<1>5. step \in Steps(n, V) /\ \A i \in 1..n, k \in V : step[<<i, k>>] = Value(i, k)
  BY <1>2 DEF Steps
<1> HIDE DEF step
<1>6. 0 \in 0..n /\ \A i \in 1..n : i \in 0..n /\ up[i] \in 0..n /\ i # 0
  BY <1>1 DEF Parents
<1>7. PICK g : IsInherited(g, n, up, V, None, step)
  BY <1>1, <1>3, <1>5, ByParents
<1>8. /\ g \in [0..n -> V] /\ g[0] = None
      /\ \A i \in 1..n : g[i] = Value(i, g[cursors[i].parent])
  <2>1. \A i \in 1..n : g[i] = step[<<i, g[up[i]]>>] /\ g[up[i]] \in V
    BY <1>6, <1>7 DEF IsInherited
  <2> HIDE DEF Value
  <2>2. \A i \in 1..n : g[i] = Value(i, g[up[i]])
    BY <1>5, <2>1
  <2>3. QED BY <1>1, <1>7, <2>2 DEF IsInherited
<1>9. \A i \in 0..n : i = 0 \/ i \in 1..n
  BY <1>1
<1>10. Is(g)
  BY <1>6, <1>8, <1>9
<1>11. Is(body)
  BY <1>10
<1> HIDE DEF body
<1>12. body[0] = None /\ \A i \in 1..n : body[i] = Value(i, body[cursors[i].parent])
  BY <1>6, <1>11
<1>13. QED BY <1>4, <1>12 DEF n

(* What is above a cursor.                                                  *)
LEMMA AboveIs ==
  ASSUME NEW cursors, IsTree(cursors)
  PROVE  /\ Above(cursors)[0] = {}
         /\ \A i \in 1..Len(cursors) :
              Above(cursors)[i] = {i} \cup Above(cursors)[cursors[i].parent]
<1> DEFINE n == Len(cursors)
           up == [i \in 1..n |-> cursors[i].parent]
           V == SUBSET (1..n)
           step == [ik \in (1..n) \X V |-> {ik[1]} \cup ik[2]]
           Is(f) == f = [i \in 0..n |-> IF i = 0 THEN {} ELSE {i} \cup f[cursors[i].parent]]
           above == CHOOSE f : Is(f)
<1>1. n \in Nat /\ Parents(n, up) /\ \A i \in 1..n : up[i] = cursors[i].parent
  BY TreeOfCursors
<1>2. {} \in V /\ \A i \in 1..n, k \in V : {i} \cup k \in V
  OBVIOUS
<1>3. Above(cursors) = above
  BY DEF Above
<1> HIDE DEF n, up, V
<1>4. step \in Steps(n, V) /\ \A i \in 1..n, k \in V : step[<<i, k>>] = {i} \cup k
  BY <1>2 DEF Steps
<1> HIDE DEF step
<1>5. 0 \in 0..n /\ \A i \in 1..n : i \in 0..n /\ up[i] \in 0..n /\ i # 0
  BY <1>1 DEF Parents
<1>6. PICK g : IsInherited(g, n, up, V, {}, step)
  BY <1>1, <1>2, <1>4, ByParents
<1>7. /\ g \in [0..n -> V] /\ g[0] = {}
      /\ \A i \in 1..n : g[i] = {i} \cup g[cursors[i].parent]
  BY <1>1, <1>4, <1>5, <1>6 DEF IsInherited
<1>8. \A i \in 0..n : i = 0 \/ i \in 1..n
  BY <1>1
<1>9. Is(g)
  BY <1>5, <1>7, <1>8
<1>10. Is(above)
  BY <1>9
<1> HIDE DEF above
<1>11. above[0] = {} /\ \A i \in 1..n : above[i] = {i} \cup above[cursors[i].parent]
  BY <1>5, <1>10
<1>12. QED BY <1>3, <1>11 DEF n

-----------------------------------------------------------------------------
(* The symbols of a unit.                                                   *)
Regions == [file : Repository, first : Nat, last : Nat]

SymbolsOver(names) ==
    [name : names, callable : BOOLEAN, definition : Regions \cup {None},
     declarations : SUBSET Regions]

Tables(usrs, names) == UNION {[D -> SymbolsOver(names)] : D \in SUBSET usrs}

(* What a region holds can be compared.                                     *)
LEMMA NumberedRegion ==
  ASSUME NEW r \in Regions
  PROVE  r.file \in Int /\ r.first \in Int /\ r.last \in Int
<1>1. Repository \subseteq Nat
  BY IndexAssumption
<1>2. r.file \in Repository
  BY DEF Regions
<1>3. r.file \in Nat
  BY <1>1, <1>2
<1>4. r.first \in Int /\ r.last \in Int
  BY DEF Regions
<1>5. QED BY <1>3, <1>4

(* Of two regions one is first.                                             *)
LEMMA OneIsFirst ==
  ASSUME NEW bodies \in SUBSET Regions, bodies # {}, NEW r \in Regions, NEW s \in Regions,
         bodies \subseteq {r, s}
  PROVE  \E q \in bodies : \A t \in bodies : Before(q, t)
<1>1. /\ r.file \in Int /\ r.first \in Int /\ r.last \in Int
      /\ s.file \in Int /\ s.first \in Int /\ s.last \in Int
  BY NumberedRegion
<1>2. Before(r, r) /\ Before(s, s) /\ (Before(r, s) \/ Before(s, r))
  BY <1>1 DEF Before
<1>3. bodies = {r} \/ bodies = {s} \/ bodies = {r, s}
  OBVIOUS
<1>4. QED BY <1>2, <1>3

(* What two sightings make.                                                 *)
LEMMA MergedIs ==
  ASSUME NEW names, NEW a \in SymbolsOver(names), NEW b \in SymbolsOver(names)
  PROVE  /\ MergedWith(a, b) \in SymbolsOver(names)
         /\ MergedWith(a, b).name = a.name
         /\ MergedWith(a, b).callable = a.callable
         /\ MergedWith(a, b).definition \in {a.definition, b.definition}
         /\ MergedWith(a, b).definition = None => a.definition = None /\ b.definition = None
         /\ MergedWith(a, b).declarations \subseteq a.declarations \cup b.declarations
<1> DEFINE bodies == {a.definition, b.definition} \ {None}
           body == IF bodies = {} THEN None
                   ELSE CHOOSE r \in bodies : \A s \in bodies : Before(r, s)
           m == [name |-> a.name, callable |-> a.callable, definition |-> body,
                 declarations |-> (a.declarations \cup b.declarations) \ {body}]
<1>1. MergedWith(a, b) = m
  BY DEF MergedWith
<1>2. /\ a.definition \in Regions \cup {None} /\ b.definition \in Regions \cup {None}
      /\ a.declarations \in SUBSET Regions /\ b.declarations \in SUBSET Regions
      /\ a.name \in names /\ a.callable \in BOOLEAN
  BY DEF SymbolsOver
<1>3. bodies # {} => body \in bodies
  <2>1. SUFFICES ASSUME bodies # {} PROVE \E q \in bodies : \A t \in bodies : Before(q, t)
    OBVIOUS
  <2>2. PICK r \in Regions : bodies \subseteq Regions /\ r \in bodies
    BY <1>2, <2>1
  <2>3. \E s \in Regions : bodies \subseteq {r, s}
    BY <1>2, <2>2
  <2> HIDE DEF bodies
  <2>4. QED BY <2>1, <2>2, <2>3, OneIsFirst
<1>4. /\ body \in {a.definition, b.definition}
      /\ body = None => a.definition = None /\ b.definition = None
  <2>1. CASE bodies = {}
    BY <2>1
  <2>2. CASE bodies # {}
    BY <1>3, <2>2
  <2>3. QED BY <2>1, <2>2
<1> HIDE DEF body
<1>5. m \in SymbolsOver(names)
  BY <1>2, <1>4 DEF SymbolsOver
<1>6. QED BY <1>1, <1>4, <1>5

(* What may be sighted: it has a region in the tree.                        *)
HasRegion(c) ==
    /\ c.file \in Repository /\ c.lines \in Nat \X Nat /\ RegionOf(c) # None

(* The region of what may be sighted.                                       *)
LEMMA RegionInTree ==
  ASSUME NEW c, HasRegion(c)
  PROVE  RegionOf(c) \in Regions /\ RegionOf(c) # None
<1>1. c.file \in Repository /\ c.lines[1] \in Nat /\ c.lines[2] \in Nat
  BY DEF HasRegion
<1>2. QED BY <1>1 DEF HasRegion, RegionOf, Regions

(* A symbol says of one entity what some sightings of it say.               *)
Shows(symbol, usr, sightings) ==
    /\ symbol \in SymbolsOver({usr[2]})
    /\ \E c \in sightings : Entity(c) = usr /\ (symbol.callable <=> c.kind \in Callable)
    /\ symbol.definition # None =>
         \E c \in sightings : Entity(c) = usr /\ Defines(c) /\ RegionOf(c) = symbol.definition
    /\ \A c \in sightings : Entity(c) = usr /\ Defines(c) => symbol.definition # None
    /\ \A r \in symbol.declarations :
         \E c \in sightings : Entity(c) = usr /\ RegionOf(c) = r

IsTableOf(table, sightings) ==
    /\ table = [usr \in {Entity(c) : c \in sightings} |-> table[usr]]
    /\ \A c \in sightings : Shows(table[Entity(c)], Entity(c), sightings)

(* One sighting.                                                            *)
LEMMA OneSighting ==
  ASSUME NEW c, HasRegion(c)
  PROVE  Shows(AsSymbol(c), Entity(c), {c})
<1> DEFINE s == [name |-> c.name, callable |-> c.kind \in Callable,
                 definition |-> IF Defines(c) THEN RegionOf(c) ELSE None,
                 declarations |-> IF Defines(c) THEN {} ELSE {RegionOf(c)}]
<1>1. AsSymbol(c) = s
  BY DEF AsSymbol
<1>2. RegionOf(c) \in Regions /\ RegionOf(c) # None
  BY RegionInTree
<1>3. Entity(c)[2] = c.name
  BY DEF Entity
<1>4. s \in SymbolsOver({c.name})
  BY <1>2 DEF SymbolsOver
<1>5. /\ s.callable <=> c.kind \in Callable
      /\ s.definition # None => Defines(c) /\ RegionOf(c) = s.definition
      /\ Defines(c) => s.definition # None
      /\ \A r \in s.declarations : RegionOf(c) = r
  BY <1>2
<1> HIDE DEF s
<1>6. QED BY <1>1, <1>3, <1>4, <1>5 DEF Shows

(* More sightings, of something else.                                       *)
LEMMA OtherSightings ==
  ASSUME NEW symbol, NEW usr, NEW sightings, Shows(symbol, usr, sightings), NEW more,
         \A c \in more : Entity(c) # usr
  PROVE  Shows(symbol, usr, sightings \cup more)
  BY DEF Shows

(* Two symbols of one entity.                                               *)
LEMMA MergedShows ==
  ASSUME NEW usr, NEW a, NEW S, Shows(a, usr, S), NEW b, NEW T, Shows(b, usr, T)
  PROVE  Shows(MergedWith(a, b), usr, S \cup T)
<1> DEFINE names == {usr[2]}
           m == MergedWith(a, b)
<1>1. a \in SymbolsOver(names) /\ b \in SymbolsOver(names)
  BY DEF Shows
<1> HIDE DEF names
<1>2. /\ m \in SymbolsOver(names)
      /\ m.callable = a.callable
      /\ m.definition \in {a.definition, b.definition}
      /\ m.definition = None => a.definition = None /\ b.definition = None
      /\ m.declarations \subseteq a.declarations \cup b.declarations
  BY <1>1, MergedIs
<1> HIDE DEF m
<1>3. \E c \in S \cup T : Entity(c) = usr /\ (m.callable <=> c.kind \in Callable)
  <2>1. PICK c \in S : Entity(c) = usr /\ (a.callable <=> c.kind \in Callable)
    BY DEF Shows
  <2>2. QED BY <1>2, <2>1, Zenon
<1>4. m.definition # None =>
        \E c \in S \cup T : Entity(c) = usr /\ Defines(c) /\ RegionOf(c) = m.definition
  BY <1>2 DEF Shows
<1>5. \A c \in S \cup T : Entity(c) = usr /\ Defines(c) => m.definition # None
  BY <1>2 DEF Shows
<1>6. \A r \in m.declarations : \E c \in S \cup T : Entity(c) = usr /\ RegionOf(c) = r
  BY <1>2 DEF Shows
<1>7. QED BY <1>2, <1>3, <1>4, <1>5, <1>6 DEF Shows, names, m

(* The name the index gives is the one Clang gives.                         *)
LEMMA UsrIsEntity ==
  ASSUME NEW c
  PROVE  Usr(c) = Entity(c)
  BY DEF Usr, Entity

(* Two tables, and one more sighting.                                       *)
LEMMA MergedTablesShow ==
  ASSUME NEW table, NEW S, IsTableOf(table, S), NEW other, NEW T, IsTableOf(other, T)
  PROVE  IsTableOf(MergedTables(table, other), S \cup T)
<1> DEFINE m == MergedTables(table, other)
<1>1. /\ DOMAIN table = {Entity(c) : c \in S} /\ DOMAIN other = {Entity(c) : c \in T}
  BY DEF IsTableOf
<1>2. m = [usr \in {Entity(c) : c \in S \cup T} |-> m[usr]]
  <2>1. DOMAIN table \cup DOMAIN other = {Entity(c) : c \in S \cup T}
    BY <1>1
  <2>2. QED BY <2>1 DEF MergedTables
<1>3. ASSUME NEW usr \in DOMAIN table \cup DOMAIN other PROVE Shows(m[usr], usr, S \cup T)
  <2>1. m[usr] = IF usr \notin DOMAIN table THEN other[usr]
                 ELSE IF usr \notin DOMAIN other THEN table[usr]
                 ELSE MergedWith(table[usr], other[usr])
    BY DEF MergedTables
  <2> HIDE DEF m
  <2>2. usr \in DOMAIN table => Shows(table[usr], usr, S)
    BY <1>1 DEF IsTableOf
  <2>3. usr \in DOMAIN other => Shows(other[usr], usr, T)
    BY <1>1 DEF IsTableOf
  <2>4. CASE usr \notin DOMAIN table
    <3>1. \A c \in S : Entity(c) # usr
      BY <1>1, <2>4
    <3>2. T \cup S = S \cup T
      OBVIOUS
    <3>3. Shows(other[usr], usr, T)
      BY <2>3, <2>4
    <3>4. Shows(other[usr], usr, T \cup S)
      BY <3>1, <3>3, OtherSightings
    <3>5. QED BY <2>1, <2>4, <3>2, <3>4
  <2>5. CASE usr \in DOMAIN table /\ usr \notin DOMAIN other
    <3>1. \A c \in T : Entity(c) # usr
      BY <1>1, <2>5
    <3>2. Shows(table[usr], usr, S)
      BY <2>2, <2>5
    <3>3. Shows(table[usr], usr, S \cup T)
      BY <3>1, <3>2, OtherSightings
    <3>4. QED BY <2>1, <2>5, <3>3
  <2>6. CASE usr \in DOMAIN table /\ usr \in DOMAIN other
    <3>1. Shows(table[usr], usr, S) /\ Shows(other[usr], usr, T)
      BY <2>2, <2>3, <2>6
    <3>2. Shows(MergedWith(table[usr], other[usr]), usr, S \cup T)
      BY <3>1, MergedShows
    <3>3. QED BY <2>1, <2>6, <3>2
  <2>7. QED BY <2>4, <2>5, <2>6
<1>4. \A c \in S \cup T : Entity(c) \in DOMAIN table \cup DOMAIN other
  BY <1>1
<1> HIDE DEF m
<1>5. QED BY <1>2, <1>3, <1>4 DEF IsTableOf, m

(* One more sighting in a table.                                            *)
LEMMA RecordedShows ==
  ASSUME NEW table, NEW S, IsTableOf(table, S), NEW c, HasRegion(c)
  PROVE  IsTableOf(Recorded(table, c), S \cup {c})
<1> DEFINE T == {c}
           other == [usr \in {Entity(x) : x \in T} |-> AsSymbol(c)]
<1>1. IsTableOf(other, T)
  <2>1. Shows(AsSymbol(c), Entity(c), T)
    BY OneSighting
  <2>2. QED BY <2>1 DEF IsTableOf
<1>2. IsTableOf(MergedTables(table, other), S \cup T)
  <2> HIDE DEF T, other
  <2>1. QED BY <1>1, MergedTablesShow
<1>3. MergedTables(table, other) = Recorded(table, c)
  BY UsrIsEntity DEF MergedTables, Recorded, Put
<1>4. QED BY <1>2, <1>3

(* What the cursors of a unit are.                                          *)
CursorsOK(cursors) ==
    /\ IsTree(cursors)
    /\ \A i \in DOMAIN cursors : CursorOK(cursors, i) /\ ClassesOK(cursors, i)

(* A unit that Clang gives has such cursors.                                *)
LEMMA UnitIsTree ==
  ASSUME NEW unit, UnitOK(unit)
  PROVE  CursorsOK(unit.cursors)
  BY DEF UnitOK, CursorsOK, IsTree, CursorOK

(* What is sighted may be.                                                  *)
LEMMA SightedHasRegion ==
  ASSUME NEW cursors, CursorsOK(cursors), NEW i \in DOMAIN cursors, Sighted(cursors, i)
  PROVE  HasRegion(cursors[i])
  BY DEF CursorsOK, CursorOK, Sighted, IsSymbol, Readable, HasRegion

(* The symbols after one more cursor.                                       *)
LEMMA SymbolsInIs ==
  ASSUME NEW cursors, CursorsOK(cursors)
  PROVE  /\ SymbolsIn(cursors)[0] = << >>
         /\ \A i \in 1..Len(cursors) :
              SymbolsIn(cursors)[i] =
                IF Sighted(cursors, i) THEN Recorded(SymbolsIn(cursors)[i - 1], cursors[i])
                ELSE SymbolsIn(cursors)[i - 1]
<1> DEFINE n == Len(cursors)
           usrs == {Entity(cursors[i]) : i \in 1..n}
           names == {cursors[i].name : i \in 1..n}
           V == Tables(usrs, names)
           Value(i, k) == IF Sighted(cursors, i) THEN Recorded(k, cursors[i]) ELSE k
           step == [ik \in (1..n) \X V |-> Value(ik[1], ik[2])]
           Is(f) == f = [i \in 0..n |-> IF i = 0 THEN << >>
                                        ELSE LET known == f[i - 1]
                                             IN IF Sighted(cursors, i)
                                                THEN Recorded(known, cursors[i]) ELSE known]
           table == CHOOSE f : Is(f)
<1>1. n \in Nat /\ DOMAIN cursors = 1..n
  BY TreeOfCursors DEF CursorsOK
<1>2. ASSUME NEW i \in 1..n, NEW k \in V PROVE Value(i, k) \in V
  <2> DEFINE c == cursors[i]
             a == AsSymbol(c)
             r == Recorded(k, c)
  <2>1. PICK D \in SUBSET usrs : k \in [D -> SymbolsOver(names)]
    BY DEF Tables
  <2>2. CASE Sighted(cursors, i)
    <3>1. HasRegion(c)
      BY <1>1, <2>2, SightedHasRegion
    <3>2. a \in SymbolsOver({Entity(c)[2]}) /\ Entity(c)[2] \in names /\ Entity(c) \in usrs
      <4>1. Shows(a, Entity(c), {c})
        BY <3>1, OneSighting
      <4>2. Entity(c)[2] = c.name
        BY DEF Entity
      <4> HIDE DEF a
      <4>3. a \in SymbolsOver({Entity(c)[2]})
        BY <4>1 DEF Shows
      <4>4. QED BY <4>2, <4>3
    <3> HIDE DEF usrs, names, a, c
    <3>3. a \in SymbolsOver(names)
      BY <3>2 DEF SymbolsOver
    <3>4. \A u \in D : MergedWith(k[u], a) \in SymbolsOver(names)
      BY <2>1, <3>3, MergedIs
    <3>5. r \in [D \cup {Entity(c)} -> SymbolsOver(names)]
      <4>1. r = [u \in D \cup {Entity(c)} |->
                   IF u = Entity(c) THEN IF u \in D THEN MergedWith(k[u], a) ELSE a ELSE k[u]]
        BY <2>1, UsrIsEntity DEF Recorded, Put, a
      <4> HIDE DEF r
      <4>2. QED BY <2>1, <3>3, <3>4, <4>1
    <3>6. D \cup {Entity(c)} \in SUBSET usrs
      BY <3>2
    <3>7. r \in V
      <4> HIDE DEF r
      <4>1. QED BY <3>5, <3>6 DEF Tables
    <3>8. QED BY <2>2, <3>7 DEF c
  <2>3. CASE ~Sighted(cursors, i)
    BY <2>3
  <2>4. QED BY <2>2, <2>3
<1>3. << >> \in V
  <2>1. << >> \in [{} -> SymbolsOver(names)] /\ {} \in SUBSET usrs
    OBVIOUS
  <2> HIDE DEF usrs, names
  <2>2. QED BY <2>1 DEF Tables
<1>4. SymbolsIn(cursors) = table
  BY DEF SymbolsIn
<1> HIDE DEF n, V
<1>5. step \in Steps(n, V) /\ \A i \in 1..n, k \in V : step[<<i, k>>] = Value(i, k)
  BY <1>2 DEF Steps
<1> HIDE DEF step
<1>6. 0 \in 0..n /\ \A i \in 1..n : i \in 0..n /\ i - 1 \in 0..n /\ i # 0
  BY <1>1
<1>7. PICK g : IsRecursive(g, n, V, << >>, step)
  BY <1>1, <1>3, <1>5, ByRecursion
<1>8. /\ g \in [0..n -> V] /\ g[0] = << >>
      /\ \A i \in 1..n : g[i] = Value(i, g[i - 1])
  <2>1. \A i \in 1..n : g[i] = step[<<i, g[i - 1]>>] /\ g[i - 1] \in V
    BY <1>6, <1>7 DEF IsRecursive
  <2> HIDE DEF Value
  <2>2. QED BY <1>5, <1>7, <2>1 DEF IsRecursive
<1>9. \A i \in 0..n : i = 0 \/ i \in 1..n
  BY <1>1
<1>10. Is(g)
  BY <1>6, <1>8, <1>9
<1>11. Is(table)
  BY <1>10
<1> HIDE DEF table
<1>12. table[0] = << >> /\ \A i \in 1..n : table[i] = Value(i, table[i - 1])
  BY <1>6, <1>11
<1>13. QED BY <1>4, <1>12 DEF n

(* They are what the cursors read so far say.                               *)
SightedUpTo(cursors, i) == {cursors[j] : j \in {k \in 1..i : Sighted(cursors, k)}}

(* The symbols of a unit are those sighted.                                 *)
LEMMA SymbolsAreSighted ==
  ASSUME NEW cursors, CursorsOK(cursors)
  PROVE  \A i \in 0..Len(cursors) : IsTableOf(SymbolsIn(cursors)[i], SightedUpTo(cursors, i))
<1> DEFINE n == Len(cursors)
           table == SymbolsIn(cursors)
           S == {i \in 0..n : IsTableOf(table[i], SightedUpTo(cursors, i))}
<1>1. n \in Nat /\ DOMAIN cursors = 1..n
  BY TreeOfCursors DEF CursorsOK
<1>2. /\ table[0] = << >>
      /\ \A i \in 1..n : table[i] = IF Sighted(cursors, i) THEN Recorded(table[i - 1], cursors[i])
                                    ELSE table[i - 1]
  BY SymbolsInIs
<1> HIDE DEF n, table
<1>3. 0 \in S
  <2>1. SightedUpTo(cursors, 0) = {}
    BY DEF SightedUpTo
  <2>2. IsTableOf(<< >>, {})
    BY DEF IsTableOf
  <2>3. table[0] = << >> /\ 0 \in 0..n
    BY <1>1, <1>2
  <2> HIDE DEF SightedUpTo
  <2>4. IsTableOf(table[0], SightedUpTo(cursors, 0))
    BY <2>1, <2>2, <2>3, Zenon
  <2>5. QED BY <2>3, <2>4
<1>4. ASSUME NEW i \in 1..n, i - 1 \in S PROVE i \in S
  <2>1. IsTableOf(table[i - 1], SightedUpTo(cursors, i - 1)) /\ i \in 0..n
    BY <1>1, <1>4
  <2>2. \A j : j \in 1..i <=> j \in 1..(i - 1) \/ j = i
    BY <1>1
  <2>3. CASE Sighted(cursors, i)
    <3>1. SightedUpTo(cursors, i) = SightedUpTo(cursors, i - 1) \cup {cursors[i]}
      BY <2>2, <2>3 DEF SightedUpTo
    <3>2. HasRegion(cursors[i])
      BY <1>1, <2>3, SightedHasRegion
    <3>3. QED BY <1>2, <2>1, <2>3, <3>1, <3>2, RecordedShows
  <2>4. CASE ~Sighted(cursors, i)
    <3>1. SightedUpTo(cursors, i) = SightedUpTo(cursors, i - 1)
      BY <2>2, <2>4 DEF SightedUpTo
    <3>2. QED BY <1>2, <2>1, <2>4, <3>1
  <2>5. QED BY <2>3, <2>4
<1> HIDE DEF S
<1>5. \A i \in 0..n : i \in S
  BY <1>1, <1>3, <1>4, UpTo
<1>6. QED BY <1>5 DEF S, n, table

(* What a cursor is to its children.                                        *)
Encloses(cursors, i) ==
    /\ Sighted(cursors, i) /\ cursors[i].kind # "macro"
    /\ SymbolsIn(cursors)[i][Usr(cursors[i])].definition # None

(* It is told by the cursor and its parent.                                 *)
LEMMA AroundIs ==
  ASSUME NEW cursors, IsTree(cursors)
  PROVE  /\ Around(cursors)[0] = None
         /\ \A i \in 1..Len(cursors) :
              Around(cursors)[i] = IF Encloses(cursors, i) THEN Usr(cursors[i])
                                   ELSE Around(cursors)[cursors[i].parent]
<1> DEFINE n == Len(cursors)
           up == [i \in 1..n |-> cursors[i].parent]
           V == {Usr(cursors[i]) : i \in 1..n} \cup {None}
           Value(i, k) == IF Encloses(cursors, i) THEN Usr(cursors[i]) ELSE k
           step == [ik \in (1..n) \X V |-> Value(ik[1], ik[2])]
           symbols == SymbolsIn(cursors)
           Is(f) == f = [i \in 0..n |->
                           IF i = 0 THEN None
                           ELSE LET c == cursors[i]
                                IN IF /\ Sighted(cursors, i) /\ c.kind # "macro"
                                      /\ symbols[i][Usr(c)].definition # None
                                   THEN Usr(c) ELSE f[c.parent]]
           around == CHOOSE f : Is(f)
<1>1. n \in Nat /\ Parents(n, up) /\ \A i \in 1..n : up[i] = cursors[i].parent
  BY TreeOfCursors
<1>2. \A i \in 1..n, k \in V : Value(i, k) \in V
  OBVIOUS
<1>3. None \in V
  OBVIOUS
<1>4. Around(cursors) = around
  BY DEF Around
<1> HIDE DEF n, up, V
<1>5. step \in Steps(n, V) /\ \A i \in 1..n, k \in V : step[<<i, k>>] = Value(i, k)
  BY <1>2 DEF Steps
<1> HIDE DEF step
<1>6. 0 \in 0..n /\ \A i \in 1..n : i \in 0..n /\ up[i] \in 0..n /\ i # 0
  BY <1>1 DEF Parents
<1>7. PICK g : IsInherited(g, n, up, V, None, step)
  BY <1>1, <1>3, <1>5, ByParents
<1>8. /\ g \in [0..n -> V] /\ g[0] = None
      /\ \A i \in 1..n : g[i] = Value(i, g[cursors[i].parent])
  <2>1. \A i \in 1..n : g[i] = step[<<i, g[up[i]]>>] /\ g[up[i]] \in V
    BY <1>6, <1>7 DEF IsInherited
  <2> HIDE DEF Value
  <2>2. \A i \in 1..n : g[i] = Value(i, g[up[i]])
    BY <1>5, <2>1
  <2>3. QED BY <1>1, <1>7, <2>2 DEF IsInherited
<1>9. \A i \in 0..n : i = 0 \/ i \in 1..n
  BY <1>1
<1>10. Is(g)
  <2> HIDE DEF symbols
  <2>1. \A i \in 1..n : g[i] = IF /\ Sighted(cursors, i) /\ cursors[i].kind # "macro"
                                  /\ symbols[i][Usr(cursors[i])].definition # None
                               THEN Usr(cursors[i]) ELSE g[cursors[i].parent]
    BY <1>8 DEF Encloses, symbols
  <2>2. QED BY <1>6, <1>8, <1>9, <2>1
<1>11. Is(around)
  BY <1>10
<1> HIDE DEF around
<1>12. around[0] = None /\ \A i \in 1..n : around[i] = Value(i, around[cursors[i].parent])
  <2> HIDE DEF symbols
  <2>1. \A i \in 1..n : around[i] = IF /\ Sighted(cursors, i) /\ cursors[i].kind # "macro"
                                       /\ symbols[i][Usr(cursors[i])].definition # None
                                    THEN Usr(cursors[i]) ELSE around[cursors[i].parent]
    BY <1>6, <1>11
  <2>2. around[0] = None
    BY <1>6, <1>11
  <2>3. QED BY <2>1, <2>2 DEF Encloses, symbols
<1>13. QED BY <1>4, <1>12 DEF n

(* What is below a cursor is in its file.                                   *)
LEMMA SameFileBelow ==
  ASSUME NEW cursors, CursorsOK(cursors), NEW i \in 1..Len(cursors), cursors[i].parent # 0
  PROVE  /\ cursors[i].parent \in 1..Len(cursors)
         /\ cursors[i].file = cursors[cursors[i].parent].file
<1>1. /\ Len(cursors) \in Nat /\ DOMAIN cursors = 1..Len(cursors)
      /\ cursors[i].parent \in 0..(i - 1)
  BY TreeOfCursors DEF CursorsOK, IsTree
<1>2. cursors[i].parent \in 1..Len(cursors)
  BY <1>1
<1>3. QED BY <1>1, <1>2 DEF CursorsOK, CursorOK

(* The walk visits what is in the tree.                                     *)
LEMMA InsideIsInRepository ==
  ASSUME NEW cursors, CursorsOK(cursors)
  PROVE  \A i \in DOMAIN cursors : InsideTree(cursors)[i] <=> cursors[i].file \in Repository
<1> DEFINE n == Len(cursors)
           up == [i \in 1..n |-> cursors[i].parent]
           Inside(i) == InsideTree(cursors)[i]
           S == {i \in 0..n : i # 0 => (Inside(i) <=> cursors[i].file \in Repository)}
<1>1. /\ n \in Nat /\ DOMAIN cursors = 1..n /\ Parents(n, up)
      /\ \A i \in 1..n : up[i] = cursors[i].parent
  BY TreeOfCursors DEF CursorsOK
<1>2. /\ Inside(0)
      /\ \A i \in 1..n : Inside(i) <=> (cursors[i].file \in Repository /\ Inside(cursors[i].parent))
  BY InsideTreeIs DEF CursorsOK
<1>3. \A i \in 1..n : cursors[i].parent # 0 =>
          cursors[i].parent \in 1..n /\ cursors[i].file = cursors[cursors[i].parent].file
  BY SameFileBelow
<1> HIDE DEF n, up, Inside
<1>4. 0 \in S /\ \A i \in 1..n : i \in 0..n /\ i # 0
  BY <1>1
<1>5. ASSUME NEW i \in 1..n, up[i] \in S PROVE i \in S
  <2>1. Inside(cursors[i].parent) \/ cursors[i].file \notin Repository
    <3>1. CASE cursors[i].parent = 0
      BY <1>2, <3>1
    <3>2. CASE cursors[i].parent # 0
      BY <1>1, <1>3, <1>5, <3>2
    <3>3. QED BY <3>1, <3>2
  <2>2. Inside(i) <=> cursors[i].file \in Repository
    BY <1>2, <2>1
  <2>3. QED BY <1>4, <2>2
<1> HIDE DEF S
<1>6. \A i \in 0..n : i \in S
  BY <1>1, <1>4, <1>5, DownTheTree
<1>7. QED BY <1>1, <1>4, <1>6 DEF S, Inside

(* Nothing in a file that cannot be read encloses anything.                 *)
LEMMA UnreadEnclosesNothing ==
  ASSUME NEW cursors, CursorsOK(cursors)
  PROVE  \A i \in DOMAIN cursors : ~Readable(cursors[i].file) => Around(cursors)[i] = None
<1> DEFINE n == Len(cursors)
           up == [i \in 1..n |-> cursors[i].parent]
           S == {i \in 0..n : i # 0 /\ ~Readable(cursors[i].file) => Around(cursors)[i] = None}
<1>1. /\ n \in Nat /\ DOMAIN cursors = 1..n /\ Parents(n, up)
      /\ \A i \in 1..n : up[i] = cursors[i].parent
  BY TreeOfCursors DEF CursorsOK
<1>2. /\ Around(cursors)[0] = None
      /\ \A i \in 1..n : Around(cursors)[i] = IF Encloses(cursors, i) THEN Usr(cursors[i])
                                              ELSE Around(cursors)[cursors[i].parent]
  BY AroundIs DEF CursorsOK
<1>3. \A i \in 1..n : cursors[i].parent # 0 =>
          cursors[i].parent \in 1..n /\ cursors[i].file = cursors[cursors[i].parent].file
  BY SameFileBelow
<1>4. \A i \in 1..n : ~Readable(cursors[i].file) => ~Encloses(cursors, i)
  BY DEF Encloses, Sighted, IsSymbol
<1> HIDE DEF n, up
<1>5. 0 \in S /\ \A i \in 1..n : i \in 0..n /\ i # 0
  BY <1>1
<1>6. ASSUME NEW i \in 1..n, up[i] \in S PROVE i \in S
  <2>1. SUFFICES ASSUME ~Readable(cursors[i].file) PROVE Around(cursors)[i] = None
    BY <1>5
  <2>2. Around(cursors)[i] = Around(cursors)[cursors[i].parent]
    BY <1>2, <1>4, <2>1
  <2>3. Around(cursors)[cursors[i].parent] = None
    <3>1. CASE cursors[i].parent = 0
      BY <1>2, <3>1
    <3>2. CASE cursors[i].parent # 0
      BY <1>1, <1>3, <1>6, <2>1, <3>2
    <3>3. QED BY <3>1, <3>2
  <2>4. QED BY <2>2, <2>3
<1> HIDE DEF S
<1>7. \A i \in 0..n : i \in S
  BY <1>1, <1>5, <1>6, DownTheTree
<1>8. QED BY <1>1, <1>5, <1>7 DEF S

(* A declaration with a body encloses what is below it.                     *)
LEMMA BodyEncloses ==
  ASSUME NEW cursors, CursorsOK(cursors), NEW i \in 1..Len(cursors),
         Declares(cursors[i]), cursors[i].body, Readable(cursors[i].file)
  PROVE  Encloses(cursors, i)
<1>1. Len(cursors) \in Nat /\ DOMAIN cursors = 1..Len(cursors)
  BY TreeOfCursors DEF CursorsOK
<1>2. InsideTree(cursors)[i]
  BY <1>1, InsideIsInRepository DEF Readable
<1>3. cursors[i].kind # "macro"
  BY DEF Declares, SymbolKinds, Callable
<1>4. Sighted(cursors, i)
  BY <1>2 DEF Sighted, IsSymbol, Declares
<1>5. IsTableOf(SymbolsIn(cursors)[i], SightedUpTo(cursors, i))
  <2>1. i \in 0..Len(cursors)
    BY <1>1
  <2>2. QED BY <2>1, SymbolsAreSighted
<1>6. cursors[i] \in SightedUpTo(cursors, i)
  <2>1. i \in 1..i
    BY <1>1
  <2>2. QED BY <1>4, <2>1 DEF SightedUpTo
<1>7. SymbolsIn(cursors)[i][Entity(cursors[i])].definition # None
  BY <1>5, <1>6 DEF IsTableOf, Shows, Defines
<1>8. QED BY <1>3, <1>4, <1>7, UsrIsEntity DEF Encloses

(* The body something is in is one of the unit's.                           *)
LEMMA BodyOfIsRead ==
  ASSUME NEW cursors, CursorsOK(cursors)
  PROVE  \A i \in 0..Len(cursors) : BodyOf(cursors)[i] # None =>
            \E k \in DOMAIN cursors : /\ cursors[k] = BodyOf(cursors)[i]
                                      /\ Declares(cursors[k]) /\ cursors[k].body
<1> DEFINE n == Len(cursors)
           up == [i \in 1..n |-> cursors[i].parent]
           Read(b) == \E k \in DOMAIN cursors : cursors[k] = b /\ Declares(cursors[k]) /\ cursors[k].body
           S == {i \in 0..n : BodyOf(cursors)[i] # None => Read(BodyOf(cursors)[i])}
<1>1. /\ n \in Nat /\ DOMAIN cursors = 1..n /\ Parents(n, up)
      /\ \A i \in 1..n : up[i] = cursors[i].parent
  BY TreeOfCursors DEF CursorsOK
<1>2. /\ BodyOf(cursors)[0] = None
      /\ \A i \in 1..n : BodyOf(cursors)[i] = IF Declares(cursors[i]) /\ cursors[i].body THEN cursors[i]
                                              ELSE BodyOf(cursors)[cursors[i].parent]
  BY BodyOfIs DEF CursorsOK
<1> HIDE DEF n, up
<1>3. 0 \in S /\ \A i \in 1..n : i \in 0..n /\ i # 0
  BY <1>1, <1>2
<1>4. ASSUME NEW i \in 1..n, up[i] \in S PROVE i \in S
  <2>1. BodyOf(cursors)[up[i]] # None => Read(BodyOf(cursors)[up[i]])
    BY <1>4
  <2>2. CASE Declares(cursors[i]) /\ cursors[i].body
    <3>1. Read(cursors[i])
      BY <1>1, <2>2
    <3>2. BodyOf(cursors)[i] = cursors[i]
      BY <1>2, <2>2
    <3> HIDE DEF Read
    <3>3. QED BY <1>3, <3>1, <3>2
  <2>3. CASE ~(Declares(cursors[i]) /\ cursors[i].body)
    <3>1. BodyOf(cursors)[i] = BodyOf(cursors)[up[i]]
      BY <1>1, <1>2, <2>3
    <3> HIDE DEF Read
    <3>2. QED BY <1>3, <2>1, <3>1
  <2>4. QED BY <2>2, <2>3
<1> HIDE DEF S, Read
<1>5. \A i \in 0..n : i \in S
  BY <1>1, <1>3, <1>4, DownTheTree
<1>6. QED BY <1>1, <1>5 DEF S, n, Read

(* Where whatever is above has a body, the walk and Clang agree on the body *)
(* something is in.                                                         *)
Agree(enclosing, body) ==
    IF body = None THEN enclosing = None ELSE enclosing = Entity(body) /\ enclosing # None

(* The walk attributes what is below to that body.                          *)
LEMMA EnclosingIsBody ==
  ASSUME NEW cursors, CursorsOK(cursors)
  PROVE  \A i \in 0..Len(cursors) :
            /\ i # 0 => Readable(cursors[i].file)
            /\ \A k \in Above(cursors)[i] : Declares(cursors[k]) => cursors[k].body
            => Agree(Around(cursors)[i], BodyOf(cursors)[i])
<1> DEFINE n == Len(cursors)
           up == [i \in 1..n |-> cursors[i].parent]
           Bodied(i) == /\ i # 0 => Readable(cursors[i].file)
                        /\ \A k \in Above(cursors)[i] : Declares(cursors[k]) => cursors[k].body
           Agrees(i) == Agree(Around(cursors)[i], BodyOf(cursors)[i])
           S == {i \in 0..n : Bodied(i) => Agrees(i)}
<1>1. /\ n \in Nat /\ DOMAIN cursors = 1..n /\ Parents(n, up)
      /\ \A i \in 1..n : up[i] = cursors[i].parent
  BY TreeOfCursors DEF CursorsOK
<1>2. /\ BodyOf(cursors)[0] = None
      /\ \A i \in 1..n : BodyOf(cursors)[i] = IF Declares(cursors[i]) /\ cursors[i].body THEN cursors[i]
                                              ELSE BodyOf(cursors)[cursors[i].parent]
  BY BodyOfIs DEF CursorsOK
<1>3. /\ Around(cursors)[0] = None
      /\ \A i \in 1..n : Around(cursors)[i] = IF Encloses(cursors, i) THEN Usr(cursors[i])
                                              ELSE Around(cursors)[cursors[i].parent]
  BY AroundIs DEF CursorsOK
<1>4. \A i \in 1..n : cursors[i].parent # 0 =>
          cursors[i].parent \in 1..n /\ cursors[i].file = cursors[cursors[i].parent].file
  BY SameFileBelow
<1>5. \A i \in 1..n : Above(cursors)[i] = {i} \cup Above(cursors)[cursors[i].parent]
  BY AboveIs DEF CursorsOK
<1>6. ASSUME NEW i \in 1..n, Bodied(i) PROVE Bodied(up[i]) /\ Readable(cursors[i].file)
  <2>1. Readable(cursors[i].file)
    BY <1>1, <1>6
  <2>2. up[i] # 0 => Readable(cursors[up[i]].file)
    BY <1>1, <1>4, <2>1
  <2>3. \A k \in Above(cursors)[up[i]] : Declares(cursors[k]) => cursors[k].body
    BY <1>1, <1>5, <1>6
  <2>4. QED BY <2>1, <2>2, <2>3
<1>7. ASSUME NEW i \in 1..n, Bodied(i), Agrees(up[i]) PROVE Agrees(i)
  <2>1. Readable(cursors[i].file)
    BY <1>6, <1>7
  <2>2. CASE Declares(cursors[i])
    <3>1. cursors[i].body
      BY <1>5, <1>7, <2>2
    <3>2. Encloses(cursors, i)
      BY <2>1, <2>2, <3>1, BodyEncloses
    <3>3. cursors[i] # None /\ Entity(cursors[i]) # None
      BY <1>1 DEF CursorsOK, CursorOK
    <3>4. Around(cursors)[i] = Entity(cursors[i]) /\ BodyOf(cursors)[i] = cursors[i]
      BY <1>2, <1>3, <2>2, <3>1, <3>2, UsrIsEntity
    <3>5. QED BY <3>3, <3>4 DEF Agree
  <2>3. CASE ~Declares(cursors[i])
    <3>1. ~Encloses(cursors, i)
      BY <2>3 DEF Encloses, Sighted, IsSymbol, Declares
    <3>2. Around(cursors)[i] = Around(cursors)[up[i]] /\ BodyOf(cursors)[i] = BodyOf(cursors)[up[i]]
      BY <1>1, <1>2, <1>3, <2>3, <3>1
    <3>3. QED BY <1>7, <3>2
  <2>4. QED BY <2>2, <2>3
<1>8. Agrees(0)
  BY <1>2, <1>3 DEF Agree
<1> HIDE DEF n, up, Bodied, Agrees
<1>9. 0 \in S
  BY <1>1, <1>8
<1>10. ASSUME NEW i \in 1..n, up[i] \in S PROVE i \in S
  <2>1. i \in 0..n
    BY <1>1
  <2>2. QED BY <1>6, <1>7, <1>10, <2>1
<1> HIDE DEF S
<1>11. \A i \in 0..n : i \in S
  BY <1>1, <1>9, <1>10, DownTheTree
<1>12. QED BY <1>11 DEF S, n, Bodied, Agrees

-----------------------------------------------------------------------------
(* The walk of a unit.                                                      *)
LEMMA WalkedIs ==
  ASSUME NEW cursors, CursorsOK(cursors)
  PROVE  /\ \A i \in DOMAIN cursors : cursors[i].file \in Repository =>
              [cursor |-> cursors[i], enclosing |-> Around(cursors)[cursors[i].parent]]
                 \in Walked(cursors)
         /\ \A v \in Walked(cursors) : \E i \in DOMAIN cursors :
              /\ v.cursor = cursors[i] /\ cursors[i].file \in Repository
              /\ v.enclosing = Around(cursors)[cursors[i].parent]
<1>1. \A i \in DOMAIN cursors : InsideTree(cursors)[i] <=> cursors[i].file \in Repository
  BY InsideIsInRepository
<1> DEFINE inside == {i \in DOMAIN cursors : InsideTree(cursors)[i]}
           Visit1(i) == [cursor |-> cursors[i], enclosing |-> Around(cursors)[cursors[i].parent]]
<1>2. Walked(cursors) = {Visit1(i) : i \in inside}
  BY DEF Walked
<1>3. \A i \in DOMAIN cursors : i \in inside <=> cursors[i].file \in Repository
  BY <1>1
<1>4. inside \subseteq DOMAIN cursors
  OBVIOUS
<1> HIDE DEF inside
<1>5. \A i \in inside : /\ Visit1(i).cursor = cursors[i]
                        /\ Visit1(i).enclosing = Around(cursors)[cursors[i].parent]
  OBVIOUS
<1>6. QED BY <1>2, <1>3, <1>4, <1>5

(* A call that is written in a body.                                        *)
CallIn(cursors, i) ==
    /\ cursors[i].kind = "call" /\ Readable(cursors[i].file)
    /\ BodyOf(cursors)[cursors[i].parent] # None

CallerIn(cursors, i) == Entity(BodyOf(cursors)[cursors[i].parent])

(* A call is attributed to the body it is in.                               *)
LEMMA CallIsEnclosed ==
  ASSUME NEW cursors, CursorsOK(cursors), NEW i \in DOMAIN cursors,
         cursors[i].kind = "call", Readable(cursors[i].file)
  PROVE  Agree(Around(cursors)[cursors[i].parent], BodyOf(cursors)[cursors[i].parent])
<1> DEFINE p == cursors[i].parent
<1>1. /\ Len(cursors) \in Nat /\ DOMAIN cursors = 1..Len(cursors)
      /\ p \in 0..(i - 1)
  BY TreeOfCursors DEF CursorsOK, IsTree
<1>2. p \in 0..Len(cursors)
  BY <1>1
<1>3. p # 0 => Readable(cursors[p].file)
  BY <1>1, SameFileBelow
<1>4. \A k \in Above(cursors)[p] : Declares(cursors[k]) => cursors[k].body
  BY DEF CursorsOK, CursorOK
<1> HIDE DEF p
<1>5. Agree(Around(cursors)[p], BodyOf(cursors)[p])
  BY <1>2, <1>3, <1>4, EnclosingIsBody
<1>6. QED BY <1>5 DEF p

(* The calls the index records are those.                                   *)
LEMMA CallSitesAre ==
  ASSUME NEW cursors, CursorsOK(cursors)
  PROVE  /\ \A v \in CallSites(Walked(cursors)) : \E i \in DOMAIN cursors :
              v.cursor = cursors[i] /\ CallIn(cursors, i) /\ v.enclosing = CallerIn(cursors, i)
         /\ \A i \in DOMAIN cursors : CallIn(cursors, i) =>
              \E v \in CallSites(Walked(cursors)) :
                  v.cursor = cursors[i] /\ v.enclosing = CallerIn(cursors, i)
<1>1. ASSUME NEW v \in CallSites(Walked(cursors))
      PROVE  \E i \in DOMAIN cursors : /\ v.cursor = cursors[i] /\ CallIn(cursors, i)
                                       /\ v.enclosing = CallerIn(cursors, i)
  <2>1. /\ v \in Walked(cursors) /\ v.cursor.kind = "call" /\ v.enclosing # None
        /\ Readable(v.cursor.file)
    BY DEF CallSites, OfKind
  <2>2. PICK i \in DOMAIN cursors : /\ v.cursor = cursors[i]
                                    /\ v.enclosing = Around(cursors)[cursors[i].parent]
    BY <2>1, WalkedIs
  <2>3. Agree(v.enclosing, BodyOf(cursors)[cursors[i].parent])
    BY <2>1, <2>2, CallIsEnclosed
  <2>4. QED BY <2>1, <2>2, <2>3 DEF Agree, CallIn, CallerIn
<1>2. ASSUME NEW i \in DOMAIN cursors, CallIn(cursors, i)
      PROVE  \E v \in CallSites(Walked(cursors)) : /\ v.cursor = cursors[i]
                                                   /\ v.enclosing = CallerIn(cursors, i)
  <2> DEFINE v == [cursor |-> cursors[i], enclosing |-> Around(cursors)[cursors[i].parent]]
  <2>1. cursors[i].kind = "call" /\ Readable(cursors[i].file)
    BY <1>2 DEF CallIn
  <2>2. v \in Walked(cursors) /\ v.cursor = cursors[i]
        /\ v.enclosing = Around(cursors)[cursors[i].parent]
    BY <2>1, WalkedIs DEF Readable
  <2>3. Agree(v.enclosing, BodyOf(cursors)[cursors[i].parent])
    BY <2>1, <2>2, CallIsEnclosed
  <2> HIDE DEF v
  <2>4. v.enclosing = CallerIn(cursors, i) /\ v.enclosing # None
    BY <1>2, <2>3 DEF Agree, CallIn, CallerIn
  <2>5. v \in CallSites(Walked(cursors))
    BY <2>1, <2>2, <2>4 DEF CallSites, OfKind
  <2>6. QED BY <2>2, <2>4, <2>5
<1>3. QED BY <1>1, <1>2

(* The classes of a unit.                                                   *)
LEMMA BasesAre ==
  ASSUME NEW cursors, CursorsOK(cursors), NEW b \in Bases(Walked(cursors))
  PROVE  \E i \in DOMAIN cursors :
            /\ cursors[i].kind = "base"
            /\ b = <<<<Global, cursors[cursors[i].parent].name>>, <<Global, cursors[i].target.name>>>>
<1>1. PICK v \in Walked(cursors) : /\ v.cursor.kind = "base" /\ v.enclosing # None
                                   /\ b = <<v.enclosing, Usr(v.cursor.target)>>
  BY DEF Bases, OfKind
<1>2. PICK i \in DOMAIN cursors : /\ v.cursor = cursors[i]
                                  /\ v.enclosing = Around(cursors)[cursors[i].parent]
  BY WalkedIs
<1> DEFINE p == cursors[i].parent
<1>3. ClassesOK(cursors, i) /\ cursors[i].kind = "base"
  BY <1>1, <1>2 DEF CursorsOK
<1>4. /\ p # 0 /\ IsClass(cursors[p]) /\ cursors[p].body
      /\ IsClass(cursors[i].target)
  BY <1>3 DEF ClassesOK
<1>5. Len(cursors) \in Nat /\ DOMAIN cursors = 1..Len(cursors)
  BY TreeOfCursors DEF CursorsOK
<1>6. p \in 1..Len(cursors)
  BY <1>4, <1>5, SameFileBelow
<1>7. Readable(cursors[p].file)
  BY <1>1, <1>2, <1>5, <1>6, UnreadEnclosesNothing
<1>8. Declares(cursors[p])
  BY <1>4 DEF IsClass, Declares, SymbolKinds
<1>9. Encloses(cursors, p)
  BY <1>4, <1>6, <1>7, <1>8, BodyEncloses
<1>10. Around(cursors)[p] = Usr(cursors[p])
  BY <1>6, <1>9, AroundIs DEF CursorsOK
<1>11. Local # Global
  BY IndexAssumption
<1>12. /\ Usr(cursors[p]) = <<Global, cursors[p].name>>
       /\ Usr(cursors[i].target) = <<Global, cursors[i].target.name>>
  BY <1>4, <1>11 DEF Usr, IsClass
<1>13. b = <<<<Global, cursors[p].name>>, <<Global, cursors[i].target.name>>>>
  BY <1>1, <1>2, <1>10, <1>12
<1>14. QED BY <1>3, <1>13

(* The virtual methods a unit declares.                                     *)
LEMMA VirtualMethodsAre ==
  ASSUME NEW cursors, CursorsOK(cursors)
  PROVE  /\ \A m \in VirtualMethods(Walked(cursors)) : \E i \in DOMAIN cursors :
              /\ cursors[i].kind = "method" /\ Readable(cursors[i].file)
              /\ m = Entity(cursors[i])
         /\ \A i \in DOMAIN cursors :
              cursors[i].kind = "method" /\ cursors[i].virtual /\ Readable(cursors[i].file)
                => Entity(cursors[i]) \in VirtualMethods(Walked(cursors))
<1> DEFINE found == {v \in OfKind(Walked(cursors), "method") :
                       v.cursor.virtual /\ Readable(v.cursor.file)}
<1>1. VirtualMethods(Walked(cursors)) = {Entity(v.cursor) : v \in found}
  BY UsrIsEntity DEF VirtualMethods
<1>2. ASSUME NEW v \in found
      PROVE  \E i \in DOMAIN cursors : /\ cursors[i].kind = "method" /\ Readable(cursors[i].file)
                                       /\ Entity(v.cursor) = Entity(cursors[i])
  BY WalkedIs DEF OfKind
<1>3. ASSUME NEW i \in DOMAIN cursors,
             cursors[i].kind = "method", cursors[i].virtual, Readable(cursors[i].file)
      PROVE  \E v \in found : v.cursor = cursors[i]
  <2> DEFINE v == [cursor |-> cursors[i], enclosing |-> Around(cursors)[cursors[i].parent]]
  <2>1. v \in Walked(cursors) /\ v.cursor = cursors[i]
    BY <1>3, WalkedIs DEF Readable
  <2> HIDE DEF v
  <2>2. v \in found
    BY <1>3, <2>1 DEF OfKind
  <2>3. QED BY <2>1, <2>2
<1> HIDE DEF found
<1>4. QED BY <1>1, <1>2, <1>3

(* A unit has so many bases.                                                *)
LEMMA BasesFinite ==
  ASSUME NEW cursors, CursorsOK(cursors)
  PROVE  IsFiniteSet(Bases(Walked(cursors)))
<1> DEFINE D == DOMAIN cursors
           f == [i \in D |-> <<Around(cursors)[cursors[i].parent], Usr(cursors[i].target)>>]
           T == {f[i] : i \in D}
<1>1. IsFiniteSet(D)
  BY TreeOfCursors, CountUpTo DEF CursorsOK
<1>2. f \in [D -> T] /\ \A z \in T : \E i \in D : f[i] = z
  OBVIOUS
<1>3. Bases(Walked(cursors)) \subseteq T
  <2>1. SUFFICES ASSUME NEW b \in Bases(Walked(cursors)) PROVE b \in T
    OBVIOUS
  <2>2. PICK v \in Walked(cursors) : b = <<v.enclosing, Usr(v.cursor.target)>>
    BY DEF Bases, OfKind
  <2>3. QED BY <2>2, WalkedIs
<1> HIDE DEF f, T, D
<1>4. IsFiniteSet(T)
  BY <1>1, <1>2, CountImage
<1>5. QED BY <1>3, <1>4, FS_Subset

(* What is derived from a class is in whatever is closed under deriving.    *)
LEMMA DerivedWithin ==
  ASSUME NEW bases, IsFiniteSet(bases), NEW class, NEW family, class \in family,
         \A b \in bases : b[2] \in family => b[1] \in family
  PROVE  DerivedFrom(bases, class) \subseteq family
<1> DEFINE n == Cardinality(bases)
           V == SUBSET ({class} \cup {b[1] : b \in bases})
           Value(k) == k \cup {b[1] : b \in {x \in bases : x[2] \in k}}
           step == [ik \in (1..n) \X V |-> Value(ik[2])]
           Is(f) == f = [i \in 0..n |->
                           IF i = 0 THEN {class}
                           ELSE f[i - 1] \cup {b[1] : b \in {x \in bases : x[2] \in f[i - 1]}}]
           within == CHOOSE f : Is(f)
           S == {i \in 0..n : within[i] \subseteq family}
<1>1. n \in Nat
  BY FS_CardinalityType
<1>2. {class} \in V /\ \A k \in V : Value(k) \in V
  OBVIOUS
<1>3. DerivedFrom(bases, class) = within[n] \ {class}
  BY DEF DerivedFrom
<1> HIDE DEF n, V
<1>4. step \in Steps(n, V) /\ \A i \in 1..n, k \in V : step[<<i, k>>] = Value(k)
  BY <1>2 DEF Steps
<1> HIDE DEF step
<1>5. 0 \in 0..n /\ n \in 0..n /\ \A i \in 1..n : i \in 0..n /\ i - 1 \in 0..n /\ i # 0
  BY <1>1
<1>6. PICK g : IsRecursive(g, n, V, {class}, step)
  BY <1>1, <1>2, <1>4, ByRecursion
<1>7. /\ g \in [0..n -> V] /\ g[0] = {class}
      /\ \A i \in 1..n : g[i] = Value(g[i - 1])
  <2>1. \A i \in 1..n : g[i] = step[<<i, g[i - 1]>>] /\ g[i - 1] \in V
    BY <1>5, <1>6 DEF IsRecursive
  <2> HIDE DEF Value
  <2>2. QED BY <1>4, <1>6, <2>1 DEF IsRecursive
<1>8. \A i \in 0..n : i = 0 \/ i \in 1..n
  BY <1>1
<1>9. Is(g)
  BY <1>5, <1>7, <1>8
<1>10. Is(within)
  BY <1>9
<1> HIDE DEF within
<1>11. within[0] = {class} /\ \A i \in 1..n : within[i] = Value(within[i - 1])
  BY <1>5, <1>10
<1>12. 0 \in S /\ \A i \in 1..n : i - 1 \in S => i \in S
  BY <1>5, <1>11
<1> HIDE DEF S
<1>13. \A i \in 0..n : i \in S
  BY <1>1, <1>12, UpTo
<1>14. QED BY <1>3, <1>5, <1>13 DEF S

(* Whom an edge names, of what its call says.                               *)
CalleeOf(cursors, c, callee) ==
    \/ (c.target = None \/ c.target.kind \notin Callable) /\ callee = None
    \/ c.target # None /\ c.target.kind \in Callable /\ callee = Entity(c.target)
    \/ /\ c.target # None /\ c.target.kind = "method" /\ c.target.virtual
       /\ \E k \in DOMAIN cursors : /\ cursors[k].kind = "method" /\ Readable(cursors[k].file)
                                    /\ callee = Entity(cursors[k])
       /\ callee[2] = Entity(c.target)[2]
       /\ ClassOf(callee) \in DerivedFrom(Bases(Walked(cursors)), ClassOf(Entity(c.target)))

(* Every edge is of a call that is written in a body.                       *)
EdgeOfCall(cursors, e, i) ==
    /\ CallIn(cursors, i)
    /\ e.site = RegionOf(cursors[i]) /\ e.caller = CallerIn(cursors, i)
    /\ CalleeOf(cursors, cursors[i], e.callee)

(* No edge is invented.                                                     *)
LEMMA EdgesOf ==
  ASSUME NEW cursors, CursorsOK(cursors), NEW e \in CallsIn(Walked(cursors))
  PROVE  \E i \in DOMAIN cursors : EdgeOfCall(cursors, e, i)
<1> DEFINE W == Walked(cursors)
<1>1. PICK v \in CallSites(W) :
         \/ Unresolved(v) /\ e = Edge(v, None, "function_pointer", FALSE)
         \/ ~Unresolved(v) /\ \E kind : e = Edge(v, Usr(v.cursor.target), kind, FALSE)
         \/ Dispatched(v) /\ \E m \in Overrides(W, v) : e = Edge(v, m, "virtual", TRUE)
  BY DEF CallsIn, Dispatched
<1>2. PICK i \in DOMAIN cursors : /\ v.cursor = cursors[i] /\ CallIn(cursors, i)
                                  /\ v.enclosing = CallerIn(cursors, i)
  BY CallSitesAre
<1> DEFINE c == cursors[i]
<1>3. e.site = RegionOf(c) /\ e.caller = CallerIn(cursors, i)
  BY <1>1, <1>2 DEF Edge
<1>4. CalleeOf(cursors, c, e.callee)
  <2>1. CASE Unresolved(v) /\ e = Edge(v, None, "function_pointer", FALSE)
    <3>1. e.callee = None
      BY <2>1 DEF Edge
    <3>2. QED BY <1>2, <2>1, <3>1 DEF Unresolved, CalleeOf
  <2>2. CASE ~Unresolved(v) /\ \E kind : e = Edge(v, Usr(v.cursor.target), kind, FALSE)
    <3>1. e.callee = Entity(c.target)
      BY <1>2, <2>2, UsrIsEntity DEF Edge
    <3>2. QED BY <1>2, <2>2, <3>1 DEF Unresolved, CalleeOf
  <2>3. CASE Dispatched(v) /\ \E m \in Overrides(W, v) : e = Edge(v, m, "virtual", TRUE)
    <3>1. PICK m \in Overrides(W, v) : e.callee = m
      BY <2>3 DEF Edge
    <3>2. /\ m \in VirtualMethods(W) /\ m[2] = Entity(c.target)[2]
          /\ ClassOf(m) \in DerivedFrom(Bases(W), ClassOf(Entity(c.target)))
      BY <1>2, UsrIsEntity DEF Overrides
    <3>3. \E k \in DOMAIN cursors : /\ cursors[k].kind = "method" /\ Readable(cursors[k].file)
                                    /\ m = Entity(cursors[k])
      BY <3>2, VirtualMethodsAre
    <3>4. c.target # None /\ c.target.kind = "method" /\ c.target.virtual
      BY <1>2, <2>3 DEF Dispatched, Unresolved
    <3>5. QED BY <3>1, <3>2, <3>3, <3>4 DEF CalleeOf
  <2>4. QED BY <1>1, <2>1, <2>2, <2>3
<1>5. QED BY <1>2, <1>3, <1>4 DEF EdgeOfCall

(* Every call that is written in a body has its edge.                       *)
LEMMA EdgeFor ==
  ASSUME NEW cursors, CursorsOK(cursors), NEW i \in DOMAIN cursors, CallIn(cursors, i)
  PROVE  \E e \in CallsIn(Walked(cursors)) :
            /\ e.site = RegionOf(cursors[i])
            /\ e.callee = IF cursors[i].target = None \/ cursors[i].target.kind \notin Callable
                          THEN None ELSE Entity(cursors[i].target)
<1> DEFINE W == Walked(cursors)
<1>1. PICK v \in CallSites(W) : v.cursor = cursors[i]
  BY CallSitesAre
<1> DEFINE mine == IF Unresolved(v) THEN {Edge(v, None, "function_pointer", FALSE)}
                   ELSE IF Dispatched(v)
                   THEN {Edge(v, Usr(v.cursor.target), "virtual", FALSE)}
                        \cup {Edge(v, m, "virtual", TRUE) : m \in Overrides(W, v)}
                   ELSE {Edge(v, Usr(v.cursor.target),
                              IF FromMacro(W, v) THEN "macro_expanded" ELSE "direct", FALSE)}
           callee == IF Unresolved(v) THEN None ELSE Usr(v.cursor.target)
<1>2. mine \subseteq CallsIn(W)
  BY DEF CallsIn
<1>3. \E kind : Edge(v, callee, kind, FALSE) \in mine
  <2>1. CASE Unresolved(v)
    BY <2>1
  <2>2. CASE ~Unresolved(v) /\ Dispatched(v)
    BY <2>2
  <2>3. CASE ~Unresolved(v) /\ ~Dispatched(v)
    BY <2>3
  <2>4. QED BY <2>1, <2>2, <2>3
<1> HIDE DEF mine
<1>4. PICK kind : Edge(v, callee, kind, FALSE) \in CallsIn(W)
  BY <1>2, <1>3
<1>5. callee = IF cursors[i].target = None \/ cursors[i].target.kind \notin Callable
               THEN None ELSE Entity(cursors[i].target)
  BY <1>1, UsrIsEntity DEF Unresolved
<1> HIDE DEF callee
<1>6. QED BY <1>1, <1>4, <1>5 DEF Edge

(* A virtual call to a method of the tree is told.                          *)
LEMMA VirtualIsTold ==
  ASSUME NEW cursors, CursorsOK(cursors), NEW i \in DOMAIN cursors, CallIn(cursors, i),
         cursors[i].target # None, cursors[i].target.kind = "method",
         cursors[i].target.virtual, Readable(cursors[i].target.file)
  PROVE  Limit("unresolved_indirect_call", cursors[i].file, cursors[i].lines[1])
           \in Indirect(Walked(cursors))
<1> DEFINE W == Walked(cursors)
           t == cursors[i].target
<1>1. PICK v \in CallSites(W) : v.cursor = cursors[i]
  BY CallSitesAre
<1>2. Dispatched(v)
  BY <1>1 DEF Dispatched, Unresolved, Callable
<1>3. PICK j \in DOMAIN cursors :
         /\ cursors[j].kind = "method" /\ cursors[j].virtual
         /\ Readable(cursors[j].file) /\ Entity(cursors[j]) = Entity(t)
  BY DEF CursorsOK, ClassesOK
<1>4. Entity(t) \in VirtualMethods(W)
  BY <1>3, VirtualMethodsAre
<1>5. KnownClass(W, ClassOf(Usr(v.cursor.target)))
  BY <1>1, <1>4, UsrIsEntity DEF KnownClass
<1> DEFINE told == {x \in CallSites(W) :
                      \/ Unresolved(x)
                      \/ Dispatched(x) /\ KnownClass(W, ClassOf(Usr(x.cursor.target)))}
<1>6. v \in told
  BY <1>2, <1>5
<1>7. Indirect(W) = {Limit("unresolved_indirect_call", x.cursor.file, x.cursor.lines[1]) : x \in told}
  BY DEF Indirect
<1> HIDE DEF told, W
<1>8. QED BY <1>1, <1>6, <1>7 DEF W

-----------------------------------------------------------------------------
(* The merge, step by step.                                                 *)
(* What the results merged so far have made, of what the units hold.        *)
SightingsOf(outcome, unit) ==
    IF outcome = "parsed" /\ unit.error = None
    THEN SightedUpTo(unit.cursors, Len(unit.cursors)) ELSE {}

MergedUpTo(known, n, outcomes, units) ==
    /\ known = [units |-> known.units, symbols |-> known.symbols, calls |-> known.calls,
                macros |-> known.macros, includes |-> known.includes, types |-> known.types,
                globals |-> known.globals, limitations |-> known.limitations]
    /\ known.units \in Seq(Statuses \cup {"indexed", "failed"}) /\ Len(known.units) = n
    /\ \A p \in 1..n :
         known.units[p] = UnitStatus(outcomes[p], ResultFor(outcomes[p], p, units[p]))
    /\ known.calls = UNION {ResultFor(outcomes[p], p, units[p]).calls : p \in 1..n}
    /\ known.limitations = UNION {ResultFor(outcomes[p], p, units[p]).limitations : p \in 1..n}
    /\ IsTableOf(known.symbols, UNION {SightingsOf(outcomes[p], units[p]) : p \in 1..n})

(* The inductive invariant of the merge.                                    *)
MergeInv ==
    /\ absorbed \in 0..Units
    /\ ~Running => AllCollected
    /\ program = None => absorbed = 0
    /\ program # None => program \in Programs /\ ~Running
    /\ MergedUpTo(index, absorbed, collected, program)

(* One result: the unit's edges, limitations and symbols, or that it failed. *)
LEMMA ResultIs ==
  ASSUME NEW outcome, NEW p, NEW unit, UnitOK(unit)
  PROVE  /\ outcome = "parsed" /\ unit.error = None =>
              /\ ResultFor(outcome, p, unit).ok
              /\ ResultFor(outcome, p, unit).calls = CallsIn(Walked(unit.cursors))
              /\ Indirect(Walked(unit.cursors)) \subseteq ResultFor(outcome, p, unit).limitations
         /\ ~(outcome = "parsed" /\ unit.error = None) =>
              /\ ~ResultFor(outcome, p, unit).ok
              /\ ResultFor(outcome, p, unit).calls = {}
              /\ Limit("parse_failed", p, 0) \in ResultFor(outcome, p, unit).limitations
         /\ IsTableOf(ResultFor(outcome, p, unit).symbols, SightingsOf(outcome, unit))
<1> DEFINE R == ResultFor(outcome, p, unit)
           cursors == unit.cursors
<1>1. CASE outcome = "parsed" /\ unit.error = None
  <2>1. /\ R.ok /\ R.calls = CallsIn(Walked(cursors))
        /\ R.limitations = Indirect(Walked(cursors)) \cup Opaque(Walked(cursors))
        /\ R.symbols = SymbolsIn(cursors)[Len(cursors)]
    BY <1>1 DEF ResultFor, ParseRequest
  <2> HIDE DEF R
  <2>2. CursorsOK(cursors)
    BY UnitIsTree
  <2>3. Len(cursors) \in 0..Len(cursors)
    <3>1. Len(cursors) \in Nat
      BY <2>2, TreeOfCursors DEF CursorsOK
    <3>2. QED BY <3>1
  <2>4. IsTableOf(SymbolsIn(cursors)[Len(cursors)], SightedUpTo(cursors, Len(cursors)))
    BY <2>2, <2>3, SymbolsAreSighted
  <2>5. IsTableOf(R.symbols, SightingsOf(outcome, unit))
    BY <1>1, <2>1, <2>4 DEF SightingsOf
  <2>6. QED BY <1>1, <2>1, <2>5 DEF R
<1>2. CASE ~(outcome = "parsed" /\ unit.error = None)
  <2>1. \E limitations : R = Nothing(limitations) /\ Limit("parse_failed", p, 0) \in limitations
    <3>1. CASE outcome = "parsed"
      <4>1. R = Nothing(FailureLimitations(p, unit.error))
        BY <1>2, <3>1 DEF ResultFor, ParseRequest
      <4>2. Limit("parse_failed", p, 0) \in FailureLimitations(p, unit.error)
        BY DEF FailureLimitations
      <4>3. QED BY <4>1, <4>2
    <3>2. CASE outcome # "parsed"
      BY <3>2 DEF ResultFor
    <3>3. QED BY <3>1, <3>2
  <2>2. /\ ~R.ok /\ R.calls = {} /\ R.symbols = << >>
        /\ Limit("parse_failed", p, 0) \in R.limitations
    BY <2>1 DEF Nothing
  <2> HIDE DEF R
  <2>3. SightingsOf(outcome, unit) = {}
    BY <1>2 DEF SightingsOf
  <2>4. IsTableOf(<< >>, {})
    BY DEF IsTableOf
  <2>5. IsTableOf(R.symbols, SightingsOf(outcome, unit))
    BY <2>2, <2>3, <2>4, Zenon
  <2>6. QED BY <1>2, <2>2, <2>5 DEF R
<1>3. QED BY <1>1, <1>2

(* The index before the first result.                                       *)
LEMMA NothingMerged ==
  ASSUME NEW outcomes, NEW units
  PROVE  MergedUpTo(EmptyIndex, 0, outcomes, units)
<1>1. /\ EmptyIndex.units = << >> /\ EmptyIndex.symbols = << >>
      /\ EmptyIndex.calls = {} /\ EmptyIndex.limitations = {}
      /\ EmptyIndex = [units |-> EmptyIndex.units, symbols |-> EmptyIndex.symbols,
                       calls |-> EmptyIndex.calls, macros |-> EmptyIndex.macros,
                       includes |-> EmptyIndex.includes, types |-> EmptyIndex.types,
                       globals |-> EmptyIndex.globals, limitations |-> EmptyIndex.limitations]
  BY DEF EmptyIndex
<1>2. \A p : p \notin 1..0
  OBVIOUS
<1>3. UNION {SightingsOf(outcomes[p], units[p]) : p \in 1..0} = {}
  BY <1>2
<1>4. IsTableOf(<< >>, {})
  BY DEF IsTableOf
<1>5. IsTableOf(EmptyIndex.symbols, UNION {SightingsOf(outcomes[p], units[p]) : p \in 1..0})
  BY <1>1, <1>3, <1>4, Zenon
<1>6. << >> \in Seq(Statuses \cup {"indexed", "failed"}) /\ Len(<< >>) = 0
  OBVIOUS
<1>7. QED BY <1>1, <1>2, <1>5, <1>6 DEF MergedUpTo

(* One more result.                                                         *)
LEMMA AbsorbIs ==
  ASSUME NEW known, NEW status, NEW result,
         known = [units |-> known.units, symbols |-> known.symbols, calls |-> known.calls,
                  macros |-> known.macros, includes |-> known.includes, types |-> known.types,
                  globals |-> known.globals, limitations |-> known.limitations],
         NEW S, IsTableOf(known.symbols, S), NEW T, IsTableOf(result.symbols, T),
         ~result.ok => result.calls = {} /\ T = {}
  PROVE  LET new == Absorb(known, status, result)
         IN /\ new = [units |-> new.units, symbols |-> new.symbols, calls |-> new.calls,
                      macros |-> new.macros, includes |-> new.includes, types |-> new.types,
                      globals |-> new.globals, limitations |-> new.limitations]
            /\ new.units = Append(known.units, status)
            /\ new.calls = known.calls \cup result.calls
            /\ new.limitations = known.limitations \cup result.limitations
            /\ IsTableOf(new.symbols, S \cup T)
<1> DEFINE new == Absorb(known, status, result)
<1>1. CASE ~result.ok
  <2> DEFINE u == Append(known.units, status)
             l == known.limitations \cup result.limitations
             with == [known EXCEPT !.units = u]
  <2>1. new = [with EXCEPT !.limitations = l]
    BY <1>1 DEF Absorb
  <2> HIDE DEF u, l
  <2>2. with = [units |-> u, symbols |-> known.symbols, calls |-> known.calls,
                macros |-> known.macros, includes |-> known.includes, types |-> known.types,
                globals |-> known.globals, limitations |-> known.limitations]
    OBVIOUS
  <2> HIDE DEF new, with
  <2>3. new = [units |-> u, symbols |-> known.symbols, calls |-> known.calls,
               macros |-> known.macros, includes |-> known.includes, types |-> known.types,
               globals |-> known.globals, limitations |-> l]
    BY <2>1, <2>2
  <2>4. /\ new = [units |-> new.units, symbols |-> new.symbols, calls |-> new.calls,
                  macros |-> new.macros, includes |-> new.includes, types |-> new.types,
                  globals |-> new.globals, limitations |-> new.limitations]
        /\ new.units = u /\ new.symbols = known.symbols /\ new.calls = known.calls
        /\ new.limitations = l
    BY <2>3
  <2>5. S \cup T = S /\ known.calls \cup result.calls = known.calls
    BY <1>1
  <2>6. IsTableOf(new.symbols, S \cup T)
    BY <2>4, <2>5, Zenon
  <2>7. QED BY <2>4, <2>5, <2>6 DEF u, l, new
<1>2. CASE result.ok
  <2>1. new = Extended(known, status, result, result.limitations)
    BY <1>2 DEF Absorb
  <2> HIDE DEF new
  <2>2. /\ new = [units |-> new.units, symbols |-> new.symbols, calls |-> new.calls,
                  macros |-> new.macros, includes |-> new.includes, types |-> new.types,
                  globals |-> new.globals, limitations |-> new.limitations]
        /\ new.units = Append(known.units, status)
        /\ new.symbols = MergedTables(known.symbols, result.symbols)
        /\ new.calls = known.calls \cup result.calls
        /\ new.limitations = known.limitations \cup result.limitations
    BY <2>1 DEF Extended
  <2>3. IsTableOf(MergedTables(known.symbols, result.symbols), S \cup T)
    BY MergedTablesShow
  <2>4. IsTableOf(new.symbols, S \cup T)
    BY <2>2, <2>3
  <2>5. QED BY <2>2, <2>4 DEF new
<1>3. QED BY <1>1, <1>2

(* One more result in the merged index.                                     *)
LEMMA AbsorbMerges ==
  ASSUME NEW known, NEW n \in Nat, NEW outcomes, NEW units, MergedUpTo(known, n, outcomes, units),
         outcomes[n + 1] \in Statuses, UnitOK(units[n + 1])
  PROVE  LET p == n + 1
             result == ResultFor(outcomes[p], p, units[p])
         IN MergedUpTo(Absorb(known, UnitStatus(outcomes[p], result), result), p, outcomes, units)
<1> DEFINE p == n + 1
           R(q) == ResultFor(outcomes[q], q, units[q])
           result == R(p)
           status == UnitStatus(outcomes[p], result)
           new == Absorb(known, status, result)
           Made(q) == SightingsOf(outcomes[q], units[q])
           S == UNION {Made(q) : q \in 1..n}
           T == Made(p)
<1>1. /\ known = [units |-> known.units, symbols |-> known.symbols, calls |-> known.calls,
                macros |-> known.macros, includes |-> known.includes, types |-> known.types,
                globals |-> known.globals, limitations |-> known.limitations]
      /\ known.units \in Seq(Statuses \cup {"indexed", "failed"}) /\ Len(known.units) = n
      /\ \A q \in 1..n : known.units[q] = UnitStatus(outcomes[q], R(q))
      /\ known.calls = UNION {R(q).calls : q \in 1..n}
      /\ known.limitations = UNION {R(q).limitations : q \in 1..n}
      /\ IsTableOf(known.symbols, S)
  BY DEF MergedUpTo
<1>2. IsTableOf(result.symbols, T)
  BY ResultIs
<1>3. ~result.ok => result.calls = {} /\ T = {}
  <2>1. ASSUME ~result.ok PROVE ~(outcomes[p] = "parsed" /\ units[p].error = None)
    BY <2>1, ResultIs
  <2>2. ASSUME ~result.ok PROVE result.calls = {}
    BY <2>1, <2>2, ResultIs
  <2>3. ASSUME ~result.ok PROVE T = {}
    BY <2>1, <2>3 DEF SightingsOf
  <2>4. QED BY <2>2, <2>3
<1>4. status \in Statuses \cup {"indexed", "failed"}
  BY DEF UnitStatus
<1>5. \A q : q \in 1..p <=> q \in 1..n \/ q = p
  OBVIOUS
<1> HIDE DEF result, status, S, T, p
<1>6. /\ new = [units |-> new.units, symbols |-> new.symbols, calls |-> new.calls,
                macros |-> new.macros, includes |-> new.includes, types |-> new.types,
                globals |-> new.globals, limitations |-> new.limitations]
      /\ new.units = Append(known.units, status)
      /\ new.calls = known.calls \cup result.calls
      /\ new.limitations = known.limitations \cup result.limitations
      /\ IsTableOf(new.symbols, S \cup T)
  BY <1>1, <1>2, <1>3, AbsorbIs
<1> HIDE DEF new
<1>7. /\ new.units \in Seq(Statuses \cup {"indexed", "failed"}) /\ Len(new.units) = p
      /\ \A q \in 1..p : new.units[q] = UnitStatus(outcomes[q], R(q))
  <2>1. /\ new.units \in Seq(Statuses \cup {"indexed", "failed"}) /\ Len(new.units) = n + 1
        /\ new.units[n + 1] = status /\ \A q \in 1..n : new.units[q] = known.units[q]
    BY <1>1, <1>4, <1>6
  <2>2. p = n + 1 /\ status = UnitStatus(outcomes[p], R(p))
    BY DEF p, status, result
  <2> HIDE DEF R
  <2>3. QED BY <1>1, <1>5, <2>1, <2>2
<1>8. new.calls = UNION {R(q).calls : q \in 1..p}
  <2>1. result = R(p)
    BY DEF result
  <2> HIDE DEF R
  <2>2. QED BY <1>1, <1>5, <1>6, <2>1
<1>9. new.limitations = UNION {R(q).limitations : q \in 1..p}
  <2>1. result = R(p)
    BY DEF result
  <2> HIDE DEF R
  <2>2. QED BY <1>1, <1>5, <1>6, <2>1
<1>10. S \cup T = UNION {Made(q) : q \in 1..p}
  <2>1. T = Made(p) /\ S = UNION {Made(q) : q \in 1..n}
    BY DEF S, T
  <2> HIDE DEF Made
  <2>2. QED BY <1>5, <2>1
<1>11. IsTableOf(new.symbols, UNION {Made(q) : q \in 1..p})
  <2> HIDE DEF Made
  <2>1. QED BY <1>6, <1>10, Zenon
<1>12. MergedUpTo(new, p, outcomes, units)
  BY <1>6, <1>7, <1>8, <1>9, <1>11 DEF MergedUpTo
<1>13. QED BY <1>12 DEF new, p, result, status

IndexInv == PoolInv /\ MergeInv

(* The pool has stopped for good, and only with every result.               *)
LEMMA StoppedForGood ==
  ASSUME PoolInv, Next
  PROVE  /\ ~Running => UNCHANGED vars
         /\ ~Running' => ~Running \/ (AllCollected /\ UNCHANGED collected)
<1>1. ASSUME NEW w \in Workers,
             Dispatch(w) \/ PassOver(w) \/ Collect(w) \/ CollectEof(w) \/ StopOverrun(w)
               \/ ReplaceDead(w) \/ LeaveAlone(w)
      PROVE  Running /\ Running'
  <2>1. \E phase \in {"dispatch", "collect", "enforce"} : Visit(w, phase)
    BY <1>1 DEF Dispatch, PassOver, Collect, CollectEof, StopOverrun, ReplaceDead, LeaveAlone
  <2>2. parent \in [phase : {"dispatch", "wait", "collect", "enforce", "done"},
                    todo : SUBSET Workers]
    BY DEF PoolInv, TypeOK
  <2>3. QED BY <2>1, <2>2 DEF Visit, Running
<1>2. ASSUME EndDispatch \/ Wait \/ EndCollect PROVE Running /\ Running'
  BY <1>2 DEF EndDispatch, Wait, EndCollect, Running
<1>3. ASSUME EndEnforce PROVE Running /\ (~Running' => AllCollected /\ UNCHANGED collected)
  BY <1>3 DEF EndEnforce, Running, parentVars
<1>4. ASSUME NEW w \in Workers, ChildStep(w) \/ DieBusy(w) \/ DieIdle(w) \/ Overrun(w)
      PROVE  Running /\ Running'
  BY <1>4 DEF ChildStep, Receive, Answer, DieBusy, DieIdle, Overrun, Running
<1>5. ASSUME ~Running /\ UNCHANGED vars PROVE ~Running /\ UNCHANGED vars
  BY <1>5
<1>6. QED BY <1>1, <1>2, <1>3, <1>4, <1>5 DEF Next, ParentStep

(* It holds before anything has run.                                        *)
LEMMA IndexInitInv == IndexInit => IndexInv
<1> SUFFICES ASSUME IndexInit PROVE IndexInv
  OBVIOUS
<1>1. PoolInv
  BY InitInv DEF IndexInit
<1>2. Running
  BY DEF IndexInit, Init, Running
<1>3. MergedUpTo(EmptyIndex, 0, collected, program)
  BY NothingMerged
<1>4. MergeInv
  BY <1>2, <1>3, PoolAssumption DEF IndexInit, MergeInv
<1>5. QED BY <1>1, <1>4 DEF IndexInv

(* The pool goes on, or its results are taken.                              *)
LEMMA PoolStepInv ==
  ASSUME IndexInv, Next, UNCHANGED indexVars
  PROVE  IndexInv'
<1>1. PoolInv'
  BY StepInv DEF IndexInv
<1>2. UNCHANGED <<program, index, absorbed>>
  BY DEF indexVars
<1>3. CASE Running
  <2>1. program = None /\ absorbed = 0
    BY <1>3 DEF IndexInv, MergeInv
  <2>2. MergedUpTo(index, 0, collected', program')
    <3>1. MergedUpTo(index, 0, collected, program)
      BY <2>1 DEF IndexInv, MergeInv
    <3>2. \A p : p \notin 1..0
      OBVIOUS
    <3>3. UNION {SightingsOf(collected'[p], program'[p]) : p \in 1..0}
            = UNION {SightingsOf(collected[p], program[p]) : p \in 1..0}
      BY <3>2
    <3>4. IsTableOf(index.symbols, UNION {SightingsOf(collected'[p], program'[p]) : p \in 1..0})
      <4>1. IsTableOf(index.symbols, UNION {SightingsOf(collected[p], program[p]) : p \in 1..0})
        BY <3>1 DEF MergedUpTo
      <4>2. QED BY <3>3, <4>1
    <3>5. QED BY <3>1, <3>2, <3>4 DEF MergedUpTo
  <2>3. ~Running' => AllCollected'
    <3>1. ~Running' => AllCollected /\ UNCHANGED collected
      BY <1>3, StoppedForGood DEF IndexInv
    <3>2. QED BY <3>1 DEF AllCollected
  <2>4. MergeInv'
    BY <1>2, <2>1, <2>2, <2>3 DEF IndexInv, MergeInv
  <2>5. QED BY <1>1, <2>4 DEF IndexInv
<1>4. CASE ~Running
  <2>1. UNCHANGED vars
    BY <1>4, StoppedForGood DEF IndexInv
  <2>2. UNCHANGED <<parent, collected>>
    BY <2>1 DEF vars
  <2>3. MergeInv'
    BY <1>2, <2>2 DEF IndexInv, MergeInv, Running, AllCollected
  <2>4. QED BY <1>1, <2>3 DEF IndexInv
<1>5. QED BY <1>3, <1>4

(* The results are taken from a pool that has them all.                     *)
LEMMA ReturnInv ==
  ASSUME IndexInv, ReturnResults
  PROVE  IndexInv'
<1>1. /\ ~Running /\ AllCollected /\ program = None /\ absorbed = 0 /\ program' \in Programs
      /\ UNCHANGED <<parent, pending, assigned, collected, index, absorbed>>
  BY DEF IndexInv, MergeInv, ReturnResults, parentVars
<1>2. PoolInv'
  <2> USE PoolAssumption DEF Message
  <2>1. /\ child' = [w \in Workers |-> "dead"] /\ jobs' = [w \in Workers |-> None]
        /\ work' = [w \in Workers |-> None] /\ results' = [w \in Workers |-> None]
        /\ late' = [w \in Workers |-> FALSE] /\ idleDeaths' = 0
        /\ events' = [p \in Positions |-> {collected[p]}]
    BY DEF ReturnResults
  <2>2. TypeOK /\ EachUnitInOnePlace
    BY DEF IndexInv, PoolInv
  <2>3. \A p \in Positions : collected[p] \in Statuses
    BY <1>1, <2>2 DEF TypeOK, AllCollected
  <2>4. \A w \in Workers : assigned[w] = None
    BY <1>1, <2>2 DEF TypeOK, AllCollected, EachUnitInOnePlace
  <2>5. TypeOK'
    BY <1>1, <2>1, <2>2, <2>3 DEF TypeOK
  <2>6. EachUnitInOnePlace'
    BY <1>1, <2>2 DEF EachUnitInOnePlace
  <2>7. ChildServesItsUnit'
    BY <2>1 DEF ChildServesItsUnit
  <2>8. ChildAccount'
    BY <1>1, <2>1, <2>4 DEF ChildAccount
  <2>9. ReportedAsItHappened'
    BY <1>1, <2>1 DEF ReportedAsItHappened
  <2>10. QED BY <2>5, <2>6, <2>7, <2>8, <2>9 DEF PoolInv
<1>3. MergedUpTo(index', 0, collected', program')
  <2>1. MergedUpTo(index, 0, collected, program)
    BY <1>1 DEF IndexInv, MergeInv
  <2>2. \A p : p \notin 1..0
    OBVIOUS
  <2>3. UNION {SightingsOf(collected[p], program'[p]) : p \in 1..0}
          = UNION {SightingsOf(collected[p], program[p]) : p \in 1..0}
    BY <2>2
  <2>4. IsTableOf(index.symbols, UNION {SightingsOf(collected[p], program'[p]) : p \in 1..0})
    <3>1. IsTableOf(index.symbols, UNION {SightingsOf(collected[p], program[p]) : p \in 1..0})
      BY <2>1 DEF MergedUpTo
    <3>2. QED BY <2>3, <3>1
  <2>5. QED BY <1>1, <2>1, <2>2, <2>4 DEF MergedUpTo
<1>4. MergeInv'
  <2>1. program' # None
    BY <1>1, IndexAssumption
  <2>2. QED BY <1>1, <1>3, <2>1 DEF IndexInv, MergeInv, Running, AllCollected
<1>5. QED BY <1>2, <1>4 DEF IndexInv

(* One more result.                                                         *)
LEMMA AbsorbInv ==
  ASSUME IndexInv, AbsorbNext
  PROVE  IndexInv'
<1> DEFINE p == absorbed + 1
           result == ResultFor(collected[p], p, program[p])
<1>1. /\ program # None /\ absorbed < Units /\ absorbed' = p
      /\ index' = Absorb(index, UnitStatus(collected[p], result), result)
      /\ UNCHANGED <<vars, program>>
  BY DEF AbsorbNext
<1>2. /\ absorbed \in 0..Units /\ program \in Programs /\ ~Running /\ AllCollected
      /\ MergedUpTo(index, absorbed, collected, program)
  BY <1>1 DEF IndexInv, MergeInv
<1>3. UNCHANGED <<parent, collected>>
  BY <1>1 DEF vars
<1>4. Units \in Nat
  BY PoolAssumption
<1>5. absorbed \in Nat /\ p \in Positions /\ p \in 0..Units
  BY <1>1, <1>2, <1>4 DEF Positions
<1>6. collected[p] \in Statuses
  BY <1>2, <1>5 DEF IndexInv, PoolInv, TypeOK, AllCollected
<1>7. UnitOK(program[p])
  BY <1>2, <1>5, IndexAssumption
<1>8. MergedUpTo(Absorb(index, UnitStatus(collected[p], result), result), p, collected, program)
  BY <1>2, <1>5, <1>6, <1>7, AbsorbMerges
<1> HIDE DEF p, result
<1>9. MergedUpTo(index', p, collected, program)
  BY <1>1, <1>8
<1>10. MergeInv'
  BY <1>1, <1>2, <1>3, <1>5, <1>9 DEF MergeInv, Running, AllCollected
<1>11. PoolInv'
  <2>1. [Next]_vars
    BY <1>1
  <2>2. QED BY <2>1, StepInv DEF IndexInv
<1>12. QED BY <1>10, <1>11 DEF IndexInv

(* Every step keeps it.                                                     *)
LEMMA IndexStepInv == IndexInv /\ [IndexNext]_<<vars, indexVars>> => IndexInv'
<1> SUFFICES ASSUME IndexInv, [IndexNext]_<<vars, indexVars>> PROVE IndexInv'
  OBVIOUS
<1>1. ASSUME UNCHANGED <<vars, indexVars>> PROVE IndexInv'
  <2>1. UNCHANGED <<program, index, absorbed, parent, collected>>
    BY <1>1 DEF vars, indexVars
  <2>2. MergeInv'
    BY <2>1 DEF IndexInv, MergeInv, Running, AllCollected
  <2>3. PoolInv'
    BY <1>1, StepInv DEF IndexInv
  <2>4. QED BY <2>2, <2>3 DEF IndexInv
<1>2. QED BY <1>1, PoolStepInv, ReturnInv, AbsorbInv DEF IndexNext

(* The invariant holds in every state, whatever the units hold.             *)
THEOREM IndexInvariant == IndexSpec => []IndexInv
  BY IndexInitInv, IndexStepInv, PTL DEF IndexSpec

(* The pool's book-keeping is true of its children until its results have   *)
(* been merged.                                                             *)
THEOREM PoolTrueToTheEnd == IndexSpec => []PoolIsTrue
<1>1. IndexInv => PoolIsTrue
  BY DEF IndexInv, PoolInv, PoolIsTrue
<1>2. QED BY <1>1, IndexInvariant, PTL

(* Nor does a unit's result change while the index is made of it.           *)
THEOREM ResultsFinalToTheEnd == IndexSpec => ResultsFinal
<1>1. IndexInv /\ [IndexNext]_<<vars, indexVars>>
        => [\A p \in Positions : collected[p] # None => collected'[p] = collected[p]]_vars
  <2> SUFFICES ASSUME IndexInv, [IndexNext]_<<vars, indexVars>>,
                      NEW p \in Positions, collected[p] # None
               PROVE  collected'[p] = collected[p]
    OBVIOUS
  <2>1. CASE Next \/ UNCHANGED vars
    BY <2>1, ResultStays DEF IndexInv
  <2>2. CASE ReturnResults
    BY <2>2 DEF ReturnResults, parentVars
  <2>3. CASE AbsorbNext
    BY <2>3 DEF AbsorbNext, vars
  <2>4. QED BY <2>1, <2>2, <2>3 DEF IndexNext
<1>2. QED BY <1>1, IndexInvariant, PTL DEF IndexSpec, ResultsFinal

-----------------------------------------------------------------------------
(* What a program names, its cursors and their targets name.                *)
LEMMA CursorsMention ==
  ASSUME NEW units, NEW p \in Positions, NEW i \in DOMAIN units[p].cursors
  PROVE  LET c == units[p].cursors[i]
         IN /\ c.kind \in SymbolKinds \cup {"macro"} => c \in Mentioned(units)
            /\ c.target # None /\ c.target.kind \in SymbolKinds \cup {"macro"} =>
                 c.target \in Mentioned(units)
<1> DEFINE cursors == UNION {{units[q].cursors[j] : j \in DOMAIN units[q].cursors} : q \in Positions}
           c == units[p].cursors[i]
<1>1. c \in cursors
  OBVIOUS
<1>2. c.target # None => c.target \in {d.target : d \in cursors} \ {None}
  BY <1>1
<1>3. Mentioned(units) = {d \in cursors \cup ({d.target : d \in cursors} \ {None}) :
                            d.kind \in SymbolKinds \cup {"macro"}}
  BY DEF Mentioned
<1> HIDE DEF cursors
<1>4. QED BY <1>1, <1>2, <1>3

(* The cursors of the units that are in the index.                          *)
LEMMA WrittenAre ==
  /\ \A w \in Written : /\ w[1] \in Positions /\ Indexed(w[1])
                        /\ w[2] \in DOMAIN Cursors(w[1]) /\ Readable(CursorAt(w).file)
  /\ \A p \in Positions : Indexed(p) =>
       \A i \in DOMAIN Cursors(p) : Readable(Cursors(p)[i].file) =>
          <<p, i>> \in Written /\ CursorAt(<<p, i>>) = Cursors(p)[i]
  BY DEF Written, CursorAt

(* The index once every result is in it.                                    *)
LEMMA BuiltUnits ==
  ASSUME IndexInv, Built
  PROVE  /\ program \in Programs /\ EntitiesOK(program) /\ LayoutOK(program)
         /\ \A p \in Positions :
              /\ UnitOK(program[p])
              /\ CursorsOK(Cursors(p))
              /\ Indexed(p) <=> (collected[p] = "parsed" /\ program[p].error = None)
<1>1. program \in Programs /\ AllCollected /\ MergedUpTo(index, Units, collected, program)
  BY DEF Built, IndexInv, MergeInv
<1>2. /\ EntitiesOK(program) /\ LayoutOK(program)
      /\ \A p \in Positions : UnitOK(program[p])
  BY <1>1, IndexAssumption
<1>3. \A p \in Positions : collected[p] \in Statuses
  BY <1>1 DEF IndexInv, PoolInv, TypeOK, AllCollected
<1>4. ASSUME NEW p \in Positions
      PROVE  Indexed(p) <=> (collected[p] = "parsed" /\ program[p].error = None)
  <2>1. index.units[p] = UnitStatus(collected[p], ResultFor(collected[p], p, program[p]))
    BY <1>1 DEF MergedUpTo, Positions
  <2>2. collected[p] = "parsed" /\ program[p].error = None
          => ResultFor(collected[p], p, program[p]).ok
    BY <1>2, ResultIs
  <2>3. ~(collected[p] = "parsed" /\ program[p].error = None)
          => ~ResultFor(collected[p], p, program[p]).ok
    BY <1>2, ResultIs
  <2>4. collected[p] # "indexed"
    BY <1>3 DEF Statuses
  <2>5. QED BY <2>1, <2>2, <2>3, <2>4 DEF Indexed, UnitStatus
<1>5. \A p \in Positions : CursorsOK(Cursors(p))
  BY <1>2, UnitIsTree DEF Cursors
<1>6. QED BY <1>1, <1>2, <1>4, <1>5

(* Its calls and limitations are those of the units.                        *)
LEMMA BuiltCalls ==
  ASSUME IndexInv, Built
  PROVE  /\ \A e \in index.calls : \E p \in Positions :
              Indexed(p) /\ e \in CallsIn(Walked(Cursors(p)))
         /\ \A p \in Positions : Indexed(p) =>
              /\ CallsIn(Walked(Cursors(p))) \subseteq index.calls
              /\ Indirect(Walked(Cursors(p))) \subseteq index.limitations
         /\ \A p \in Positions : ~Indexed(p) => Limit("parse_failed", p, 0) \in index.limitations
<1> DEFINE R(p) == ResultFor(collected[p], p, program[p])
<1>1. /\ index.calls = UNION {R(p).calls : p \in Positions}
      /\ index.limitations = UNION {R(p).limitations : p \in Positions}
  BY DEF Built, IndexInv, MergeInv, MergedUpTo, Positions
<1>2. ASSUME NEW p \in Positions
      PROVE  /\ Indexed(p) => /\ R(p).calls = CallsIn(Walked(Cursors(p)))
                              /\ Indirect(Walked(Cursors(p))) \subseteq R(p).limitations
             /\ ~Indexed(p) => /\ R(p).calls = {}
                               /\ Limit("parse_failed", p, 0) \in R(p).limitations
  <2>1. UnitOK(program[p])
    BY BuiltUnits
  <2>2. Indexed(p) <=> (collected[p] = "parsed" /\ program[p].error = None)
    BY BuiltUnits
  <2>3. QED BY <2>1, <2>2, ResultIs DEF Cursors
<1> HIDE DEF R
<1>3. QED BY <1>1, <1>2

(* Its symbols are those of the units.                                      *)
LEMMA BuiltSymbols ==
  ASSUME IndexInv, Built
  PROVE  \E sightings :
            /\ IsTableOf(index.symbols, sightings)
            /\ \A c \in sightings : \E w \in Written : c = CursorAt(w) /\ IsSymbol(c)
            /\ \A w \in Written : IsSymbol(CursorAt(w)) => CursorAt(w) \in sightings
<1> DEFINE sightings == UNION {SightingsOf(collected[p], program[p]) : p \in Positions}
<1>1. IsTableOf(index.symbols, sightings)
  BY DEF Built, IndexInv, MergeInv, MergedUpTo, Positions
<1>2. \A p \in Positions : SightingsOf(collected[p], program[p]) =
         IF Indexed(p) THEN SightedUpTo(Cursors(p), Len(Cursors(p))) ELSE {}
  BY BuiltUnits DEF SightingsOf, Cursors
<1>3. ASSUME NEW c \in sightings PROVE \E w \in Written : c = CursorAt(w) /\ IsSymbol(c)
  <2>1. PICK p \in Positions : Indexed(p) /\ c \in SightedUpTo(Cursors(p), Len(Cursors(p)))
    BY <1>2
  <2>2. PICK i \in 1..Len(Cursors(p)) : c = Cursors(p)[i] /\ Sighted(Cursors(p), i)
    BY <2>1 DEF SightedUpTo
  <2>3. i \in DOMAIN Cursors(p)
    BY BuiltUnits, TreeOfCursors DEF CursorsOK
  <2>4. IsSymbol(c) /\ Readable(c.file)
    BY <2>2 DEF Sighted, IsSymbol
  <2>5. QED BY <2>1, <2>2, <2>3, <2>4, WrittenAre
<1>4. ASSUME NEW w \in Written, IsSymbol(CursorAt(w)) PROVE CursorAt(w) \in sightings
  <2> DEFINE p == w[1]
             i == w[2]
  <2>1. p \in Positions /\ Indexed(p) /\ i \in DOMAIN Cursors(p) /\ Readable(Cursors(p)[i].file)
    BY WrittenAre DEF CursorAt
  <2>2. CursorsOK(Cursors(p))
    BY <2>1, BuiltUnits
  <2>3. i \in 1..Len(Cursors(p))
    BY <2>1, <2>2, TreeOfCursors DEF CursorsOK
  <2>4. Sighted(Cursors(p), i)
    BY <1>4, <2>1, <2>2, InsideIsInRepository DEF Sighted, Readable, CursorAt
  <2>5. CursorAt(w) \in SightedUpTo(Cursors(p), Len(Cursors(p)))
    BY <2>3, <2>4 DEF SightedUpTo, CursorAt
  <2>6. QED BY <1>2, <2>1, <2>5
<1> HIDE DEF sightings
<1>5. QED BY <1>1, <1>3, <1>4

(* A symbol of the index, and what is written of it.                        *)
LEMMA SymbolIs ==
  ASSUME IndexInv, Built, NEW usr \in DOMAIN index.symbols
  PROVE  LET symbol == index.symbols[usr]
         IN /\ symbol.name = usr[2]
            /\ symbol.definition \in Regions \cup {None}
            /\ \E w \in Written : LET c == CursorAt(w)
                                  IN /\ Entity(c) = usr /\ IsSymbol(c)
                                     /\ symbol.callable <=> c.kind \in Callable
            /\ symbol.definition # None =>
                 \E w \in Written : LET c == CursorAt(w)
                                    IN /\ Entity(c) = usr /\ IsSymbol(c) /\ Defines(c)
                                       /\ RegionOf(c) = symbol.definition
            /\ \A r \in Places(usr) :
                 \E w \in Written : LET c == CursorAt(w)
                                    IN Entity(c) = usr /\ IsSymbol(c) /\ RegionOf(c) = r
<1>1. PICK sightings :
         /\ IsTableOf(index.symbols, sightings)
         /\ \A c \in sightings : \E w \in Written : c = CursorAt(w) /\ IsSymbol(c)
  BY BuiltSymbols
<1> DEFINE symbol == index.symbols[usr]
<1>2. Shows(symbol, usr, sightings)
  BY <1>1 DEF IsTableOf
<1>3. symbol \in SymbolsOver({usr[2]})
  BY <1>2 DEF Shows
<1>4. symbol.name = usr[2] /\ symbol.definition \in Regions \cup {None}
  BY <1>3 DEF SymbolsOver
<1> HIDE DEF symbol
<1>5. \E w \in Written : /\ Entity(CursorAt(w)) = usr /\ IsSymbol(CursorAt(w))
                         /\ symbol.callable <=> CursorAt(w).kind \in Callable
  <2>1. PICK c \in sightings : Entity(c) = usr /\ (symbol.callable <=> c.kind \in Callable)
    BY <1>2 DEF Shows
  <2>2. PICK w \in Written : c = CursorAt(w) /\ IsSymbol(c)
    BY <1>1
  <2>3. QED BY <2>1, <2>2, Zenon
<1>6. symbol.definition # None =>
        \E w \in Written : /\ Entity(CursorAt(w)) = usr /\ IsSymbol(CursorAt(w))
                           /\ Defines(CursorAt(w)) /\ RegionOf(CursorAt(w)) = symbol.definition
  BY <1>1, <1>2 DEF Shows
<1>7. \A r \in Places(usr) :
        \E w \in Written : /\ Entity(CursorAt(w)) = usr /\ IsSymbol(CursorAt(w))
                           /\ RegionOf(CursorAt(w)) = r
  <2>1. SUFFICES ASSUME NEW r \in Places(usr)
                 PROVE  \E c \in sightings : Entity(c) = usr /\ RegionOf(c) = r
    BY <1>1
  <2>2. (r = symbol.definition /\ r # None) \/ r \in symbol.declarations
    BY DEF Places, symbol
  <2>3. QED BY <1>2, <2>2 DEF Shows
<1>8. QED BY <1>4, <1>5, <1>6, <1>7 DEF symbol

(* What is written has its symbol.                                          *)
LEMMA SymbolFor ==
  ASSUME IndexInv, Built, NEW w \in Written, IsSymbol(CursorAt(w))
  PROVE  /\ Entity(CursorAt(w)) \in DOMAIN index.symbols
         /\ Defines(CursorAt(w)) => index.symbols[Entity(CursorAt(w))].definition # None
<1>1. PICK sightings : IsTableOf(index.symbols, sightings) /\ CursorAt(w) \in sightings
  BY BuiltSymbols
<1>2. QED BY <1>1 DEF IsTableOf, Shows

(* An edge of the index, and the call that is written for it.               *)
LEMMA EdgeIsWritten ==
  ASSUME IndexInv, Built, NEW e \in index.calls
  PROVE  \E w \in WrittenCalls :
            /\ RegionOf(CursorAt(w)) = e.site /\ e.caller = Entity(BodyAround(w))
            /\ CalleeOf(Cursors(w[1]), CursorAt(w), e.callee)
<1>1. PICK p \in Positions : Indexed(p) /\ e \in CallsIn(Walked(Cursors(p)))
  BY BuiltCalls
<1>2. CursorsOK(Cursors(p))
  BY BuiltUnits
<1>3. PICK i \in DOMAIN Cursors(p) : EdgeOfCall(Cursors(p), e, i)
  BY <1>1, <1>2, EdgesOf
<1> DEFINE w == <<p, i>>
<1>4. CallIn(Cursors(p), i)
  BY <1>3 DEF EdgeOfCall
<1>5. w \in Written /\ CursorAt(w) = Cursors(p)[i]
  BY <1>1, <1>4, WrittenAre DEF CallIn
<1>6. BodyAround(w) = BodyOf(Cursors(p))[Cursors(p)[i].parent]
  BY <1>5 DEF BodyAround
<1>7. w \in WrittenCalls
  BY <1>4, <1>5, <1>6 DEF CallIn, WrittenCalls
<1>8. e.caller = Entity(BodyAround(w)) /\ e.site = RegionOf(CursorAt(w))
  BY <1>3, <1>5, <1>6 DEF EdgeOfCall, CallerIn
<1>9. CalleeOf(Cursors(w[1]), CursorAt(w), e.callee)
  BY <1>3, <1>5 DEF EdgeOfCall
<1> HIDE DEF w
<1>10. QED BY <1>7, <1>8, <1>9

(* One more hop of a walk.                                                  *)
Hop(last, calls, from, to) ==
    LET edges == {e \in calls : from[e] \in last.frontier}
        next == {to[e] : e \in edges} \ (last.seen \cup {None})
    IN [seen |-> last.seen \cup next, frontier |-> next, edges |-> last.edges \cup edges]

(* A walk is so many hops.                                                  *)
LEMMA WalkIs ==
  ASSUME NEW usr, NEW depth \in Nat, NEW from, NEW to
  PROVE  \E hop : /\ hop[0] = [seen |-> {usr}, frontier |-> {usr}, edges |-> {}]
                  /\ \A n \in 1..depth : hop[n] = Hop(hop[n - 1], index.calls, from, to)
                  /\ Walk(usr, depth, from, to) = hop[depth].edges
<1> DEFINE calls == index.calls
           X == {usr} \cup {to[e] : e \in calls}
           V == [seen : SUBSET X, frontier : SUBSET X, edges : SUBSET calls]
           first == [seen |-> {usr}, frontier |-> {usr}, edges |-> {}]
           Value(k) == Hop(k, calls, from, to)
           step == [ik \in (1..depth) \X V |-> Value(ik[2])]
           Is(f) == f = [n \in 0..depth |->
                           IF n = 0 THEN [seen |-> {usr}, frontier |-> {usr}, edges |-> {}]
                           ELSE LET last == f[n - 1]
                                    edges == {e \in index.calls : from[e] \in last.frontier}
                                    next == {to[e] : e \in edges} \ (last.seen \cup {None})
                                IN [seen |-> last.seen \cup next, frontier |-> next,
                                    edges |-> last.edges \cup edges]]
           hop == CHOOSE f : Is(f)
<1>1. first \in V
  OBVIOUS
<1>2. ASSUME NEW k \in V PROVE Value(k) \in V
  <2> DEFINE edges == {e \in calls : from[e] \in k.frontier}
             next == {to[e] : e \in edges} \ (k.seen \cup {None})
  <2>1. edges \subseteq calls /\ next \subseteq X
    OBVIOUS
  <2>2. Value(k) = [seen |-> k.seen \cup next, frontier |-> next, edges |-> k.edges \cup edges]
    BY DEF Hop
  <2>3. k.seen \subseteq X /\ k.edges \subseteq calls
    OBVIOUS
  <2> HIDE DEF edges, next, X, Value, calls
  <2>4. QED BY <2>1, <2>2, <2>3
<1>3. Walk(usr, depth, from, to) = hop[depth].edges
  BY DEF Walk
<1> HIDE DEF V, first, calls, Value
<1>4. step \in Steps(depth, V) /\ \A i \in 1..depth, k \in V : step[<<i, k>>] = Value(k)
  BY <1>2 DEF Steps
<1> HIDE DEF step
<1>5. 0 \in 0..depth /\ \A i \in 1..depth : i \in 0..depth /\ i - 1 \in 0..depth /\ i # 0
  OBVIOUS
<1>6. PICK g : IsRecursive(g, depth, V, first, step)
  BY <1>1, <1>4, ByRecursion
<1>7. /\ g \in [0..depth -> V] /\ g[0] = first
      /\ \A i \in 1..depth : g[i] = Value(g[i - 1])
  <2>1. \A i \in 1..depth : g[i] = step[<<i, g[i - 1]>>] /\ g[i - 1] \in V
    BY <1>5, <1>6 DEF IsRecursive
  <2>2. QED BY <1>4, <1>6, <2>1 DEF IsRecursive
<1>8. \A i \in 0..depth : i = 0 \/ i \in 1..depth
  OBVIOUS
<1>9. Is(g)
  <2>1. g = [n \in 0..depth |-> IF n = 0 THEN first ELSE Value(g[n - 1])]
    BY <1>5, <1>7, <1>8
  <2>2. QED BY <2>1 DEF first, Value, Hop, calls
<1>10. Is(hop)
  BY <1>9
<1>11. hop = [n \in 0..depth |-> IF n = 0 THEN first ELSE Value(hop[n - 1])]
  <2> HIDE DEF hop
  <2>1. QED BY <1>10 DEF first, Value, Hop, calls
<1> HIDE DEF hop, Is
<1>12. hop[0] = first /\ \A i \in 1..depth : hop[i] = Value(hop[i - 1])
  BY <1>5, <1>11
<1>13. QED BY <1>3, <1>12 DEF first, Value, calls

(* One hop and two.                                                         *)
LEMMA WalkOnce ==
  ASSUME NEW usr, NEW from, NEW to
  PROVE  Walk(usr, 1, from, to) = {e \in index.calls : from[e] = usr}
<1>1. PICK hop : /\ hop[0] = [seen |-> {usr}, frontier |-> {usr}, edges |-> {}]
                 /\ \A n \in 1..1 : hop[n] = Hop(hop[n - 1], index.calls, from, to)
                 /\ Walk(usr, 1, from, to) = hop[1].edges
  BY WalkIs
<1>2. hop[1] = Hop(hop[0], index.calls, from, to)
  BY <1>1
<1>3. hop[1].edges = {e \in index.calls : from[e] = usr}
  BY <1>1, <1>2 DEF Hop
<1>4. QED BY <1>1, <1>3

(* A second hop starts where a first one led.                               *)
LEMMA WalkTwice ==
  ASSUME NEW usr, NEW from, NEW to, NEW e \in Walk(usr, 2, from, to)
  PROVE  /\ e \in index.calls
         /\ \/ from[e] = usr
            \/ \E d \in index.calls : from[d] = usr /\ from[e] = to[d] /\ to[d] # None
<1>1. PICK hop : /\ hop[0] = [seen |-> {usr}, frontier |-> {usr}, edges |-> {}]
                 /\ \A n \in 1..2 : hop[n] = Hop(hop[n - 1], index.calls, from, to)
                 /\ Walk(usr, 2, from, to) = hop[2].edges
  BY WalkIs
<1>2. hop[1] = Hop(hop[0], index.calls, from, to) /\ hop[2] = Hop(hop[1], index.calls, from, to)
  BY <1>1
<1>3. /\ hop[1].edges = {x \in index.calls : from[x] = usr}
      /\ hop[1].frontier \subseteq {to[x] : x \in {y \in index.calls : from[y] = usr}} \ {None}
  BY <1>1, <1>2 DEF Hop
<1>4. hop[2].edges = hop[1].edges \cup {x \in index.calls : from[x] \in hop[1].frontier}
  BY <1>2 DEF Hop
<1>5. QED BY <1>1, <1>3, <1>4

(* What an edge names may be what the call reaches.                         *)
LEMMA MayReach ==
  ASSUME IndexInv, Built, NEW w \in WrittenCalls, NEW callee,
         CalleeOf(Cursors(w[1]), CursorAt(w), callee),
         NEW function \in Mentioned(program), Entity(function) = callee
  PROVE  MayCall(CursorAt(w), function)
<1> DEFINE p == w[1]
           cursors == Cursors(p)
           c == CursorAt(w)
           t == c.target
<1>1. p \in Positions /\ w[2] \in DOMAIN cursors /\ c = cursors[w[2]]
  BY WrittenAre DEF WrittenCalls, CursorAt
<1>2. CursorsOK(cursors) /\ EntitiesOK(program) /\ cursors = program[p].cursors
  BY <1>1, BuiltUnits DEF Cursors
<1> HIDE DEF cursors, c, p
<1>3. CASE t = None \/ t.kind \notin Callable
  BY <1>3 DEF MayCall, c
<1>4. CASE t # None /\ t.kind \in Callable /\ callee = Entity(t)
  BY <1>4 DEF MayCall, c
<1>5. CASE /\ t # None /\ t.kind = "method" /\ t.virtual
           /\ \E k \in DOMAIN cursors : /\ cursors[k].kind = "method" /\ Readable(cursors[k].file)
                                        /\ callee = Entity(cursors[k])
           /\ callee[2] = Entity(t)[2]
           /\ ClassOf(callee) \in DerivedFrom(Bases(Walked(cursors)), ClassOf(Entity(t)))
  <2>1. PICK k \in DOMAIN cursors : cursors[k].kind = "method" /\ callee = Entity(cursors[k])
    BY <1>5
  <2>2. cursors[k] \in Mentioned(program)
    BY <1>1, <1>2, <2>1, CursorsMention DEF SymbolKinds, Callable
  <2>3. function.kind = "method" /\ function.scope = cursors[k].scope
    BY <1>2, <2>1, <2>2 DEF EntitiesOK
  <2>4. t.scope # Local /\ cursors[k].scope # Local
    BY <1>1, <1>2, <1>5, <2>1 DEF CursorsOK, ClassesOK
  <2>5. Entity(t) = <<t.scope, t.name>> /\ callee = <<function.scope, function.name>>
    BY <2>3, <2>4 DEF Entity
  <2>6. function.name = t.name
    BY <1>5, <2>5
  <2>7. <<Global, function.scope>> \in DerivedFrom(Bases(Walked(cursors)), <<Global, t.scope>>)
    BY <1>5, <2>5 DEF ClassOf
  <2>8. Inherits(function.scope, t.scope)
    <3>1. SUFFICES ASSUME NEW family, t.scope \in family,
                          \A b \in TrueBases : b[2] \in family => b[1] \in family
                   PROVE  function.scope \in family
      BY DEF Inherits
    <3> DEFINE named == {<<Global, x>> : x \in family}
    <3>2. \A x : <<Global, x>> \in named <=> x \in family
      OBVIOUS
    <3>3. ASSUME NEW b \in Bases(Walked(cursors)), b[2] \in named PROVE b[1] \in named
      <4>1. PICK i \in DOMAIN cursors :
               /\ cursors[i].kind = "base"
               /\ b = <<<<Global, cursors[cursors[i].parent].name>>,
                        <<Global, cursors[i].target.name>>>>
        BY <1>2, BasesAre
      <4>2. <<cursors[cursors[i].parent].name, cursors[i].target.name>> \in TrueBases
        BY <1>1, <4>1 DEF TrueBases, cursors
      <4> HIDE DEF named
      <4>3. cursors[i].target.name \in family
        BY <3>2, <3>3, <4>1
      <4>4. cursors[cursors[i].parent].name \in family
        BY <3>1, <4>2, <4>3
      <4>5. QED BY <3>2, <4>1, <4>4
    <3> HIDE DEF named
    <3>4. <<Global, t.scope>> \in named
      BY <3>1, <3>2
    <3>5. IsFiniteSet(Bases(Walked(cursors)))
      BY <1>2, BasesFinite
    <3>6. DerivedFrom(Bases(Walked(cursors)), <<Global, t.scope>>) \subseteq named
      BY <3>3, <3>4, <3>5, DerivedWithin
    <3>7. QED BY <2>7, <3>2, <3>6
  <2>9. QED BY <1>5, <2>3, <2>6, <2>8 DEF MayCall, c
<1>6. QED BY <1>3, <1>4, <1>5 DEF CalleeOf, cursors, c, p

-----------------------------------------------------------------------------
(* The functions that are written.                                          *)
LEMMA FunctionsAre ==
  ASSUME IndexInv, Built, NEW f \in WrittenFunctions
  PROVE  /\ f \in Mentioned(program) /\ f.kind \in Callable
         /\ \E x \in Written : f = CursorAt(x)
<1>1. PICK x \in Written : f = CursorAt(x) /\ f.kind \in Callable
  BY DEF WrittenFunctions
<1>2. x[1] \in Positions /\ x[2] \in DOMAIN program[x[1]].cursors
      /\ f = program[x[1]].cursors[x[2]]
  BY <1>1, WrittenAre DEF CursorAt, Cursors
<1>3. f \in Mentioned(program)
  BY <1>1, <1>2, CursorsMention DEF SymbolKinds
<1>4. QED BY <1>1, <1>3

(* What has one name is of one kind.                                        *)
LEMMA EntitiesAgree ==
  ASSUME IndexInv, Built, NEW w \in Written, IsSymbol(CursorAt(w)),
         NEW d \in Mentioned(program), Entity(CursorAt(w)) = Entity(d)
  PROVE  CursorAt(w).kind = d.kind /\ CursorAt(w) \in Mentioned(program)
<1>1. w[1] \in Positions /\ w[2] \in DOMAIN program[w[1]].cursors
      /\ CursorAt(w) = program[w[1]].cursors[w[2]]
  BY WrittenAre DEF CursorAt, Cursors
<1>2. CursorAt(w) \in Mentioned(program)
  BY <1>1, CursorsMention DEF IsSymbol
<1>3. QED BY <1>2, BuiltUnits DEF EntitiesOK

(* The body a call is in is one of the program.                             *)
LEMMA BodiesAround ==
  ASSUME IndexInv, Built, NEW w \in WrittenCalls
  PROVE  BodyAround(w) \in Mentioned(program)
<1> DEFINE p == w[1]
           cursors == Cursors(p)
           i == w[2]
<1>1. p \in Positions /\ i \in DOMAIN cursors /\ CursorAt(w) = cursors[i]
      /\ BodyAround(w) = BodyOf(cursors)[cursors[i].parent] /\ BodyAround(w) # None
  BY WrittenAre DEF WrittenCalls, CursorAt, BodyAround
<1>2. CursorsOK(cursors)
  BY <1>1, BuiltUnits
<1>3. cursors[i].parent \in 0..Len(cursors)
  <2>1. /\ Len(cursors) \in Nat /\ DOMAIN cursors = 1..Len(cursors)
        /\ cursors[i].parent \in 0..(i - 1)
    BY <1>1, <1>2, TreeOfCursors DEF CursorsOK, IsTree
  <2> HIDE DEF cursors, i
  <2>2. QED BY <1>1, <2>1
<1>4. PICK k \in DOMAIN cursors : cursors[k] = BodyAround(w) /\ Declares(cursors[k])
  BY <1>1, <1>2, <1>3, BodyOfIsRead
<1>5. QED BY <1>1, <1>4, CursorsMention DEF Cursors, Declares

-----------------------------------------------------------------------------
(* No unit is left out, nothing is cited that is not there.                 *)
LEMMA AccountedFor == IndexInv => UnitsAccounted
<1> SUFFICES ASSUME IndexInv, Built
             PROVE  /\ \A p \in Positions :
                         Indexed(p) \/ Limit("parse_failed", p, 0) \in index.limitations
                    /\ \A usr \in DOMAIN index.symbols : \A r \in Places(usr) :
                         \E w \in Written : RegionOf(CursorAt(w)) = r /\ CursorAt(w).name = usr[2]
                    /\ \A e \in index.calls : \E w \in WrittenCalls : RegionOf(CursorAt(w)) = e.site
  BY DEF UnitsAccounted
<1>1. \A p \in Positions : Indexed(p) \/ Limit("parse_failed", p, 0) \in index.limitations
  BY BuiltCalls
<1>2. ASSUME NEW usr \in DOMAIN index.symbols, NEW r \in Places(usr)
      PROVE  \E w \in Written : RegionOf(CursorAt(w)) = r /\ CursorAt(w).name = usr[2]
  <2>1. PICK w \in Written : Entity(CursorAt(w)) = usr /\ RegionOf(CursorAt(w)) = r
    BY SymbolIs
  <2>2. CursorAt(w).name = usr[2]
    BY <2>1 DEF Entity
  <2>3. QED BY <2>1, <2>2
<1>3. \A e \in index.calls : \E w \in WrittenCalls : RegionOf(CursorAt(w)) = e.site
  BY EdgeIsWritten
<1>4. QED BY <1>1, <1>2, <1>3

-----------------------------------------------------------------------------
(* A call that is not listed is told.                                       *)
LEMMA ToldOfMissed == IndexInv => MissedIsTold
<1> SUFFICES ASSUME IndexInv, Built, NEW f \in WrittenFunctions, NEW w \in WrittenCalls,
                    MayCall(CursorAt(w), f), ~ThroughOutsideClass(CursorAt(w))
             PROVE  LET found == CallersOf(Usr(f), 1)
                    IN \/ RegionOf(CursorAt(w)) \in Sites(found.edges)
                       \/ ~IsComplete(found)
                       \/ Told(w)
  BY DEF MissedIsTold
<1> DEFINE found == CallersOf(Usr(f), 1)
           p == w[1]
           i == w[2]
           cursors == Cursors(p)
           c == CursorAt(w)
           t == c.target
<1>1. /\ p \in Positions /\ Indexed(p) /\ i \in DOMAIN cursors /\ c = cursors[i]
      /\ CallIn(cursors, i)
  BY WrittenAre DEF WrittenCalls, CursorAt, BodyAround, CallIn
<1>2. CursorsOK(cursors)
  BY <1>1, BuiltUnits
<1>3. /\ CallsIn(Walked(cursors)) \subseteq index.calls
      /\ Indirect(Walked(cursors)) \subseteq index.limitations
  BY <1>1, BuiltCalls
<1>4. PICK e \in index.calls :
         /\ e.site = RegionOf(c)
         /\ e.callee = IF t = None \/ t.kind \notin Callable THEN None ELSE Entity(t)
  BY <1>1, <1>2, <1>3, EdgeFor
<1>5. CASE t = None \/ t.kind \notin Callable
  <2>1. e \in index.calls \ Resolved(index.calls)
    BY <1>4, <1>5 DEF Resolved
  <2>2. ~IsComplete(found)
    BY <2>1 DEF IsComplete, CallersOf
  <2>3. QED BY <2>2
<1>6. CASE t # None /\ t.kind \in Callable /\ Entity(t) = Entity(f)
  <2>1. Entity(t) # None
    BY <1>1, <1>2, <1>6 DEF CursorsOK, CursorOK
  <2>2. e.callee = Usr(f) /\ e.callee # None
    BY <1>4, <1>6, <2>1, UsrIsEntity
  <2>3. Callees[e] = Usr(f)
    BY <2>2 DEF Callees
  <2>4. e \in Walk(Usr(f), 1, Callees, Callers)
    BY <2>3, WalkOnce
  <2>5. found.edges = Resolved(Walk(Usr(f), 1, Callees, Callers))
    BY DEF CallersOf
  <2> HIDE DEF found, c
  <2>6. e \in found.edges
    BY <2>2, <2>4, <2>5 DEF Resolved
  <2>7. QED BY <1>4, <2>6 DEF Sites, c, found
<1>7. CASE t # None /\ t.kind = "method" /\ t.virtual
  <2>1. Readable(t.file)
    BY <1>7 DEF ThroughOutsideClass
  <2>2. Limit("unresolved_indirect_call", c.file, c.lines[1]) \in Indirect(Walked(cursors))
    BY <1>1, <1>2, <1>7, <2>1, VirtualIsTold
  <2>3. Told(w)
    BY <1>3, <2>2 DEF Told, Limit
  <2>4. QED BY <2>3
<1>8. QED BY <1>5, <1>6, <1>7 DEF MayCall

(* "Unresolved is not absent", for any program: a call that may reach a      *)
(* function is among its callers, or the answer or a limitation says that    *)
(* something is missing (callers_of, _resolve_virtual_calls).               *)
THEOREM NothingMissedSilently == IndexSpec => []MissedIsTold
  BY ToldOfMissed, IndexInvariant, PTL

(* What the resolver and the call graph say.                                *)
LEMMA CallersAreWritten ==
  ASSUME IndexInv, Built, NEW f \in WrittenFunctions, NEW site \in Sites(CallersOf(Usr(f), 1).edges)
  PROVE  \E w \in WrittenCalls : RegionOf(CursorAt(w)) = site /\ MayCall(CursorAt(w), f)
<1>1. PICK e \in Resolved(Walk(Usr(f), 1, Callees, Callers)) : e.site = site
  BY DEF Sites, CallersOf
<1>2. e \in index.calls /\ Callees[e] = Usr(f)
  BY <1>1, WalkOnce DEF Resolved
<1>3. e.callee = Entity(f)
  BY <1>2, UsrIsEntity DEF Callees
<1>4. PICK w \in WrittenCalls : /\ RegionOf(CursorAt(w)) = e.site
                                /\ CalleeOf(Cursors(w[1]), CursorAt(w), e.callee)
  BY <1>2, EdgeIsWritten
<1>5. f \in Mentioned(program)
  BY FunctionsAre
<1>6. MayCall(CursorAt(w), f)
  BY <1>3, <1>4, <1>5, MayReach
<1>7. QED BY <1>1, <1>4, <1>6

(* What a function calls, a second hop away too.                            *)
LEMMA CalleesAreWritten ==
  ASSUME IndexInv, Built, NEW f \in WrittenFunctions, NEW site \in Sites(CalleesOf(Usr(f), 2).edges)
  PROVE  \E w \in WrittenCalls :
            /\ RegionOf(CursorAt(w)) = site
            /\ \/ Entity(BodyAround(w)) = Entity(f)
               \/ \E v \in WrittenCalls : /\ Entity(BodyAround(v)) = Entity(f)
                                          /\ MayCall(CursorAt(v), BodyAround(w))
<1>1. PICK e \in Resolved(Walk(Usr(f), 2, Callers, Callees)) : e.site = site
  BY DEF Sites, CalleesOf
<1>2. e \in Walk(Usr(f), 2, Callers, Callees)
  BY <1>1 DEF Resolved
<1>3. /\ e \in index.calls
      /\ \/ Callers[e] = Usr(f)
         \/ \E d \in index.calls : /\ Callers[d] = Usr(f) /\ Callers[e] = Callees[d]
                                   /\ Callees[d] # None
  BY <1>2, WalkTwice
<1>4. PICK w \in WrittenCalls : /\ RegionOf(CursorAt(w)) = e.site
                                /\ e.caller = Entity(BodyAround(w))
  BY <1>3, EdgeIsWritten
<1>5. CASE Callers[e] = Usr(f)
  <2>1. Entity(BodyAround(w)) = Entity(f)
    BY <1>3, <1>4, <1>5, UsrIsEntity DEF Callers
  <2>2. QED BY <1>1, <1>4, <2>1
<1>6. ASSUME NEW d \in index.calls, Callers[d] = Usr(f), Callers[e] = Callees[d]
      PROVE  \E v \in WrittenCalls : /\ Entity(BodyAround(v)) = Entity(f)
                                     /\ MayCall(CursorAt(v), BodyAround(w))
  <2>1. PICK v \in WrittenCalls : /\ d.caller = Entity(BodyAround(v))
                                  /\ CalleeOf(Cursors(v[1]), CursorAt(v), d.callee)
    BY EdgeIsWritten
  <2>2. Entity(BodyAround(v)) = Entity(f) /\ d.callee = Entity(BodyAround(w))
    BY <1>3, <1>4, <1>6, <2>1, UsrIsEntity DEF Callers, Callees
  <2>3. BodyAround(w) \in Mentioned(program)
    BY BodiesAround
  <2>4. MayCall(CursorAt(v), BodyAround(w))
    BY <2>1, <2>2, <2>3, MayReach
  <2>5. QED BY <2>2, <2>4
<1>7. QED BY <1>1, <1>3, <1>4, <1>5, <1>6

(* An edge the resolver accepts.                                            *)
LEMMA EdgesAreWritten ==
  ASSUME IndexInv, Built, NEW f \in WrittenFunctions, NEW g \in WrittenFunctions,
         EdgeThere(f.name, g.name)
  PROVE  \E w \in WrittenCalls : /\ BodyAround(w).name = f.name
                                 /\ CursorAt(w).target # None
                                 /\ \E h \in WrittenFunctions :
                                      h.name = g.name /\ MayCall(CursorAt(w), h)
<1>1. PICK caller \in Named(f.name), callee \in Named(g.name), e \in index.calls :
         e.caller = caller /\ e.callee = callee
  BY DEF EdgeThere
<1>2. /\ caller \in DOMAIN index.symbols /\ index.symbols[caller].name = f.name
      /\ callee \in DOMAIN index.symbols /\ index.symbols[callee].name = g.name
  BY DEF Named
<1>3. caller[2] = f.name /\ callee[2] = g.name
  BY <1>2, SymbolIs
<1>4. PICK w \in WrittenCalls : /\ e.caller = Entity(BodyAround(w))
                                /\ CalleeOf(Cursors(w[1]), CursorAt(w), e.callee)
  BY EdgeIsWritten
<1>5. BodyAround(w).name = f.name
  BY <1>1, <1>3, <1>4 DEF Entity
<1>6. PICK x \in Written : Entity(CursorAt(x)) = callee /\ IsSymbol(CursorAt(x))
  BY <1>2, SymbolIs
<1> DEFINE h == CursorAt(x)
           t == CursorAt(w).target
<1>7. callee # None
  <2>1. x[1] \in Positions /\ x[2] \in DOMAIN Cursors(x[1]) /\ h = Cursors(x[1])[x[2]]
    BY WrittenAre DEF CursorAt
  <2>2. CursorOK(Cursors(x[1]), x[2])
    BY <2>1, BuiltUnits DEF CursorsOK
  <2>3. QED BY <1>6, <2>1, <2>2 DEF CursorOK
<1>8. \E d \in Mentioned(program) : d.kind \in Callable /\ Entity(d) = callee /\ t # None
  <2>1. /\ w[1] \in Positions /\ w[2] \in DOMAIN program[w[1]].cursors
        /\ CursorAt(w) = program[w[1]].cursors[w[2]]
    BY WrittenAre DEF WrittenCalls, CursorAt, Cursors
  <2>2. CASE t # None /\ t.kind \in Callable /\ callee = Entity(t)
    BY <2>1, <2>2, CursorsMention DEF SymbolKinds
  <2>3. CASE t # None /\ \E k \in DOMAIN Cursors(w[1]) :
                            Cursors(w[1])[k].kind = "method" /\ callee = Entity(Cursors(w[1])[k])
    BY <2>1, <2>3, CursorsMention DEF SymbolKinds, Callable, Cursors
  <2>4. QED BY <1>1, <1>4, <1>7, <2>2, <2>3 DEF CalleeOf
<1>9. h.kind \in Callable /\ h \in Mentioned(program)
  BY <1>6, <1>8, EntitiesAgree
<1>10. h \in WrittenFunctions
  BY <1>9 DEF WrittenFunctions
<1>11. h.name = g.name
  BY <1>3, <1>6 DEF Entity
<1>12. MayCall(CursorAt(w), h)
  BY <1>1, <1>4, <1>6, <1>9, MayReach
<1>13. QED BY <1>5, <1>8, <1>10, <1>11, <1>12

(* A symbol the resolver accepts.                                           *)
LEMMA PlacesAreWritten ==
  ASSUME IndexInv, Built, NEW f \in WrittenFunctions, NEW g \in WrittenFunctions,
         SymbolThere(f.name, RegionOf(g))
  PROVE  \E w \in Written : CursorAt(w).name = f.name /\ CursorAt(w).file = g.file
<1>1. PICK usr \in Named(f.name) : \E r \in Places(usr) : r.file = RegionOf(g).file
  BY DEF SymbolThere
<1>2. PICK r \in Places(usr) : r.file = g.file
  BY <1>1 DEF RegionOf
<1>3. usr \in DOMAIN index.symbols /\ index.symbols[usr].name = f.name
  BY DEF Named
<1>4. usr[2] = f.name
  BY <1>3, SymbolIs
<1>5. PICK w \in Written : Entity(CursorAt(w)) = usr /\ RegionOf(CursorAt(w)) = r
  BY <1>3, SymbolIs
<1>6. QED BY <1>2, <1>4, <1>5 DEF Entity, RegionOf

(* Whatever is confirmed is written.                                        *)
LEMMA WrittenIsVerified == IndexInv => VerifiedIsWritten
<1> SUFFICES ASSUME IndexInv, Built PROVE VerifiedIsWritten
  BY DEF VerifiedIsWritten
<1>1. QED BY CallersAreWritten, CalleesAreWritten, EdgesAreWritten, PlacesAreWritten
          DEF VerifiedIsWritten

-----------------------------------------------------------------------------
(* The innermost body is one there is.                                      *)
LEMMA EnclosingIs ==
  ASSUME IndexInv, Built, NEW file, NEW line,
         NEW usr \in DOMAIN index.symbols, index.symbols[usr].callable,
         Holds(index.symbols[usr].definition, file, line)
  PROVE  LET found == EnclosingFunction(file, line)
             region == index.symbols[found].definition
             mine == index.symbols[usr].definition
         IN /\ found \in DOMAIN index.symbols /\ index.symbols[found].callable
            /\ Holds(region, file, line)
            /\ region.last - region.first <= mine.last - mine.first
<1> DEFINE around == {u \in DOMAIN index.symbols :
                        /\ index.symbols[u].callable
                        /\ Holds(index.symbols[u].definition, file, line)}
           span(u) == index.symbols[u].definition.last - index.symbols[u].definition.first
           Least(u) == u \in around /\ \A other \in around : span(u) <= span(other)
           found == CHOOSE u \in around : \A other \in around : span(u) <= span(other)
           spans == {span(u) : u \in around}
<1>1. usr \in around
  OBVIOUS
<1>2. \A u \in around : index.symbols[u].definition \in Regions
  BY SymbolIs DEF Holds
<1>3. ASSUME NEW u \in around PROVE span(u) \in Nat
  <2>1. /\ index.symbols[u].definition \in Regions
        /\ index.symbols[u].definition.first <= index.symbols[u].definition.last
    <3>1. index.symbols[u].definition # None
      BY DEF Holds
    <3>2. PICK w \in Written : RegionOf(CursorAt(w)) = index.symbols[u].definition
      BY <3>1, SymbolIs
    <3>3. CursorOK(Cursors(w[1]), w[2]) /\ CursorAt(w) = Cursors(w[1])[w[2]]
      BY WrittenAre, BuiltUnits DEF CursorsOK, CursorAt
    <3>4. CursorAt(w).lines[1] <= CursorAt(w).lines[2]
      BY <3>3 DEF CursorOK
    <3>5. QED BY <1>2, <3>2, <3>4 DEF RegionOf
  <2>2. /\ index.symbols[u].definition.first \in Nat /\ index.symbols[u].definition.last \in Nat
    BY <2>1 DEF Regions
  <2>3. QED BY <2>1, <2>2
<1>4. \E u : Least(u)
  <2>1. spans \in SUBSET Nat /\ span(usr) \in spans
    BY <1>1, <1>3
  <2>2. \A n \in spans : \E u \in around : span(u) = n
    OBVIOUS
  <2>3. \A u \in around : span(u) \in spans
    OBVIOUS
  <2> HIDE DEF spans
  <2>4. PICK n \in spans : \A m \in spans : n <= m
    BY <2>1, LeastNumber
  <2>5. PICK u \in around : span(u) = n
    BY <2>2
  <2> HIDE DEF span, around
  <2>6. QED BY <2>3, <2>4, <2>5
<1>5. Least(found)
  <2> HIDE DEF span, around
  <2>1. QED BY <1>4
<1>6. EnclosingFunction(file, line) = found
  BY <1>1 DEF EnclosingFunction
<1> HIDE DEF found
<1>7. QED BY <1>1, <1>5, <1>6

(* Two bodies on one line: the same, or one is in the other.                *)
LEMMA BodiesNest ==
  ASSUME IndexInv, Built, NEW w \in Written, HasBody(CursorAt(w)),
         NEW x \in Written, HasBody(CursorAt(x)),
         ShareALine(CursorAt(w), CursorAt(x)), CursorAt(w).lines # CursorAt(x).lines
  PROVE  \/ Span(CursorAt(w)) < Span(CursorAt(x))
         \/ \E y \in Written :
              /\ CursorAt(y).kind \in SymbolKinds /\ BodyAround(y) = CursorAt(w)
              /\ CursorAt(y).lines[1] <= CursorAt(x).lines[1]
              /\ CursorAt(x).lines[2] <= CursorAt(y).lines[2]
<1> DEFINE p == w[1]
           i == w[2]
           q == x[1]
           j == x[2]
           c == CursorAt(w)
           d == CursorAt(x)
<1>1. /\ p \in Positions /\ Indexed(p) /\ i \in DOMAIN program[p].cursors
      /\ c = program[p].cursors[i] /\ Readable(c.file)
      /\ q \in Positions /\ j \in DOMAIN program[q].cursors /\ d = program[q].cursors[j]
  BY WrittenAre DEF CursorAt, Cursors
<1>2. LayoutOK(program)
  BY BuiltUnits
<1> HIDE DEF c, d, p, q, i, j
<1>3. HasBody(c) /\ HasBody(d) /\ ShareALine(c, d) /\ c.lines # d.lines
  BY DEF c, d
<1>4. \/ Span(c) < Span(d)
      \/ \E k \in DOMAIN program[p].cursors :
           LET s == program[p].cursors[k]
           IN /\ s.kind \in SymbolKinds /\ s.file = c.file
              /\ BodyOf(program[p].cursors)[s.parent] = c
              /\ s.lines[1] <= d.lines[1] /\ d.lines[2] <= s.lines[2]
  BY <1>1, <1>2, <1>3 DEF LayoutOK
<1>5. ASSUME NEW k \in DOMAIN program[p].cursors,
             program[p].cursors[k].kind \in SymbolKinds, program[p].cursors[k].file = c.file,
             BodyOf(program[p].cursors)[program[p].cursors[k].parent] = c,
             program[p].cursors[k].lines[1] <= d.lines[1],
             d.lines[2] <= program[p].cursors[k].lines[2]
      PROVE  \E y \in Written :
                /\ CursorAt(y).kind \in SymbolKinds /\ BodyAround(y) = c
                /\ CursorAt(y).lines[1] <= d.lines[1] /\ d.lines[2] <= CursorAt(y).lines[2]
  <2> DEFINE y == <<p, k>>
  <2>1. y \in Written /\ CursorAt(y) = program[p].cursors[k]
    BY <1>1, <1>5, WrittenAre DEF Cursors
  <2>2. BodyAround(y) = c
    BY <1>5, <2>1 DEF BodyAround, Cursors
  <2> HIDE DEF y
  <2>3. QED BY <1>5, <2>1, <2>2
<1>6. QED BY <1>4, <1>5 DEF c, d

(* A callable symbol's body is the body of a function that is written.      *)
LEMMA CallableBody ==
  ASSUME IndexInv, Built, NEW usr \in DOMAIN index.symbols, index.symbols[usr].callable,
         index.symbols[usr].definition # None
  PROVE  \E x \in Written :
            /\ HasBody(CursorAt(x)) /\ CursorAt(x) \in WrittenFunctions
            /\ Entity(CursorAt(x)) = usr
            /\ RegionOf(CursorAt(x)) = index.symbols[usr].definition
<1>1. PICK x \in Written : /\ Entity(CursorAt(x)) = usr /\ IsSymbol(CursorAt(x))
                           /\ Defines(CursorAt(x))
                           /\ RegionOf(CursorAt(x)) = index.symbols[usr].definition
  BY SymbolIs
<1>2. PICK y \in Written : /\ Entity(CursorAt(y)) = usr /\ IsSymbol(CursorAt(y))
                           /\ CursorAt(y).kind \in Callable
  BY SymbolIs
<1>3. CursorAt(y) \in WrittenFunctions
  BY <1>2 DEF WrittenFunctions
<1>4. CursorAt(y) \in Mentioned(program)
  BY <1>3, FunctionsAre
<1>5. CursorAt(x).kind \in Callable
  BY <1>1, <1>2, <1>4, EntitiesAgree
<1>6. CursorAt(x) \in WrittenFunctions
  BY <1>5 DEF WrittenFunctions
<1>7. CursorAt(x).body
  BY <1>1, <1>5 DEF Defines, Callable
<1>8. HasBody(CursorAt(x))
  BY <1>1, <1>5, <1>7 DEF HasBody, IsSymbol
<1>9. QED BY <1>1, <1>6, <1>8

(* A line is attributed to the innermost body around it.                    *)
LEMMA BodiesFound == IndexInv => BodyFound
<1> SUFFICES ASSUME IndexInv, Built, NEW w \in Written,
                    CursorAt(w).kind \in Callable, CursorAt(w).body,
                    ~\E f \in WrittenFunctions : /\ f.body /\ Entity(f) = Entity(CursorAt(w))
                                                 /\ RegionOf(f) # RegionOf(CursorAt(w)),
                    NEW line \in CursorAt(w).lines[1]..CursorAt(w).lines[2],
                    \A y \in Written :
                       BodyAround(y) = CursorAt(w) /\ CursorAt(y).kind \in SymbolKinds
                         => line \notin CursorAt(y).lines[1]..CursorAt(y).lines[2]
             PROVE  LET found == EnclosingFunction(CursorAt(w).file, line)
                    IN found # None /\ index.symbols[found].definition = RegionOf(CursorAt(w))
  BY DEF BodyFound
<1> DEFINE c == CursorAt(w)
           usr == Entity(c)
           found == EnclosingFunction(c.file, line)
           region == index.symbols[found].definition
<1>1. /\ c.lines \in Nat \X Nat /\ c.lines[1] <= c.lines[2] /\ Readable(c.file)
  <2>1. w[1] \in Positions /\ w[2] \in DOMAIN Cursors(w[1]) /\ c = Cursors(w[1])[w[2]]
        /\ Readable(c.file)
    BY WrittenAre DEF CursorAt
  <2>2. CursorOK(Cursors(w[1]), w[2])
    BY <2>1, BuiltUnits DEF CursorsOK
  <2>3. QED BY <2>1, <2>2 DEF CursorOK
<1>2. HasBody(c)
  BY <1>1 DEF HasBody
<1>3. IsSymbol(c) /\ Defines(c) /\ c.kind # "variable"
  BY <1>1 DEF IsSymbol, Defines, SymbolKinds, Callable
<1>4. usr \in DOMAIN index.symbols /\ index.symbols[usr].definition # None
  BY <1>3, SymbolFor
<1>5. index.symbols[usr].callable
  <2>1. PICK y \in Written : /\ Entity(CursorAt(y)) = usr /\ IsSymbol(CursorAt(y))
                             /\ index.symbols[usr].callable <=> CursorAt(y).kind \in Callable
    BY <1>4, SymbolIs
  <2>2. c \in WrittenFunctions
    BY DEF WrittenFunctions
  <2>3. c \in Mentioned(program)
    BY <2>2, FunctionsAre
  <2>4. CursorAt(y).kind = c.kind
    BY <2>1, <2>3, EntitiesAgree
  <2>5. CursorAt(y).kind \in Callable
    BY <2>4
  <2>6. QED BY <2>1, <2>5
<1>6. index.symbols[usr].definition = RegionOf(c)
  <2>1. PICK x \in Written : /\ HasBody(CursorAt(x)) /\ CursorAt(x) \in WrittenFunctions
                             /\ Entity(CursorAt(x)) = usr
                             /\ RegionOf(CursorAt(x)) = index.symbols[usr].definition
    BY <1>4, <1>5, CallableBody
  <2>2. QED BY <2>1 DEF HasBody
<1>7. Holds(index.symbols[usr].definition, c.file, line)
  BY <1>1, <1>4, <1>6 DEF Holds, RegionOf
<1> HIDE DEF usr, found
<1>8. /\ found \in DOMAIN index.symbols /\ index.symbols[found].callable
      /\ Holds(region, c.file, line)
      /\ region.last - region.first <= index.symbols[usr].definition.last
                                         - index.symbols[usr].definition.first
  BY <1>4, <1>5, <1>7, EnclosingIs DEF found
<1>9. region # None
  BY <1>8 DEF Holds
<1>10. PICK x \in Written : /\ HasBody(CursorAt(x)) /\ CursorAt(x) \in WrittenFunctions
                            /\ Entity(CursorAt(x)) = found /\ RegionOf(CursorAt(x)) = region
  BY <1>8, <1>9, CallableBody
<1> DEFINE d == CursorAt(x)
<1>11. d.lines \in Nat \X Nat /\ d.lines[1] <= d.lines[2] /\ Entity(d) # None
  <2>1. x[1] \in Positions /\ x[2] \in DOMAIN Cursors(x[1]) /\ d = Cursors(x[1])[x[2]]
    BY WrittenAre DEF CursorAt
  <2>2. CursorOK(Cursors(x[1]), x[2])
    BY <2>1, BuiltUnits DEF CursorsOK
  <2>3. QED BY <2>1, <2>2 DEF CursorOK
<1> HIDE DEF c, d
<1>12. /\ region.file = d.file /\ region.first = d.lines[1] /\ region.last = d.lines[2]
  <2>1. region = RegionOf(d)
    BY <1>10 DEF d
  <2> HIDE DEF region
  <2>2. QED BY <2>1 DEF RegionOf
<1>13. /\ d.file = c.file /\ d.lines[1] <= line /\ line <= d.lines[2]
  BY <1>8, <1>12 DEF Holds
<1>14. line \in Int /\ c.lines[1] <= line /\ line <= c.lines[2]
  BY <1>1 DEF c
<1>15. Span(d) <= Span(c)
  BY <1>6, <1>8, <1>12 DEF Span, RegionOf
<1>16. ShareALine(c, d)
  BY <1>1, <1>11, <1>13, <1>14 DEF ShareALine
<1>17. c.lines = d.lines
  <2>1. SUFFICES ASSUME c.lines # d.lines PROVE FALSE
    OBVIOUS
  <2>2. \/ Span(c) < Span(d)
        \/ \E y \in Written :
             /\ CursorAt(y).kind \in SymbolKinds /\ BodyAround(y) = c
             /\ CursorAt(y).lines[1] <= d.lines[1] /\ d.lines[2] <= CursorAt(y).lines[2]
    BY <1>2, <1>10, <1>16, <2>1, BodiesNest DEF c, d
  <2>3. ~(Span(c) < Span(d))
    BY <1>1, <1>11, <1>15 DEF Span
  <2>4. PICK y \in Written : /\ CursorAt(y).kind \in SymbolKinds /\ BodyAround(y) = c
                             /\ CursorAt(y).lines[1] <= d.lines[1]
                             /\ d.lines[2] <= CursorAt(y).lines[2]
    BY <2>2, <2>3
  <2>5. line \notin CursorAt(y).lines[1]..CursorAt(y).lines[2]
    BY <2>4 DEF c
  <2>6. CursorAt(y).lines \in Nat \X Nat
    <3>1. y[1] \in Positions /\ y[2] \in DOMAIN Cursors(y[1]) /\ CursorAt(y) = Cursors(y[1])[y[2]]
      BY WrittenAre DEF CursorAt
    <3>2. CursorOK(Cursors(y[1]), y[2])
      BY <3>1, BuiltUnits DEF CursorsOK
    <3>3. QED BY <3>1, <3>2 DEF CursorOK
  <2>7. CursorAt(y).lines[1] \in Int /\ CursorAt(y).lines[2] \in Int
        /\ d.lines[1] \in Int /\ d.lines[2] \in Int
    BY <1>11, <2>6
  <2>8. QED BY <1>13, <1>14, <2>4, <2>5, <2>7
<1>18. RegionOf(d) = RegionOf(c)
  BY <1>13, <1>17 DEF RegionOf
<1>19. found # None
  BY <1>10, <1>11 DEF d
<1>20. QED BY <1>10, <1>18, <1>19 DEF found, c, d

(* What the merged index holds is what the indexed units say, for any       *)
(* program: every unit is accounted for, a line is attributed to the body   *)
(* it is in, and what the resolver and the call graph confirm is written    *)
(* (Index.from_results, CallGraph, IndexResolver).                          *)
THEOREM IndexAlwaysOfTheSource == IndexSpec => []IndexIsOfTheSource
<1>1. IndexInv => IndexIsOfTheSource
  BY AccountedFor, BodiesFound, WrittenIsVerified DEF IndexIsOfTheSource
<1>2. QED BY <1>1, IndexInvariant, PTL
=============================================================================
