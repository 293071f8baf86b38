------------------------------ MODULE SuiteReport ------------------------------
(***************************************************************************)
(* What a resumable run over a suite promises, without models, budgets or  *)
(* retries: the results of a case become durable in the order its          *)
(* candidates are visited and are never taken back; a case is reported     *)
(* once every candidate of it has exactly one result; an interruption      *)
(* loses reports and nothing that was durable.                             *)
(***************************************************************************)
EXTENDS Integers, Sequences

CONSTANTS
    Cases,   \* the number of cases; they are visited 1..Cases
    Order,   \* the candidates of each case, in visit order
    Unset    \* no report yet

VARIABLES
    durable,  \* per case, the candidates whose result survives a crash
    report    \* per case, the candidates reported, or Unset

reportVars == <<durable, report>>

Init ==
    /\ durable = [c \in 1..Cases |-> <<>>]
    /\ report = [c \in 1..Cases |-> Unset]

Open(c) == report[c] = Unset /\ \A d \in 1..(c - 1) : report[d] # Unset

(* More of the open case becomes durable; candidates given up in between    *)
(* come along with the one that is saved.                                   *)
Persist(c) ==
    /\ Open(c)
    /\ \E n \in (Len(durable[c]) + 1)..Len(Order[c]) :
        durable' = [durable EXCEPT ![c] = SubSeq(Order[c], 1, n)]
    /\ UNCHANGED report

Publish(c) ==
    /\ Open(c)
    /\ report' = [report EXCEPT ![c] = Order[c]]
    /\ UNCHANGED durable

Interrupt ==
    /\ report' = [c \in 1..Cases |-> Unset]
    /\ UNCHANGED durable

Next ==
    \/ \E c \in 1..Cases : Persist(c) \/ Publish(c)
    \/ Interrupt

Spec == Init /\ [][Next]_reportVars
=============================================================================
