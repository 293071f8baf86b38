--------------------------- MODULE EvaluationProofs ---------------------------
(***************************************************************************)
(* Proofs about the evaluation commands, each for every value of its       *)
(* constants.  The commands share no state, so each part of this module    *)
(* has a specification of its own.                                         *)
(***************************************************************************)
EXTENDS Scoring, PairRun, Pilot, Comparison, SourceReads, ReproBundle, Attribution,
        AblationGrid, Maintainability, DataInduction, SequenceTheorems

-----------------------------------------------------------------------------
(* Repository pairs. *)

Working == {"clone", "checkout", "build", "scan"}
Running == {"record", "count", "report"} \cup Working
Ended   == {"ok", "findings", "environment"}

WithOutcome == {o.pair : o \in outcomes}
LeftOut  == {x.pair : x \in excluded}
WasScanned(pair, s) == \E t \in scanned : t[1] = pair /\ t[2] = s

PairTypes ==
    /\ checkout \in [Pairs \X Side -> {"none", "partial", "default", "pinned"}]
    /\ phase \in {"off", "over"} \cup Running
    /\ todo \in Seq(Pairs) /\ Distinct(todo)
    /\ side \in Side
    /\ ledger \in Int /\ accesses \in Nat

(* The ledger counts every use or is torn, and a run that got past it knows *)
(* whether it is the first.                                                 *)
LedgerKnown ==
    /\ ledger = -1 \/ ledger = accesses
    /\ phase # "over" => exit = "none"
    /\ phase = "over" => exit \in {"killed", "error"} \cup Ended
    /\ HeldOutSet /\ phase = "count" => ledger = accesses /\ accesses >= 1
    /\ HeldOutSet /\ (phase \in {"report"} \cup Working \/ exit \in Ended) =>
           accesses >= 1 /\ (accesses > 1 => caveat)

(* Every pair is still to be done, has an outcome or is excluded, and only  *)
(* one of them; what has an outcome was scanned twice.                      *)
PairsPlaced ==
    /\ phase \in Running \ {"report"} => todo # <<>>
    /\ phase = "report" \/ exit \in Ended => todo = <<>>
    /\ phase \in Running \/ exit \in Ended =>
           /\ WithOutcome \cup LeftOut \cup Elements(todo) = Pairs
           /\ (WithOutcome \cup LeftOut) \cap Elements(todo) = {}
           /\ WithOutcome \cap LeftOut = {}
           /\ \A o \in outcomes : \A s \in Side : WasScanned(o.pair, s)
    /\ phase \in Working /\ side = "fixed" => WasScanned(Pair, "vulnerable")
    /\ phase \in Running \ Working => side = "vulnerable"

PinnedKnown ==
    /\ phase \in {"build", "scan"} => checkout[<<Pair, side>>] = "pinned"
    /\ PinnedIsScanned

(* The inductive invariant of a run of pairs. *)
PairInv ==
    /\ PairTypes
    /\ LedgerKnown
    /\ PairsPlaced
    /\ PinnedKnown

(* A run starts with every pair to do.                                      *)
LEMMA ListOfPairs ==
  PairList \in Seq(Pairs) /\ Distinct(PairList) /\ Elements(PairList) = Pairs
  BY PairRunAssumption DEF Distinct, Elements, Pairs

(* The pair under way is one of those to do, and the rest is without it.    *)
LEMMA PairUnderWay ==
  ASSUME PairInv, phase \in Working
  PROVE  /\ todo # <<>> /\ Pair \in Pairs
         /\ Tail(todo) \in Seq(Pairs) /\ Distinct(Tail(todo))
         /\ Elements(todo) = {Pair} \cup Elements(Tail(todo))
         /\ Pair \notin Elements(Tail(todo))
<1>1. todo # <<>> /\ todo \in Seq(Pairs) /\ Distinct(todo)
  BY DEF PairInv, PairTypes, PairsPlaced, Running, Working
<1>2. QED BY <1>1, FirstAndRest DEF Pair

(* A pair that is finished with moves from what is to do to where it        *)
(* belongs.                                                                 *)
LEMMA PairSettled ==
  ASSUME PairInv, phase \in Working, exit' = exit,
         todo' = Tail(todo), side' = "vulnerable",
         phase' = IF Tail(todo) = <<>> THEN "report" ELSE "clone",
         scanned \subseteq scanned',
         \/ WithOutcome' = WithOutcome /\ LeftOut' = LeftOut \cup {Pair} /\ outcomes' = outcomes
         \/ /\ WithOutcome' = WithOutcome \cup {Pair} /\ LeftOut' = LeftOut
            /\ \A o \in outcomes' : o \in outcomes \/ o.pair = Pair
            /\ \A s \in Side : \E t \in scanned' : t[1] = Pair /\ t[2] = s
  PROVE  PairsPlaced' /\ phase' \in {"report", "clone"} /\ exit' = "none"
<1>1. exit = "none" /\ phase \in Running
  BY DEF PairInv, LedgerKnown, Working, Running
<1>2. /\ WithOutcome \cup LeftOut \cup Elements(todo) = Pairs
      /\ (WithOutcome \cup LeftOut) \cap Elements(todo) = {}
      /\ WithOutcome \cap LeftOut = {}
      /\ \A o \in outcomes : \A s \in Side : WasScanned(o.pair, s)
  BY <1>1 DEF PairInv, PairsPlaced
<1>3. /\ Elements(todo) = {Pair} \cup Elements(todo')
      /\ Pair \notin Elements(todo')
  BY PairUnderWay
<1>4. /\ (WithOutcome \cup LeftOut \cup Elements(todo))' = Pairs
      /\ ((WithOutcome \cup LeftOut) \cap Elements(todo))' = {}
      /\ (WithOutcome \cap LeftOut)' = {}
  BY <1>2, <1>3
<1>5. ASSUME NEW o \in outcomes', NEW s \in Side
      PROVE  WasScanned(o.pair, s)'
  <2>1. CASE o \in outcomes
    <3>1. WasScanned(o.pair, s)
      BY <1>2, <2>1
    <3>2. QED BY <3>1 DEF WasScanned
  <2>2. CASE o \notin outcomes
    <3>1. o.pair = Pair /\ \E t \in scanned' : t[1] = Pair /\ t[2] = s
      BY <2>2
    <3>2. QED BY <3>1 DEF WasScanned
  <2>3. QED BY <2>1, <2>2
<1>6. /\ phase' = "report" => todo' = <<>>
      /\ phase' # "report" => todo' # <<>>
      /\ phase' \in {"report", "clone"} /\ exit' = "none" /\ side' = "vulnerable"
  BY <1>1
<1>7. QED BY <1>4, <1>5, <1>6 DEF PairsPlaced, Working, Running, Ended

(* What Exclude makes of the pair under way, and what else it leaves alone. *)
LEMMA ExcludeInv ==
  ASSUME PairInv, phase \in Working, Exclude,
         scanned \subseteq scanned', \A s \in scanned' : s[3] = "pinned",
         checkout' \in [Pairs \X Side -> {"none", "partial", "default", "pinned"}],
         UNCHANGED <<ledger, accesses, caveat, exit>>
  PROVE  PairInv'
<1>1. /\ todo' = Tail(todo) /\ side' = "vulnerable" /\ outcomes' = outcomes
      /\ phase' = IF Tail(todo) = <<>> THEN "report" ELSE "clone"
  BY DEF Exclude
<1>2. WithOutcome' = WithOutcome /\ LeftOut' = LeftOut \cup {Pair}
  <2>1. WithOutcome' = WithOutcome
    BY <1>1 DEF WithOutcome
  <2>2. excluded' = excluded \cup {[pair |-> Pair, side |-> side]}
    BY DEF Exclude
  <2>3. LeftOut' = LeftOut \cup {[pair |-> Pair, side |-> side].pair}
    BY <2>2 DEF LeftOut
  <2>4. QED BY <2>1, <2>3
<1>3. PairsPlaced' /\ phase' \in {"report", "clone"} /\ exit' = "none"
  BY <1>1, <1>2, PairSettled
<1>4. PairTypes'
  BY <1>1, <1>3, PairUnderWay DEF PairInv, PairTypes, Running, Working, Side
<1>5. LedgerKnown'
  BY <1>3 DEF PairInv, LedgerKnown, Working, Ended
<1>6. PinnedKnown'
  BY <1>3 DEF PinnedKnown, PinnedIsScanned
<1>7. QED BY <1>3, <1>4, <1>5, <1>6 DEF PairInv

(* The scan reads what the checkout left, and what came of it is kept.      *)
LEMMA ScanInv ==
  ASSUME PairInv, Scan
  PROVE  PairInv'
<1>1. /\ phase = "scan" /\ phase \in Working
      /\ scanned' = scanned \cup {<<Pair, side, checkout[<<Pair, side>>]>>}
      /\ UNCHANGED <<checkout, ledger, accesses, caveat, exit>>
  BY DEF Scan, Working
<1>2. /\ scanned \subseteq scanned' /\ \A s \in scanned' : s[3] = "pinned"
      /\ \E t \in scanned' : t[1] = Pair /\ t[2] = side
  <2> DEFINE new == <<Pair, side, checkout[<<Pair, side>>]>>
  <2>1. checkout[<<Pair, side>>] = "pinned" /\ \A s \in scanned : s[3] = "pinned"
    BY <1>1 DEF PairInv, PinnedKnown, PinnedIsScanned
  <2>2. new[1] = Pair /\ new[2] = side /\ new[3] = "pinned"
    BY <2>1
  <2>3. scanned' = scanned \cup {new}
    BY <1>1
  <2> HIDE DEF new
  <2>4. QED BY <2>1, <2>2, <2>3
<1>3. checkout' \in [Pairs \X Side -> {"none", "partial", "default", "pinned"}]
  BY <1>1 DEF PairInv, PairTypes
<1>4. CASE Exclude
  BY <1>1, <1>2, <1>3, <1>4, ExcludeInv
<1>5. ASSUME NEW result, Usable(result), UNCHANGED excluded
      PROVE  PairInv'
  <2>1. exit' = "none" /\ LeftOut' = LeftOut
    BY <1>1, <1>5 DEF PairInv, LedgerKnown, LeftOut
  <2>2. CASE side = "vulnerable"
    <3>1. /\ side' = "fixed" /\ phase' = "clone" /\ outcomes' = outcomes /\ todo' = todo
      BY <1>5, <2>2 DEF Usable
    <3>2. PairTypes'
      BY <1>1, <3>1 DEF PairInv, PairTypes, Running, Working, Side
    <3>3. PairsPlaced'
      <4>1. WithOutcome' = WithOutcome /\ Pair' = Pair
        BY <3>1 DEF WithOutcome, Pair
      <4>2. /\ todo # <<>> /\ WithOutcome \cup LeftOut \cup Elements(todo) = Pairs
            /\ (WithOutcome \cup LeftOut) \cap Elements(todo) = {}
            /\ WithOutcome \cap LeftOut = {}
            /\ \A o \in outcomes : \A s \in Side : WasScanned(o.pair, s)
        BY <1>1 DEF PairInv, PairsPlaced, Running, Working
      <4>3. \A o \in outcomes' : \A s \in Side : WasScanned(o.pair, s)'
        BY <1>2, <3>1, <4>2 DEF WasScanned
      <4>4. WasScanned(Pair, "vulnerable")'
        BY <1>2, <2>2, <4>1 DEF WasScanned
      <4>5. QED BY <2>1, <3>1, <4>1, <4>2, <4>3, <4>4 DEF PairsPlaced, Running, Working, Ended
    <3>4. LedgerKnown'
      BY <1>1, <3>1 DEF PairInv, LedgerKnown, Working, Ended
    <3>5. PinnedKnown'
      BY <1>2, <3>1 DEF PinnedKnown, PinnedIsScanned
    <3>6. QED BY <3>2, <3>3, <3>4, <3>5 DEF PairInv
  <2>3. CASE side # "vulnerable"
    <3>1. /\ side = "fixed" /\ todo' = Tail(todo) /\ side' = "vulnerable"
          /\ phase' = IF Tail(todo) = <<>> THEN "report" ELSE "clone"
          /\ \E o : o.pair = Pair /\ outcomes' = outcomes \cup {o}
      <4>1. side \in Side
        BY DEF PairInv, PairTypes
      <4>2. /\ todo' = Tail(todo) /\ side' = "vulnerable"
            /\ phase' = IF Tail(todo) = <<>> THEN "report" ELSE "clone"
            /\ outcomes' = outcomes \cup
                  {[pair |-> Pair, vulnerable |-> seen.detected, fixed |-> result.detected,
                    valid |-> seen.valid /\ result.valid,
                    complete |-> seen.complete /\ result.complete]}
        BY <1>5, <2>3 DEF Usable
      <4> DEFINE o1 == [pair |-> Pair, vulnerable |-> seen.detected, fixed |-> result.detected,
                        valid |-> seen.valid /\ result.valid,
                        complete |-> seen.complete /\ result.complete]
      <4>3. o1.pair = Pair /\ outcomes' = outcomes \cup {o1}
        BY <4>2
      <4> HIDE DEF o1
      <4>4. \E o : o.pair = Pair /\ outcomes' = outcomes \cup {o}
        BY <4>3
      <4>5. side = "fixed"
        BY <2>3, <4>1 DEF Side
      <4>6. QED BY <4>2, <4>4, <4>5
    <3>2. PICK o : o.pair = Pair /\ outcomes' = outcomes \cup {o}
      BY <3>1
    <3>3. /\ WithOutcome' = WithOutcome \cup {Pair}
          /\ \A p \in outcomes' : p \in outcomes \/ p.pair = Pair
      BY <3>2 DEF WithOutcome
    <3>4. \A s \in Side : \E t \in scanned' : t[1] = Pair /\ t[2] = s
      <4>1. \E t \in scanned' : t[1] = Pair /\ t[2] = "vulnerable"
        BY <1>1, <1>2, <3>1 DEF PairInv, PairsPlaced, WasScanned
      <4>2. \E t \in scanned' : t[1] = Pair /\ t[2] = "fixed"
        BY <1>2, <3>1
      <4>3. QED BY <4>1, <4>2 DEF Side
    <3>5. PairsPlaced' /\ phase' \in {"report", "clone"} /\ exit' = "none"
      BY <1>1, <1>2, <2>1, <3>1, <3>3, <3>4, PairSettled
    <3>6. PairTypes'
      BY <1>1, <3>1, <3>5, PairUnderWay DEF PairInv, PairTypes, Running, Working, Side
    <3>7. LedgerKnown'
      BY <1>1, <3>5 DEF PairInv, LedgerKnown, Working, Ended
    <3>8. PinnedKnown'
      BY <1>2, <3>5 DEF PinnedKnown, PinnedIsScanned
    <3>9. QED BY <3>5, <3>6, <3>7, <3>8 DEF PairInv
  <2>4. QED BY <2>2, <2>3
<1>6. QED BY <1>4, <1>5 DEF Scan, Failed

(* A step that goes on with the same revision.                              *)
LEMMA GoesOnInv ==
  ASSUME PairInv, phase \in Working, phase' \in Working,
         checkout' \in [Pairs \X Side -> {"none", "partial", "default", "pinned"}],
         phase' \in {"build", "scan"} => checkout'[<<Pair, side>>] = "pinned",
         UNCHANGED <<todo, side, outcomes, excluded, scanned, ledger, accesses, caveat, exit>>
  PROVE  PairInv'
<1>1. Pair' = Pair /\ WithOutcome' = WithOutcome /\ LeftOut' = LeftOut /\ exit' = "none"
  BY DEF Pair, WithOutcome, LeftOut, PairInv, LedgerKnown, Working
<1>2. PairTypes'
  BY DEF PairInv, PairTypes, Running, Working
<1>3. LedgerKnown'
  BY DEF PairInv, LedgerKnown, Working
<1>4. PairsPlaced'
  <2>1. \A p, s : WasScanned(p, s)' = WasScanned(p, s)
    BY DEF WasScanned
  <2>2. /\ todo' # <<>>
        /\ WithOutcome' \cup LeftOut' \cup Elements(todo') = Pairs
        /\ (WithOutcome' \cup LeftOut') \cap Elements(todo') = {}
        /\ WithOutcome' \cap LeftOut' = {}
        /\ \A o \in outcomes' : \A s \in Side : WasScanned(o.pair, s)
        /\ side' = "fixed" => WasScanned(Pair', "vulnerable")
    BY <1>1 DEF PairInv, PairsPlaced, Running, Working
  <2>3. QED BY <1>1, <2>2 DEF PairsPlaced, WasScanned, Ended, Working
<1>5. PinnedKnown'
  BY <1>1 DEF PairInv, PinnedKnown, PinnedIsScanned
<1>6. QED BY <1>2, <1>3, <1>4, <1>5 DEF PairInv

(* What every other step on a revision leaves alone.                        *)
LEMMA SameScans ==
  ASSUME PairInv, UNCHANGED scanned
  PROVE  scanned \subseteq scanned' /\ \A s \in scanned' : s[3] = "pinned"
  BY DEF PairInv, PinnedKnown, PinnedIsScanned

(* The repository is cloned, was there already, or the pair is excluded.    *)
LEMMA CloneInv ==
  ASSUME PairInv, Clone
  PROVE  PairInv'
<1>1. /\ phase = "clone" /\ phase \in Working
      /\ UNCHANGED <<ledger, accesses, caveat, exit, scanned>>
  BY DEF Clone, Working
<1>2. checkout' \in [Pairs \X Side -> {"none", "partial", "default", "pinned"}]
  <2>1. \/ checkout' = checkout
        \/ \E gained \in {"none", "partial", "default"} :
               checkout' = [checkout EXCEPT ![<<Pair, side>>] = gained]
    BY DEF Clone
  <2>2. checkout \in [Pairs \X Side -> {"none", "partial", "default", "pinned"}]
    BY DEF PairInv, PairTypes
  <2>3. QED BY <2>1, <2>2
<1>3. CASE Exclude
  BY <1>1, <1>2, <1>3, SameScans, ExcludeInv
<1>4. CASE phase' = "checkout" /\ UNCHANGED <<todo, side, outcomes, excluded>>
  BY <1>1, <1>2, <1>4, GoesOnInv DEF Working
<1>5. QED BY <1>3, <1>4 DEF Clone, Failed

(* The pinned revision is checked out, or the pair is excluded.             *)
LEMMA CheckoutInv ==
  ASSUME PairInv, Checkout
  PROVE  PairInv'
<1>1. /\ phase = "checkout" /\ phase \in Working
      /\ UNCHANGED <<ledger, accesses, caveat, exit, scanned>>
  BY DEF Checkout, Working
<1>2. /\ checkout \in [Pairs \X Side -> {"none", "partial", "default", "pinned"}]
      /\ <<Pair, side>> \in Pairs \X Side
  BY <1>1, PairUnderWay DEF PairInv, PairTypes
<1>3. CASE Exclude /\ UNCHANGED checkout
  BY <1>1, <1>2, <1>3, SameScans, ExcludeInv
<1>4. CASE /\ phase' = "build" /\ UNCHANGED <<todo, side, outcomes, excluded>>
           /\ checkout' = [checkout EXCEPT ![<<Pair, side>>] = "pinned"]
  <2>1. /\ checkout' \in [Pairs \X Side -> {"none", "partial", "default", "pinned"}]
        /\ checkout'[<<Pair, side>>] = "pinned"
    BY <1>2, <1>4
  <2>2. QED BY <1>1, <1>4, <2>1, GoesOnInv DEF Working
<1>5. QED BY <1>3, <1>4 DEF Checkout, Failed

(* It is built, or the pair is excluded.                                    *)
LEMMA BuildInv ==
  ASSUME PairInv, Build
  PROVE  PairInv'
<1>1. /\ phase = "build" /\ phase \in Working
      /\ UNCHANGED <<checkout, ledger, accesses, caveat, exit, scanned>>
  BY DEF Build, Working
<1>2. /\ checkout \in [Pairs \X Side -> {"none", "partial", "default", "pinned"}]
      /\ checkout[<<Pair, side>>] = "pinned"
  BY <1>1 DEF PairInv, PairTypes, PinnedKnown
<1>3. CASE Exclude
  BY <1>1, <1>2, <1>3, SameScans, ExcludeInv
<1>4. CASE phase' = "scan" /\ UNCHANGED <<todo, side, outcomes, excluded>>
  BY <1>1, <1>2, <1>4, GoesOnInv DEF Working
<1>5. QED BY <1>3, <1>4 DEF Build, Failed

-----------------------------------------------------------------------------
(* The command: started, killed, its use of the held-out set recorded.      *)
LEMMA PairCommandInv ==
  ASSUME PairInv, Start \/ Kill \/ Record \/ Caveat \/ Report
  PROVE  PairInv'
<1>1. CASE Start
  <2>1. /\ todo' = PairList /\ side' = "vulnerable" /\ outcomes' = {} /\ excluded' = {}
        /\ phase' \in {"record", "clone"} /\ (HeldOutSet => phase' = "record")
        /\ caveat' = FALSE /\ exit' = "none"
        /\ UNCHANGED <<checkout, ledger, accesses, scanned>>
    BY <1>1 DEF Start
  <2>2. PairTypes'
    BY <2>1, ListOfPairs DEF PairInv, PairTypes, Running, Working, Side
  <2>3. LedgerKnown'
    BY <2>1 DEF PairInv, LedgerKnown, Working, Ended
  <2>4. WithOutcome' = {} /\ LeftOut' = {}
    BY <2>1 DEF WithOutcome, LeftOut
  <2>5. PairsPlaced'
    BY <2>1, <2>4, ListOfPairs, PairRunAssumption DEF PairsPlaced, Working, Ended
  <2>6. PinnedKnown'
    BY <2>1 DEF PairInv, PinnedKnown, PinnedIsScanned
  <2>7. QED BY <2>2, <2>3, <2>5, <2>6 DEF PairInv
<1>2. CASE Kill
  <2>1. /\ phase' = "over" /\ exit' = "killed" /\ ledger' \in {ledger, -1}
        /\ \/ checkout' = checkout
           \/ checkout' = [checkout EXCEPT ![<<Pair, side>>] = "partial"]
        /\ UNCHANGED <<accesses, todo, side, outcomes, excluded, caveat, scanned>>
    BY <1>2 DEF Kill
  <2>2. checkout \in [Pairs \X Side -> {"none", "partial", "default", "pinned"}]
    BY DEF PairInv, PairTypes
  <2>3. checkout' \in [Pairs \X Side -> {"none", "partial", "default", "pinned"}]
    BY <2>1, <2>2
  <2>4. PairTypes'
    BY <2>1, <2>3 DEF PairInv, PairTypes
  <2>5. LedgerKnown'
    BY <2>1 DEF PairInv, LedgerKnown, Working, Ended
  <2>6. PairsPlaced' /\ PinnedKnown'
    BY <2>1 DEF PairInv, PairsPlaced, PinnedKnown, PinnedIsScanned, Running, Working, Ended
  <2>7. QED BY <2>4, <2>5, <2>6 DEF PairInv
<1>3. CASE Record
  <2>1. /\ phase = "record" /\ exit = "none" /\ phase' \in {"over", "count"}
        /\ UNCHANGED <<checkout, todo, side, outcomes, excluded, caveat, scanned>>
    BY <1>3 DEF Record, PairInv, LedgerKnown
  <2>2. \/ /\ phase' = "over" /\ exit' = "error" /\ UNCHANGED <<ledger, accesses>>
        \/ /\ phase' = "count" /\ exit' = exit /\ ledger >= 0
           /\ ledger' = ledger + 1 /\ accesses' = accesses + 1
    BY <1>3 DEF Record, PairInv, PairTypes
  <2>3. ledger \in Int /\ accesses \in Nat /\ (ledger = -1 \/ ledger = accesses)
    BY DEF PairInv, PairTypes, LedgerKnown
  <2>4. /\ ledger' \in Int /\ accesses' \in Nat /\ (ledger' = -1 \/ ledger' = accesses')
        /\ phase' = "count" => ledger' = accesses' /\ accesses' >= 1
    BY <2>2, <2>3
  <2>5. PairTypes'
    BY <2>1, <2>4 DEF PairInv, PairTypes, Running
  <2>6. LedgerKnown'
    BY <2>1, <2>2, <2>4 DEF LedgerKnown, Working, Ended
  <2>7. WithOutcome' = WithOutcome /\ LeftOut' = LeftOut
    BY <2>1 DEF WithOutcome, LeftOut
  <2>8. PairsPlaced'
    BY <2>1, <2>2, <2>7 DEF PairInv, PairsPlaced, WasScanned, Running, Working, Ended
  <2>9. PinnedKnown'
    BY <2>1 DEF PairInv, PinnedKnown, PinnedIsScanned
  <2>10. QED BY <2>5, <2>6, <2>8, <2>9 DEF PairInv
<1>4. CASE Caveat
  <2>1. /\ phase = "count" /\ exit = "none" /\ phase' = "clone" /\ caveat' = (ledger > 1)
        /\ UNCHANGED <<checkout, ledger, accesses, todo, side, outcomes, excluded, scanned, exit>>
    BY <1>4 DEF Caveat, disk, PairInv, LedgerKnown
  <2>2. HeldOutSet => ledger = accesses /\ accesses >= 1
    BY <2>1 DEF PairInv, LedgerKnown
  <2>3. ASSUME ledger > 1 PROVE caveat'
    <3>1. caveat' = (ledger > 1)
      BY <2>1
    <3>2. QED BY <2>3, <3>1, Zenon
  <2>4. PairTypes'
    BY <2>1 DEF PairInv, PairTypes, Running, Working
  <2>5. HeldOutSet => accesses' >= 1 /\ (accesses' > 1 => caveat')
    BY <2>1, <2>2, <2>3
  <2>6. LedgerKnown'
    BY <2>1, <2>5 DEF PairInv, LedgerKnown
  <2>7. WithOutcome' = WithOutcome /\ LeftOut' = LeftOut
    BY <2>1 DEF WithOutcome, LeftOut
  <2>8. PairsPlaced'
    BY <2>1, <2>7 DEF PairInv, PairsPlaced, WasScanned, Running, Working, Ended
  <2>9. PinnedKnown'
    BY <2>1 DEF PairInv, PinnedKnown, PinnedIsScanned
  <2>10. QED BY <2>4, <2>6, <2>8, <2>9 DEF PairInv
<1>5. CASE Report
  <2>1. /\ phase = "report" /\ exit' \in Ended /\ phase' = "over"
        /\ UNCHANGED <<checkout, ledger, accesses, todo, side, outcomes, excluded, caveat, scanned>>
    BY <1>5 DEF Report, disk, Ended
  <2>2. PairTypes'
    BY <2>1 DEF PairInv, PairTypes
  <2>3. LedgerKnown'
    BY <2>1 DEF PairInv, LedgerKnown, Working
  <2>4. WithOutcome' = WithOutcome /\ LeftOut' = LeftOut
    BY <2>1 DEF WithOutcome, LeftOut
  <2>5. PairsPlaced'
    BY <2>1, <2>4 DEF PairInv, PairsPlaced, WasScanned, Running, Working
  <2>6. PinnedKnown'
    BY <2>1 DEF PairInv, PinnedKnown, PinnedIsScanned
  <2>7. QED BY <2>2, <2>3, <2>5, <2>6 DEF PairInv
<1>6. QED BY <1>1, <1>2, <1>3, <1>4, <1>5

(* Every step keeps the invariant. *)
LEMMA PairNextInv == PairInv /\ [PairNext]_pairVars => PairInv'
<1>1. ASSUME PairInv, PairNext PROVE PairInv'
  BY <1>1, PairCommandInv, CloneInv, CheckoutInv, BuildInv, ScanInv DEF PairNext, PairStep
<1>2. ASSUME PairInv, UNCHANGED pairVars PROVE PairInv'
  <2>1. /\ UNCHANGED <<checkout, ledger, accesses, phase, todo, side, outcomes, excluded,
                        caveat, exit, scanned>>
    BY <1>2 DEF pairVars
  <2>2. WithOutcome' = WithOutcome /\ LeftOut' = LeftOut /\ Pair' = Pair
    BY <2>1 DEF WithOutcome, LeftOut, Pair
  <2>3. PairTypes'
    BY <1>2, <2>1 DEF PairInv, PairTypes
  <2>4. LedgerKnown'
    BY <1>2, <2>1 DEF PairInv, LedgerKnown
  <2>5. PairsPlaced'
    BY <1>2, <2>1, <2>2 DEF PairInv, PairsPlaced, WasScanned
  <2>6. PinnedKnown'
    BY <1>2, <2>1, <2>2 DEF PairInv, PinnedKnown, PinnedIsScanned
  <2>7. QED BY <2>3, <2>4, <2>5, <2>6 DEF PairInv
<1>3. QED BY <1>1, <1>2

(* So it holds when the command is first started.                           *)
LEMMA PairInitInv == PairInit => PairInv
<1>1. ASSUME PairInit PROVE PairInv
  <2>1. <<>> \in Seq(Pairs) /\ Distinct(<<>>)
    BY DEF Distinct
  <2>2. PairTypes
    <3>1. checkout \in [Pairs \X Side -> {"none", "partial", "default", "pinned"}]
      BY <1>1 DEF PairInit
    <3>2. ledger \in Int /\ accesses \in Nat /\ side \in Side
      BY <1>1 DEF PairInit, Side
    <3>3. todo \in Seq(Pairs) /\ Distinct(todo) /\ phase = "off"
      BY <1>1, <2>1 DEF PairInit
    <3>4. QED BY <3>1, <3>2, <3>3 DEF PairTypes
  <2>3. QED BY <1>1, <2>2 DEF PairInit, PairInv, LedgerKnown, PairsPlaced, PinnedKnown,
           PinnedIsScanned, Running, Working, Ended
<1>2. QED BY <1>1

(* What the results document says follows from the invariant.               *)
LEMMA PairsMeasured == PairInv => PairsAreMeasured
<1>1. ASSUME PairInv PROVE PairsAreMeasured
  <2>1. PinnedIsScanned
    BY <1>1 DEF PairInv, PinnedKnown
  <2>2. PairOnce
    <3>1. ASSUME phase = "over", exit \notin {"killed", "error"}
          PROVE  /\ WithOutcome \cup LeftOut = Pairs
                 /\ WithOutcome \cap LeftOut = {}
                 /\ \A o \in outcomes : \A s \in Side : WasScanned(o.pair, s)
      <4>1. exit \in Ended /\ todo = <<>>
        BY <1>1, <3>1 DEF PairInv, LedgerKnown, PairsPlaced
      <4>2. Elements(todo) = {}
        BY <4>1 DEF Elements
      <4>3. QED BY <1>1, <4>1, <4>2 DEF PairInv, PairsPlaced
    <3>2. QED BY <3>1 DEF PairOnce, WithOutcome, LeftOut, WasScanned
  <2>3. ReuseIsTold
    BY <1>1 DEF PairInv, PairTypes, LedgerKnown, ReuseIsTold, Ended
  <2>4. QED BY <2>1, <2>2, <2>3 DEF PairsAreMeasured
<1>2. QED BY <1>1

(* What a run of pairs reports is what it scanned at the pinned revisions,  *)
(* each pair once, and a second use of the held-out set is told, for any    *)
(* manifest and whatever kills it and when (PairRun, PairsAreMeasured).     *)
THEOREM PairsAreAlwaysMeasured == PairSpec => []PairsAreMeasured
  BY PairInitInv, PairNextInv, PairsMeasured, PTL DEF PairSpec

-----------------------------------------------------------------------------
(* The pilot. *)

Repeating == {"drawn", "loaded", "wrote"}
FromRun(reports, n) ==
    IF n \in DOMAIN reports THEN [status |-> "completed", of |-> reports[n]]
    ELSE [status |-> "failed", of |-> <<>>]

(* There is a record of every repetition that is over, of what its run      *)
(* wrote or of a failure; the repetition under way has written a report     *)
(* only once it has.                                                        *)
RecordsKnown ==
    pilotAt \in Repeating \cup {"summed up"} =>
        /\ records \in Seq(Elements(records))
        /\ number \in 1..(Repetitions + 1) /\ Len(records) = number - 1
        /\ \A n \in 1..(number - 1) : records[n] = FromRun(wrote, n)
        /\ DOMAIN wrote \subseteq 1..number
        /\ number \in DOMAIN wrote <=> pilotAt = "wrote"
        /\ pilotAt = "wrote" => onDisk[number] = wrote[number]
        /\ pilotAt \in {"loaded", "wrote"} => number <= Repetitions
        /\ pilotAt = "summed up" => number = Repetitions + 1

AllAgree(reports, field) ==
    /\ DOMAIN reports # {}
    /\ \A m, n \in DOMAIN reports : reports[m][field] = reports[n][field]

(* The inductive invariant of a pilot. *)
PilotInv ==
    /\ RecordsKnown
    /\ StableMeansAllAgree

(* What it means for the next summary to say stable truly.                  *)
LEMMA StableIs ==
  ASSUME wrote' = wrote, \A f \in DOMAIN summary' : summary'[f] <=> AllAgree(wrote, f)
  PROVE  StableMeansAllAgree'
<1>1. \A f \in DOMAIN summary' : summary'[f] <=> AllAgree(wrote', f)
  BY Zenon
<1>2. QED BY <1>1, Zenon DEF StableMeansAllAgree, AllAgree

(* Steps that leave the records and the reports alone.                      *)
LEMMA SameRecords ==
  ASSUME PilotInv, UNCHANGED <<records, number, wrote, onDisk, pilotAt, summary>>
  PROVE  PilotInv'
<1>1. RecordsKnown'
  BY DEF PilotInv, RecordsKnown
<1>2. CASE SummedUp
  <2>1. \A f \in DOMAIN summary : summary[f] <=> AllAgree(wrote, f)
    BY <1>2, Zenon DEF PilotInv, StableMeansAllAgree, AllAgree
  <2>2. summary' = summary /\ wrote' = wrote
    OBVIOUS
  <2>3. \A f \in DOMAIN summary' : summary'[f] <=> AllAgree(wrote, f)
    BY <2>1, <2>2, Zenon
  <2>4. QED BY <1>1, <2>2, <2>3, StableIs DEF PilotInv
<1>3. CASE ~ SummedUp
  BY <1>1, <1>3 DEF PilotInv, StableMeansAllAgree, SummedUp
<1>4. QED BY <1>2, <1>3

(* Of the numbers up to the next one, those up to this one.                 *)
LEMMA NotTheLast ==
  ASSUME NEW top \in Nat, NEW n \in 1..(top + 1), n <= top
  PROVE  n \in Nat /\ n \in 1..top
  OBVIOUS

(* A repetition is over, with its report or without.                        *)
LEMMA RecordRunInv ==
  ASSUME PilotInv, pilotAt \in Repeating, number <= Repetitions,
         NEW record, records' = Append(records, record),
         number' = number + 1, pilotAt' = "drawn", DOMAIN wrote' \subseteq DOMAIN wrote,
         \A n \in DOMAIN wrote \ {number} : n \in DOMAIN wrote' /\ wrote'[n] = wrote[n],
         record = FromRun(wrote', number)
  PROVE  PilotInv'
<1>1. /\ records \in Seq(Elements(records)) /\ number \in Nat /\ Len(records) = number - 1
      /\ number \in 1..Repetitions /\ Repetitions \in Nat
      /\ \A n \in 1..(number - 1) : records[n] = FromRun(wrote, n)
      /\ DOMAIN wrote \subseteq 1..number
  <2>1. pilotAt \in Repeating \cup {"summed up"} /\ Repetitions \in Nat
    BY PilotAssumption
  <2>2. /\ records \in Seq(Elements(records))
        /\ number \in 1..(Repetitions + 1) /\ Len(records) = number - 1
        /\ \A n \in 1..(number - 1) : records[n] = FromRun(wrote, n)
        /\ DOMAIN wrote \subseteq 1..number
    BY <2>1 DEF PilotInv, RecordsKnown
  <2>3. number \in Nat /\ number \in 1..Repetitions
    <3>1. number \in 1..(Repetitions + 1)
      BY <2>2
    <3>2. QED BY <2>1, <3>1, NotTheLast
  <2>4. QED BY <2>1, <2>2, <2>3
<1>2. /\ records' \in Seq(Elements(records')) /\ Len(records') = number
      /\ \A n \in 1..(number - 1) : records'[n] = records[n]
      /\ records'[number] = record
  <2>1. /\ records' \in Seq(Elements(records')) /\ Len(records') = Len(records) + 1
        /\ \A n \in 1..Len(records) : records'[n] = records[n]
        /\ records'[Len(records) + 1] = record
    BY <1>1, OneMoreOfAny
  <2>2. Len(records) + 1 = number
    BY <1>1
  <2>3. QED BY <1>1, <2>1, <2>2
<1>3. ASSUME NEW n \in 1..number PROVE records'[n] = FromRun(wrote', n)
  <2>1. CASE n = number
    BY <1>2, <2>1
  <2>2. CASE n # number
    <3>1. n \in 1..(number - 1)
      BY <1>1, <2>2
    <3>2. records'[n] = FromRun(wrote, n)
      BY <1>1, <1>2, <3>1
    <3>3. /\ n \in DOMAIN wrote' <=> n \in DOMAIN wrote
          /\ n \in DOMAIN wrote' => wrote'[n] = wrote[n]
      BY <2>2
    <3>4. QED BY <3>2, <3>3 DEF FromRun
  <2>3. QED BY <2>1, <2>2
<1>4. number' - 1 = number /\ number' \in 1..(Repetitions + 1)
  BY <1>1
<1>5. DOMAIN wrote' \subseteq 1..number' /\ number' \notin DOMAIN wrote'
  BY <1>1
<1>6. RecordsKnown'
  BY <1>2, <1>3, <1>4, <1>5 DEF RecordsKnown
<1>7. StableMeansAllAgree'
  BY DEF StableMeansAllAgree, SummedUp
<1>8. QED BY <1>6, <1>7 DEF PilotInv

(* Whether the repetitions agree on a field.                                *)
LEMMA AgreeIs ==
  ASSUME RecordsKnown, pilotAt = "drawn", number = Repetitions + 1, NEW field
  PROVE  LET done == {n \in DOMAIN records : records[n].status = "completed"}
         IN  Agree(field, done) <=> AllAgree(wrote, field)
<1> DEFINE done == {n \in DOMAIN records : records[n].status = "completed"}
<1>1. /\ records \in Seq(Elements(records)) /\ Len(records) = Repetitions
      /\ Repetitions \in Nat
      /\ \A n \in 1..Repetitions : records[n] = FromRun(wrote, n)
      /\ DOMAIN wrote \subseteq 1..Repetitions
  <2>1. Repetitions \in Nat
    BY PilotAssumption
  <2>2. /\ records \in Seq(Elements(records)) /\ Len(records) = number - 1
        /\ \A n \in 1..(number - 1) : records[n] = FromRun(wrote, n)
        /\ DOMAIN wrote \subseteq 1..number /\ number \notin DOMAIN wrote
    BY DEF RecordsKnown, Repeating
  <2>3. number - 1 = Repetitions
    BY <2>1
  <2>4. DOMAIN wrote \subseteq 1..Repetitions
    BY <2>1, <2>2
  <2>5. QED BY <2>1, <2>2, <2>3, <2>4
<1>2. DOMAIN records = 1..Repetitions
  BY <1>1
<1>3. done = DOMAIN wrote
  <2>1. \A n \in DOMAIN wrote : n \in 1..Repetitions /\ records[n].status = "completed"
    BY <1>1 DEF FromRun
  <2>2. \A n \in 1..Repetitions : records[n].status = "completed" => n \in DOMAIN wrote
    BY <1>1 DEF FromRun
  <2>3. QED BY <1>2, <2>1, <2>2
<1>4. \A n \in done : records[n].of[field] = wrote[n][field]
  BY <1>1, <1>3 DEF FromRun
<1>5. IsFiniteSet(done)
  <2>1. IsFiniteSet(1..Repetitions) /\ DOMAIN wrote \in SUBSET (1..Repetitions)
    BY <1>1, CountUpTo
  <2>2. QED BY <1>3, <2>1, FS_Subset
<1> HIDE DEF done
<1>6. ASSUME done # {}
      PROVE  Cardinality({records[n].of[field] : n \in done}) = 1
               <=> \A m, n \in done : wrote[m][field] = wrote[n][field]
  <2> DEFINE f == [n \in done |-> wrote[n][field]]
  <2>1. {records[n].of[field] : n \in done} = {f[n] : n \in done}
    BY <1>4
  <2>2. \A n \in done : f[n] = wrote[n][field]
    OBVIOUS
  <2> HIDE DEF f
  <2>3. Cardinality({f[n] : n \in done}) = 1 <=> \A m, n \in done : f[m] = f[n]
    BY <1>5, <1>6, OneValue
  <2>4. QED BY <2>1, <2>2, <2>3
<1>7. Agree(field, done) <=>
         /\ done # {}
         /\ \A m, n \in done : wrote[m][field] = wrote[n][field]
  BY <1>6 DEF Agree
<1>8. QED BY <1>3, <1>7 DEF done, AllAgree

(* The summary says of every field what the repetitions say of it.          *)
LEMMA SumUpInv ==
  ASSUME PilotInv, SumUp
  PROVE  PilotInv'
<1> DEFINE done == {n \in DOMAIN records : records[n].status = "completed"}
<1>1. /\ pilotAt = "drawn" /\ number > Repetitions /\ pilotAt' = "summed up"
      /\ summary' = [candidates |-> Agree("candidates", done), corpus |-> Agree("corpus", done),
                     score |-> Agree("score", done)]
      /\ UNCHANGED <<records, number, wrote, onDisk>>
  BY DEF SumUp
<1>2. RecordsKnown /\ number = Repetitions + 1
  <2>1. RecordsKnown /\ number \in 1..(Repetitions + 1)
    BY <1>1 DEF PilotInv, RecordsKnown, Repeating
  <2>2. Repetitions \in Nat /\ number > Repetitions
    BY <1>1, PilotAssumption
  <2>3. QED BY <2>1, <2>2
<1>3. RecordsKnown'
  BY <1>1, <1>2 DEF RecordsKnown, Repeating, FromRun
<1>4. \A field : Agree(field, done) <=> AllAgree(wrote, field)
  BY <1>1, <1>2, AgreeIs
<1> HIDE DEF done
<1>5. DOMAIN summary' = {"candidates", "corpus", "score"}
  BY <1>1
<1>6. /\ summary'["candidates"] = Agree("candidates", done)
      /\ summary'["corpus"] = Agree("corpus", done)
      /\ summary'["score"] = Agree("score", done)
  BY <1>1
<1>7. /\ summary'["candidates"] <=> AllAgree(wrote, "candidates")
      /\ summary'["corpus"] <=> AllAgree(wrote, "corpus")
      /\ summary'["score"] <=> AllAgree(wrote, "score")
  BY <1>4, <1>6, Zenon
<1>8. \A f \in DOMAIN summary' : summary'[f] <=> AllAgree(wrote, f)
  BY <1>5, <1>7, Zenon
<1>9. wrote' = wrote
  BY <1>1
<1>10. StableMeansAllAgree'
  BY <1>8, <1>9, StableIs
<1>11. QED BY <1>3, <1>10 DEF PilotInv

(* Every step keeps the invariant. *)
LEMMA PilotNextInv == PilotInv /\ [PilotNext]_pilotVars => PilotInv'
<1> SUFFICES ASSUME PilotInv, [PilotNext]_pilotVars PROVE PilotInv'
  OBVIOUS
<1>1. CASE DrawCases
  <2>1. /\ pilotAt' = "drawn" /\ number' = 1 /\ records' = <<>> /\ DOMAIN wrote' = {}
    BY <1>1 DEF DrawCases
  <2>2. Repetitions \in Nat /\ 1 \in 1..(Repetitions + 1)
    BY PilotAssumption
  <2>3. records' \in Seq(Elements(records')) /\ Len(records') = 0
    BY <2>1
  <2>4. RecordsKnown'
    BY <2>1, <2>2, <2>3 DEF RecordsKnown
  <2>5. QED BY <2>1, <2>4 DEF PilotInv, StableMeansAllAgree, SummedUp
<1>2. CASE LoadCases
  <2>1. /\ pilotAt = "drawn" /\ number <= Repetitions /\ pilotAt' \in {"loaded", "crashed"}
        /\ UNCHANGED <<records, number, wrote, onDisk>>
    BY <1>2 DEF LoadCases
  <2>2. RecordsKnown'
    BY <2>1 DEF PilotInv, RecordsKnown, Repeating
  <2>3. QED BY <2>1, <2>2 DEF PilotInv, StableMeansAllAgree, SummedUp
<1>3. CASE ScanCase \/ ScanLostCase \/ StagedElsewhere
  <2>1. pilotAt = "loaded" /\ UNCHANGED <<records, number, wrote, onDisk, pilotAt, summary>>
    BY <1>3 DEF ScanCase, ScanLostCase, StagedElsewhere
  <2>2. QED BY <2>1, SameRecords
<1>4. CASE WriteReport
  <2>1. /\ pilotAt = "loaded" /\ pilotAt' = "wrote" /\ UNCHANGED <<records, number>>
        /\ onDisk' = WithReport(onDisk) /\ wrote' = WithReport(wrote)
    BY <1>4 DEF WriteReport
  <2>2. /\ DOMAIN wrote' = {number} \cup DOMAIN wrote
        /\ wrote'[number] = RunReport /\ onDisk'[number] = RunReport
        /\ \A n \in DOMAIN wrote \ {number} : wrote'[n] = wrote[n]
    <3>1. \A reports : /\ DOMAIN WithReport(reports) = {number} \cup DOMAIN reports
                        /\ WithReport(reports)[number] = RunReport
                        /\ \A n \in DOMAIN reports \ {number} :
                               WithReport(reports)[n] = reports[n]
      BY DEF WithReport
    <3>2. QED BY <2>1, <3>1
  <2>3. /\ records \in Seq(Elements(records))
        /\ number \in 1..(Repetitions + 1) /\ Len(records) = number - 1
        /\ \A n \in 1..(number - 1) : records[n] = FromRun(wrote, n)
        /\ DOMAIN wrote \subseteq 1..number
        /\ number \notin DOMAIN wrote /\ number <= Repetitions /\ number \in Nat
    BY <2>1, PilotAssumption DEF PilotInv, RecordsKnown, Repeating
  <2>4. ASSUME NEW n \in 1..(number - 1) PROVE records'[n] = FromRun(wrote', n)
    <3>1. n # number /\ records'[n] = FromRun(wrote, n)
      BY <2>1, <2>3
    <3>2. /\ n \in DOMAIN wrote' <=> n \in DOMAIN wrote
          /\ n \in DOMAIN wrote => wrote'[n] = wrote[n]
      BY <2>2, <3>1
    <3>3. QED BY <3>1, <3>2 DEF FromRun
  <2>5. DOMAIN wrote' \subseteq 1..number' /\ number' \in DOMAIN wrote'
    BY <2>1, <2>2, <2>3
  <2>6. RecordsKnown'
    BY <2>1, <2>2, <2>3, <2>4, <2>5 DEF RecordsKnown
  <2>7. QED BY <2>1, <2>6 DEF PilotInv, StableMeansAllAgree, SummedUp
<1>5. CASE EmptySuite
  <2>1. /\ pilotAt = "drawn" /\ number <= Repetitions /\ wrote' = wrote
        /\ records' = Append(records, [status |-> "failed", of |-> <<>>])
        /\ number' = number + 1 /\ pilotAt' = "drawn"
    BY <1>5 DEF EmptySuite, RecordRun, RecordOf
  <2>2. number \notin DOMAIN wrote
    BY <2>1 DEF PilotInv, RecordsKnown, Repeating
  <2>3. FromRun(wrote', number) = [status |-> "failed", of |-> <<>>]
    BY <2>1, <2>2 DEF FromRun
  <2>4. QED BY <2>1, <2>3, RecordRunInv DEF Repeating
<1>6. CASE Completed
  <2>1. /\ pilotAt = "wrote" /\ wrote' = wrote
        /\ records' = Append(records, [status |-> "completed", of |-> onDisk[number]])
        /\ number' = number + 1 /\ pilotAt' = "drawn"
    BY <1>6 DEF Completed, RecordRun, RecordOf
  <2>2. number <= Repetitions /\ number \in DOMAIN wrote /\ onDisk[number] = wrote[number]
    BY <2>1 DEF PilotInv, RecordsKnown, Repeating
  <2>3. FromRun(wrote', number) = [status |-> "completed", of |-> onDisk[number]]
    BY <2>1, <2>2 DEF FromRun
  <2>4. QED BY <2>1, <2>2, <2>3, RecordRunInv DEF Repeating
<1>7. CASE FailedRun
  <2>1. /\ pilotAt \in {"loaded", "wrote"}
        /\ wrote' = [n \in DOMAIN wrote \ {number} |-> wrote[n]]
        /\ records' = Append(records, [status |-> "failed", of |-> <<>>])
        /\ number' = number + 1 /\ pilotAt' = "drawn"
    BY <1>7 DEF FailedRun, RecordRun, RecordOf
  <2>2. number <= Repetitions
    BY <2>1 DEF PilotInv, RecordsKnown, Repeating
  <2>3. FromRun(wrote', number) = [status |-> "failed", of |-> <<>>]
    BY <2>1 DEF FromRun
  <2>4. /\ DOMAIN wrote' \subseteq DOMAIN wrote
        /\ \A n \in DOMAIN wrote \ {number} : n \in DOMAIN wrote' /\ wrote'[n] = wrote[n]
    BY <2>1
  <2>5. QED BY <2>1, <2>2, <2>3, <2>4, RecordRunInv DEF Repeating
<1>8. CASE UpdateCheckout
  <2>1. UNCHANGED <<records, number, wrote, onDisk, pilotAt, summary>>
    BY <1>8 DEF UpdateCheckout
  <2>2. QED BY <2>1, SameRecords
<1>9. CASE PilotAgain
  BY <1>9 DEF PilotAgain, PilotInv, RecordsKnown, Repeating, StableMeansAllAgree, SummedUp
<1>10. CASE UNCHANGED pilotVars
  <2>1. UNCHANGED <<records, number, wrote, onDisk, pilotAt, summary>>
    BY <1>10 DEF pilotVars
  <2>2. QED BY <2>1, SameRecords
<1>11. QED
  BY <1>1, <1>2, <1>3, <1>4, <1>5, <1>6, <1>7, <1>8, <1>9, <1>10, SumUpInv DEF PilotNext

(* A summary is of the repetitions that were run and of all of them, and    *)
(* says stable of what they agree on, for any number of them and whatever   *)
(* was edited or failed in between (Pilot, PilotIsOfItsRuns).               *)
THEOREM PilotIsAlwaysOfItsRuns == PilotSpec => []PilotIsOfItsRuns
<1>1. PilotIdle => PilotInv
  BY DEF PilotIdle, PilotInv, RecordsKnown, Repeating, StableMeansAllAgree, SummedUp
<1>2. ASSUME PilotInv PROVE PilotIsOfItsRuns
  <2>1. RecordsOwnReport
    <3>1. SUFFICES ASSUME pilotAt = "summed up"
          PROVE  /\ Len(records) = Repetitions
                 /\ \A n \in 1..Repetitions : records[n] = FromRun(wrote, n)
      BY DEF RecordsOwnReport, SummedUp, FromRun
    <3>2. /\ number = Repetitions + 1 /\ Len(records) = number - 1
          /\ \A n \in 1..(number - 1) : records[n] = FromRun(wrote, n)
      BY <1>2, <3>1 DEF PilotInv, RecordsKnown
    <3>3. number - 1 = Repetitions
      BY <3>2, PilotAssumption
    <3>4. QED BY <3>2, <3>3
  <2>2. QED BY <1>2, <2>1 DEF PilotInv, PilotIsOfItsRuns
<1>3. QED BY <1>1, <1>2, PilotNextInv, PTL DEF PilotSpec

-----------------------------------------------------------------------------
(* Comparison. *)

Difference(a, b) == [refused |-> FALSE, delta |-> Delta(a, b), cost |-> Beyond(a, b),
                     failing |-> a.failing \cup b.failing, caveats |-> Caveats(a, b)]

(* What was answered is about the two reports that were given.              *)
CompareInv ==
    /\ left \in Reports /\ right \in Reports
    /\ outcome # NoRecord =>
           \/ ~ AssertComparable(left, right) /\ outcome = [refused |-> TRUE]
           \/ AssertComparable(left, right) /\ outcome = Difference(left, right)

(* Whether two reports can be compared does not depend on their order.      *)
LEMMA EitherOrder ==
  ASSUME NEW a, NEW b
  PROVE  AssertComparable(a, b) <=> AssertComparable(b, a)
<1>1. PoliciesToCheck(a, b) = PoliciesToCheck(b, a)
  BY DEF PoliciesToCheck
<1>2. \A x, y : Differ(x, y) <=> Differ(y, x)
  BY DEF Differ
<1>3. QED BY <1>1, <1>2 DEF AssertComparable

(* A policy that was not the same, or not recorded, in runs that can be     *)
(* compared is a caveat.                                                    *)
LEMMA UncheckedIsTold ==
  ASSUME NEW a, NEW b, AssertComparable(a, b),
         NEW name \in PoliciesToCheck(a, b),
         a.policies[name] # b.policies[name] \/ a.policies[name] = NoRecord
  PROVE  name \in Caveats(a, b) \/ (name = "matching" /\ Policy(a, name) = Policy(b, name))
<1>1. ~ Differ(Policy(a, name), Policy(b, name))
  BY DEF AssertComparable
<1>2. CASE Policy(a, name) = NoRecord \/ Policy(b, name) = NoRecord
  BY <1>2 DEF Caveats
<1>3. CASE Policy(a, name) # NoRecord /\ Policy(b, name) # NoRecord
  <2>1. Policy(a, name) = Policy(b, name)
    BY <1>1, <1>3 DEF Differ
  <2>2. name = "matching"
    BY <1>3, <2>1 DEF Policy
  <2>3. QED BY <2>1, <2>2
<1>4. QED BY <1>2, <1>3

(* A delta is given for two measurements of one change.                     *)
LEMMA ComparedIsLike ==
  ASSUME CompareInv
  PROVE  LikeForLike
<1> SUFFICES ASSUME outcome # NoRecord, ~ outcome.refused
    PROVE  /\ left.suite = right.suite /\ left.scoredUnder = right.scoredUnder
           /\ left.scope # right.scope => "cases not recorded" \in outcome.caveats
           /\ \A name \in PoliciesToCheck(left, right) :
                  left.policies[name] # right.policies[name] \/ left.policies[name] = NoRecord
                     => \/ name \in outcome.caveats
                        \/ name = "matching" /\ Policy(left, name) = Policy(right, name)
  BY DEF LikeForLike, Accepted, PoliciesToCheck
<1>1. AssertComparable(left, right) /\ outcome = Difference(left, right)
  BY DEF CompareInv
<1>2. outcome.caveats = Caveats(left, right)
  BY <1>1 DEF Difference
<1>3. left.suite = right.suite /\ left.scoredUnder = right.scoredUnder
  BY <1>1 DEF AssertComparable
<1>4. left.scope # right.scope => "cases not recorded" \in Caveats(left, right)
  BY <1>1 DEF AssertComparable, Caveats
<1>5. QED BY <1>1, <1>2, <1>3, <1>4, UncheckedIsTold

(* The other order gives the negative of every delta.                       *)
LEMMA ComparedBySign ==
  ASSUME CompareInv
  PROVE  SignOnly
<1>1. CASE outcome = NoRecord
  BY <1>1 DEF SignOnly
<1>2. CASE outcome # NoRecord /\ ~ AssertComparable(left, right)
  <2>1. outcome = [refused |-> TRUE] /\ ~ AssertComparable(right, left)
    BY <1>2, EitherOrder DEF CompareInv
  <2>2. outcome.refused = TRUE
    BY <2>1
  <2>3. QED BY <2>1, <2>2, Zenon DEF SignOnly
<1>3. CASE outcome # NoRecord /\ AssertComparable(left, right)
  <2>1. outcome = Difference(left, right) /\ AssertComparable(right, left)
    BY <1>3, EitherOrder DEF CompareInv
  <2>2. outcome.refused = FALSE /\ outcome.delta = Delta(left, right)
    BY <2>1 DEF Difference
  <2>3. /\ left.confirmed \in Nat /\ right.confirmed \in Nat
        /\ left.review \in Nat /\ right.review \in Nat
    BY ComparisonAssumption DEF CompareInv
  <2>4. /\ outcome.delta.confirmed = 0 - Delta(right, left).confirmed
        /\ outcome.delta.review = 0 - Delta(right, left).review
    BY <2>2, <2>3 DEF Delta
  <2>5. /\ DOMAIN outcome.delta.families = DOMAIN left.families \cup DOMAIN right.families
        /\ \A f \in DOMAIN left.families \cup DOMAIN right.families :
               outcome.delta.families[f] = Value(right, f) - Value(left, f)
    BY <2>2 DEF Delta
  <2>6. outcome.refused = ~ AssertComparable(right, left)
    BY <2>1, <2>2, Zenon
  <2>7. QED BY <2>4, <2>5, <2>6, Zenon DEF SignOnly
<1>4. QED BY <1>1, <1>2, <1>3

(* Only like is compared with like, and the order of two runs decides the   *)
(* sign of a delta and nothing else, for any two reports (Comparison,       *)
(* ComparedLikeForLike).                                                    *)
THEOREM AlwaysComparedLikeForLike == CompareSpec => []ComparedLikeForLike
<1>1. CompareInit => CompareInv
  BY DEF CompareInit, CompareInv
<1>2. CompareInv /\ [CompareNext]_compareVars => CompareInv'
  <2>1. ASSUME CompareInv, CompareNext PROVE CompareInv'
    <3>1. /\ outcome' = IF ~ AssertComparable(left, right) THEN [refused |-> TRUE]
                        ELSE Difference(left, right)
          /\ UNCHANGED <<left, right>>
      BY <2>1 DEF CompareNext, CompareRuns, Difference
    <3>2. \/ ~ AssertComparable(left, right) /\ outcome' = [refused |-> TRUE]
          \/ AssertComparable(left, right) /\ outcome' = Difference(left, right)
      BY <3>1
    <3>3. left' = left /\ right' = right
      BY <3>1
    <3>4. QED BY <2>1, <3>2, <3>3 DEF CompareInv
  <2>2. ASSUME CompareInv, UNCHANGED compareVars PROVE CompareInv'
    BY <2>2 DEF CompareInv, compareVars
  <2>3. QED BY <2>1, <2>2
<1>3. CompareInv => ComparedLikeForLike
  BY ComparedIsLike, ComparedBySign DEF ComparedLikeForLike
<1>4. QED BY <1>1, <1>2, <1>3, PTL DEF CompareSpec

-----------------------------------------------------------------------------
(* Reads of a file under edit: its lines. *)

LineEnds(data) == {i \in 1..Len(data) - 1 : data[i] = Break}
Breaks(data, from, to) == Cardinality({i \in from..to : data[i] = Break})

(* The newlines up to a place that is not the last byte end the lines       *)
(* before it.                                                               *)
LEMMA BreaksAreEnds ==
  ASSUME NEW data \in Seq(Nat)
  PROVE  /\ LineEnds(data) \in SUBSET (1..Len(data))
         /\ IsFiniteSet(LineEnds(data)) /\ Cardinality(LineEnds(data)) \in Nat
         /\ \A s \in 0..Len(data) - 1 : Breaks(data, 1, s) = Below(LineEnds(data), s)
         /\ Len(data) > 0 /\ data[Len(data)] = Break =>
                Breaks(data, 1, Len(data)) = Cardinality(LineEnds(data)) + 1
         /\ ~ (Len(data) > 0 /\ data[Len(data)] = Break) =>
                Breaks(data, 1, Len(data)) = Cardinality(LineEnds(data))
<1> DEFINE E == LineEnds(data)
           L == Len(data)
<1>1. L \in Nat /\ E \in SUBSET (1..L) /\ \A i \in E : i \in 1..L - 1 /\ data[i] = Break
  BY DEF LineEnds
<1>2. \A i \in 1..L - 1 : data[i] = Break => i \in E
  BY DEF LineEnds
<1> HIDE DEF E, L
<1>3. IsFiniteSet(E) /\ Cardinality(E) \in Nat
  BY <1>1, NextBelow
<1>4. ASSUME NEW s \in 0..L - 1 PROVE Breaks(data, 1, s) = Below(E, s)
  <2>1. \A i \in 1..s : i \in 1..L - 1 /\ i <= s
    BY <1>1
  <2>2. \A i \in E : i <= s => i \in 1..s
    BY <1>1
  <2>3. {i \in 1..s : data[i] = Break} = {j \in E : j <= s}
    BY <1>1, <1>2, <2>1, <2>2
  <2>4. QED BY <2>3 DEF Breaks, Below
<1>5. ASSUME L > 0 /\ data[L] = Break PROVE Breaks(data, 1, L) = Cardinality(E) + 1
  <2>1. L \notin E /\ L \in 1..L /\ \A i \in 1..L : i = L \/ i \in 1..L - 1
    BY <1>1, <1>5
  <2>2. {i \in 1..L : data[i] = Break} = E \cup {L}
    BY <1>1, <1>2, <1>5, <2>1
  <2>3. Cardinality(E \cup {L}) = Cardinality(E) + 1
    BY <1>3, <2>1, FS_AddElement
  <2>4. QED BY <2>2, <2>3 DEF Breaks
<1>6. ASSUME ~ (L > 0 /\ data[L] = Break) PROVE Breaks(data, 1, L) = Cardinality(E)
  <2>1. \A i \in 1..L : data[i] = Break => i \in 1..L - 1
    BY <1>1, <1>6
  <2>2. {i \in 1..L : data[i] = Break} = E
    BY <1>1, <1>2, <2>1
  <2>3. QED BY <2>2 DEF Breaks
<1>7. QED BY <1>1, <1>3, <1>4, <1>5, <1>6 DEF E, L

(* The newlines up to a place are those up to an earlier one and those in   *)
(* between.                                                                 *)
LEMMA BreaksInParts ==
  ASSUME NEW data, NEW from \in Nat, NEW to \in Nat, from <= to
  PROVE  /\ Breaks(data, 1, from) \in Nat /\ Breaks(data, from + 1, to) \in Nat
         /\ Breaks(data, 1, to) = Breaks(data, 1, from) + Breaks(data, from + 1, to)
<1> DEFINE S == {i \in 1..to : data[i] = Break}
           T == {i \in 1..from : data[i] = Break}
           U == {i \in (from + 1)..to : data[i] = Break}
<1>1. \A i \in 1..to : i \in 1..from \/ i \in (from + 1)..to
  OBVIOUS
<1>2. \A i \in (from + 1)..to : i \in 1..to /\ i \notin 1..from
  OBVIOUS
<1>3. 1..from \subseteq 1..to
  OBVIOUS
<1>4. T \subseteq S /\ U = S \ T
  BY <1>1, <1>2, <1>3
<1>5. IsFiniteSet(S)
  <2>1. IsFiniteSet(1..to) /\ S \in SUBSET (1..to)
    BY CountUpTo
  <2>2. QED BY <2>1, FS_Subset
<1>6. /\ Breaks(data, 1, to) = Cardinality(S) /\ Breaks(data, 1, from) = Cardinality(T)
      /\ Breaks(data, from + 1, to) = Cardinality(U)
  BY DEF Breaks
<1> HIDE DEF S, T, U
<1>7. /\ Cardinality(T) \in Nat /\ Cardinality(S \ T) \in Nat
      /\ Cardinality(S) = Cardinality(T) + Cardinality(S \ T)
  BY <1>4, <1>5, CountRest
<1>8. QED BY <1>4, <1>6, <1>7

(* Every line starts after as many newlines as there are lines before it.   *)
LEMMA LineStartsAre ==
  ASSUME NEW data \in Seq(Nat)
  PROVE  /\ LineCount(data) = Cardinality(LineEnds(data)) + 1
         /\ \A n \in 1..LineCount(data) :
                LET s == LineStarts(data)[n]
                IN  /\ s \in 0..Len(data) /\ Breaks(data, 1, s) = n - 1
                    /\ n = 1 => s = 0
                    /\ n # 1 => s \in 1..Len(data) - 1 /\ data[s] = Break
<1> DEFINE E == LineEnds(data)
           L == Len(data)
           starts == LineStarts(data)
           Nth(n) == CHOOSE i \in E : Cardinality({j \in E : j <= i}) = n - 1
<1>1. starts = [n \in 1..Cardinality(E) + 1 |-> IF n = 1 THEN 0 ELSE Nth(n)]
  BY DEF LineStarts, LineEnds
<1>a. \A i \in E : i \in 1..L - 1 /\ data[i] = Break
  BY DEF LineEnds
<1>b. /\ L \in Nat /\ E \in SUBSET (1..L) /\ Cardinality(E) \in Nat
      /\ \A s \in 0..L - 1 : Breaks(data, 1, s) = Below(E, s)
  <2>1. L \in Nat
    OBVIOUS
  <2>2. QED BY <2>1, BreaksAreEnds
<1> HIDE DEF E, L, starts
<1>2. /\ L \in Nat /\ E \in SUBSET (1..L) /\ Cardinality(E) \in Nat
      /\ \A s \in 0..L - 1 : Breaks(data, 1, s) = Below(E, s)
      /\ \A i \in E : i \in Nat /\ i \in 1..L - 1 /\ data[i] = Break
  BY <1>a, <1>b
<1>3. ASSUME NEW n \in 2..Cardinality(E) + 1
      PROVE  Nth(n) \in E /\ Below(E, Nth(n)) = n - 1
  <2>1. n - 1 \in 1..Cardinality(E)
    BY <1>2
  <2>2. \E i \in E : Below(E, i) = n - 1
    BY <1>2, <2>1, NthOf
  <2>3. \E i \in E : Cardinality({j \in E : j <= i}) = n - 1
    BY <2>2 DEF Below
  <2>4. Nth(n) \in E /\ Cardinality({j \in E : j <= Nth(n)}) = n - 1
    BY <2>3
  <2>5. QED BY <2>4 DEF Below
<1> HIDE DEF Nth
<1>4. starts \in Seq(Nat) /\ Len(starts) = Cardinality(E) + 1
  <2>1. \A n \in 1..Cardinality(E) + 1 : n = 1 \/ n \in 2..Cardinality(E) + 1
    BY <1>2
  <2>2. ASSUME NEW n \in 2..Cardinality(E) + 1 PROVE Nth(n) \in Nat
    <3>1. Nth(n) \in E
      BY <1>3
    <3>2. QED BY <1>2, <3>1
  <2>3. starts \in [1..Cardinality(E) + 1 -> Nat]
    BY <1>1, <2>1, <2>2
  <2>4. Cardinality(E) + 1 \in Nat
    BY <1>2
  <2>5. QED BY <2>3, <2>4
<1>5. LineCount(data) = Cardinality(E) + 1
  BY <1>4 DEF LineCount, starts
<1>6. ASSUME NEW n \in 1..Cardinality(E) + 1
      PROVE  /\ starts[n] \in 0..L /\ Breaks(data, 1, starts[n]) = n - 1
             /\ n = 1 => starts[n] = 0
             /\ n # 1 => starts[n] \in 1..L - 1 /\ data[starts[n]] = Break
  <2>1. CASE n = 1
    <3>1. starts[n] = 0
      BY <1>1, <2>1
    <3>2. Breaks(data, 1, 0) = 0
      <4>1. {i \in 1..0 : data[i] = Break} = {}
        OBVIOUS
      <4>2. QED BY <4>1, FS_EmptySet DEF Breaks
    <3>3. QED BY <1>2, <2>1, <3>1, <3>2
  <2>2. CASE n # 1
    <3>1. n \in 2..Cardinality(E) + 1
      BY <1>2, <2>2
    <3>2. starts[n] = Nth(n)
      BY <1>1, <2>2
    <3>3. starts[n] \in E /\ Below(E, starts[n]) = n - 1
      BY <1>3, <3>1, <3>2
    <3>4. starts[n] \in 1..L - 1 /\ data[starts[n]] = Break
      BY <1>2, <3>3
    <3>5. starts[n] \in 0..L /\ starts[n] \in 0..L - 1
      BY <1>2, <3>4
    <3>6. QED BY <1>2, <2>2, <3>3, <3>4, <3>5
  <2>3. QED BY <2>1, <2>2
<1>7. QED BY <1>5, <1>6 DEF starts, E, L

(* A span is of some lines of a file. *)
OfItsLines(data, first, last, from, to) ==
    /\ data \in Contents /\ first \in Int /\ last \in Int
    /\ 1 <= first /\ first <= last /\ last <= LineCount(data)
    /\ from = SpanIn(data, first, last).from /\ to = SpanIn(data, first, last).to

(* The span of some lines of a file: it starts after the newlines of the    *)
(* lines before them and holds theirs, and the last line may have none.     *)
LEMMA SpanIs ==
  ASSUME NEW data, NEW first, NEW last, NEW from, NEW to,
         OfItsLines(data, first, last, from, to)
  PROVE  /\ from \in 0..Len(data) /\ to \in 0..Len(data) /\ from <= to
         /\ Breaks(data, 1, from) = first - 1 /\ (first - 1 > 0 => data[from] = Break)
         /\ IF to > 0 /\ data[to] = Break
            THEN Breaks(data, from + 1, to) = last - first + 1
            ELSE Breaks(data, from + 1, to) = last - first /\ to = Len(data)
         /\ data # <<>> => from < to
<1> DEFINE L == Len(data)
           count == LineCount(data)
           E == Cardinality(LineEnds(data))
<1>a. data \in Seq(Nat)
  BY SourceReadsAssumption DEF OfItsLines
<1>b. first \in Int /\ last \in Int /\ 1 <= first /\ first <= last /\ last <= count
  BY DEF OfItsLines
<1>1. /\ from = LineStarts(data)[first]
      /\ to = IF last < count THEN LineStarts(data)[last + 1] ELSE L
  BY DEF SpanIn, OfItsLines
<1>2. L \in Nat /\ (data # <<>> => L > 0)
  BY <1>a
<1>3. /\ E \in Nat
      /\ L > 0 /\ data[L] = Break => Breaks(data, 1, L) = E + 1
      /\ ~ (L > 0 /\ data[L] = Break) => Breaks(data, 1, L) = E
  BY <1>a, BreaksAreEnds
<1>4. count = E + 1
  BY <1>a, LineStartsAre
<1>5. first \in 1..count
  BY <1>3, <1>4, <1>b
<1>6. /\ from \in 0..L /\ Breaks(data, 1, from) = first - 1
      /\ first = 1 => from = 0
      /\ first # 1 => from \in 1..L - 1 /\ data[from] = Break
  BY <1>1, <1>5, <1>a, LineStartsAre
<1>7. /\ to \in 0..L /\ from <= to /\ (data # <<>> => from < to)
      /\ IF to > 0 /\ data[to] = Break
         THEN Breaks(data, 1, to) = last
         ELSE Breaks(data, 1, to) = last - 1 /\ to = L
  <2>1. CASE last < count
    <3>1. last + 1 \in 1..count /\ last + 1 # 1
      BY <1>3, <1>4, <1>b, <2>1
    <3>2. to = LineStarts(data)[last + 1]
      BY <1>1, <2>1
    <3>3. to \in 1..L - 1 /\ data[to] = Break /\ Breaks(data, 1, to) = last + 1 - 1
      <4>1. PICK n \in 1..count : n = last + 1
        BY <3>1
      <4>2. LineStarts(data)[n] \in 1..L - 1 /\ data[LineStarts(data)[n]] = Break
            /\ Breaks(data, 1, LineStarts(data)[n]) = n - 1
        BY <1>a, <3>1, <4>1, LineStartsAre
      <4>3. to = LineStarts(data)[n]
        BY <3>2, <4>1, Zenon
      <4>4. to \in 1..L - 1 /\ data[to] = Break /\ Breaks(data, 1, to) = n - 1
        BY <4>2, <4>3, Zenon
      <4>5. n - 1 = last + 1 - 1
        BY <4>1, <1>b
      <4>6. QED BY <4>4, <4>5, Zenon
    <3> HIDE DEF L, count, E
    <3>4. to \in Nat /\ from \in Nat /\ Breaks(data, 1, to) = last
      BY <1>2, <1>6, <1>b, <3>3
    <3>5. ASSUME to <= from PROVE FALSE
      <4>1. /\ Breaks(data, 1, to) \in Nat /\ Breaks(data, to + 1, from) \in Nat
            /\ Breaks(data, 1, from) = Breaks(data, 1, to) + Breaks(data, to + 1, from)
        BY <3>4, <3>5, BreaksInParts
      <4>2. QED BY <1>6, <1>b, <3>4, <4>1
    <3>6. from < to
      BY <3>4, <3>5
    <3>7. QED BY <1>2, <3>3, <3>4, <3>6
  <2>2. CASE ~ (last < count)
    <3>1. to = L /\ last = E + 1
      BY <1>b, <1>1, <1>3, <1>4, <2>2
    <3> HIDE DEF L, count, E
    <3>2. L > 0 => from < L
      BY <1>2, <1>6
    <3>3. to \in 0..L /\ from <= to /\ (data # <<>> => from < to)
      BY <1>2, <1>6, <3>1, <3>2
    <3>4. QED BY <1>3, <1>b, <3>1, <3>3
  <2>3. QED BY <2>1, <2>2
<1> HIDE DEF L, count, E
<1>8. from \in Nat /\ to \in Nat
  BY <1>2, <1>6, <1>7
<1>9. Breaks(data, 1, to) = first - 1 + Breaks(data, from + 1, to)
      /\ Breaks(data, from + 1, to) \in Nat
  <2>1. from <= to
    BY <1>7
  <2>2. /\ Breaks(data, from + 1, to) \in Nat
        /\ Breaks(data, 1, to) = Breaks(data, 1, from) + Breaks(data, from + 1, to)
    BY <1>8, <2>1, BreaksInParts
  <2>3. QED BY <1>6, <2>2
<1>10. first - 1 > 0 => data[from] = Break
  BY <1>6, <1>b
<1>11. IF to > 0 /\ data[to] = Break
       THEN Breaks(data, from + 1, to) = last - first + 1
       ELSE Breaks(data, from + 1, to) = last - first /\ to = L
  BY <1>7, <1>9, <1>b
<1>12. QED BY <1>6, <1>7, <1>10, <1>11 DEF L

LEMMA SliceHolds ==
  ASSUME NEW data \in Seq(Nat), NEW from \in 0..Len(data), NEW to \in 0..Len(data), from < to
  PROVE  Slice(data, from, to) # <<>>
<1>1. from + 1 \in 1..Len(data) /\ to \in Nat /\ to <= Len(data) /\ Len(data) \in Nat
  OBVIOUS
<1>2. Slice(data, from, to) = SubSeq(data, from + 1, to)
  BY <1>1 DEF Slice
<1>3. Len(SubSeq(data, from + 1, to)) = to - (from + 1) + 1
  BY <1>1
<1>4. to - (from + 1) + 1 # 0
  BY <1>1
<1>5. Len(<<>>) = 0
  OBVIOUS
<1>6. QED BY <1>2, <1>3, <1>4, <1>5, Zenon

(* What is known of the store between two steps: the bytes it has belong to *)
(* the status they are kept under, so a status that is still the file's is  *)
(* of bytes that still are; and while nobody edits, the span the first load *)
(* gave and the region made are of the lines of the file as it is.          *)
RequestKnown ==
    asked # Nothing =>
        /\ answer = "none"
        /\ \/ asked.op = "region" /\ asked.first \in Int /\ asked.last \in Int
           \/ asked.op = "around" /\ asked.line \in Nat /\ asked.around \in Nat
           \/ asked.op = "again"

LoadKnown ==
    status # Nothing =>
        asked # Nothing /\ status.ctime \in Nat /\ status.ctime <= ctime /\ bytes \in during

CacheKnown ==
    cached # Nothing =>
        /\ cached.status.ctime \in Nat /\ cached.status.ctime <= ctime
        /\ cached.status.ctime = ctime => cached.data = bytes

SpanKnown ==
    quiet /\ asked # Nothing /\ turn = 2 /\ asked.op = "region" =>
        OfItsLines(bytes, asked.first, asked.last, span.from, span.to)

RegionKnown ==
    quiet /\ answer = "made" =>
        /\ OfItsLines(bytes, region.first, region.last, region.from, region.to)
        /\ region.holds = Slice(bytes, region.from, region.to)

StoreInv ==
    /\ bytes \in Contents \cup {Nothing} /\ ctime \in Nat /\ turn \in {1, 2}
    /\ RequestKnown /\ LoadKnown /\ CacheKnown /\ SpanKnown /\ RegionKnown

(* A region of its lines is what RegionIsItsLines says of it.               *)
LEMMA RegionHolds ==
  ASSUME StoreInv
  PROVE  RegionIsItsLines
<1> SUFFICES ASSUME answer = "made" /\ quiet PROVE RegionIsItsLines
  BY DEF RegionIsItsLines
<1>1. /\ OfItsLines(bytes, region.first, region.last, region.from, region.to)
      /\ region.holds = Slice(bytes, region.from, region.to)
  BY DEF StoreInv, RegionKnown
<1>2. bytes \in Seq(Nat)
  BY <1>1, SourceReadsAssumption DEF OfItsLines
<1>3. /\ region.from \in 0..Len(bytes) /\ region.to \in 0..Len(bytes)
      /\ Breaks(bytes, 1, region.from) = region.first - 1
      /\ region.first - 1 > 0 => bytes[region.from] = Break
      /\ IF region.to > 0 /\ bytes[region.to] = Break
         THEN Breaks(bytes, region.from + 1, region.to) = region.last - region.first + 1
         ELSE /\ Breaks(bytes, region.from + 1, region.to) = region.last - region.first
              /\ region.to = Len(bytes)
      /\ bytes # <<>> => region.from < region.to
  BY <1>1, SpanIs
<1>4. bytes # <<>> => region.holds # <<>>
  BY <1>1, <1>2, <1>3, SliceHolds
<1>5. Breaks(bytes, 1, region.from) > 0 => bytes[region.from] = Break
  BY <1>3
<1>6. QED BY <1>1, <1>3, <1>4, <1>5 DEF RegionIsItsLines, Breaks

(* What a request does with the bytes of its load keeps what is known, and  *)
(* it ends the load: those bytes are the file's, and it was just looked at. *)
LEMMA WithInv ==
  ASSUME StoreInv, bytes \in Contents, asked # Nothing, With(bytes),
         bytes' = bytes, ctime' = ctime, quiet' = quiet, status' = Nothing,
         CacheKnown'
  PROVE  StoreInv'
<1>1. /\ ctime \in Nat /\ turn \in {1, 2} /\ RequestKnown /\ SpanKnown
      /\ bytes \in Seq(Nat)
  BY SourceReadsAssumption DEF StoreInv
<1>2. LoadKnown' /\ bytes' \in Contents \cup {Nothing} /\ ctime' \in Nat
  BY <1>1 DEF LoadKnown
<1>3. LineCount(bytes) \in Nat
  BY <1>1, LineStartsAre, BreaksAreEnds
<1>4. answer = "none"
  BY <1>1 DEF RequestKnown
<1>5. CASE asked.op = "around"
  <2>1. AroundLine(bytes) /\ asked.line \in Nat /\ asked.around \in Nat
    BY <1>1, <1>5 DEF With, RequestKnown
  <2>2. CASE asked' = Nothing
    <3>1. answer' # "made" /\ turn' \in {1, 2}
      BY <1>1, <1>4, <2>1 DEF AroundLine, Ends, Goes
    <3>2. QED BY <1>2, <2>2, <3>1 DEF StoreInv, RequestKnown, SpanKnown, RegionKnown
  <2>3. CASE asked' # Nothing
    <3> DEFINE end == asked.line + asked.around
               first == IF asked.line > asked.around THEN asked.line - asked.around ELSE 1
               last == IF end < LineCount(bytes) THEN end ELSE LineCount(bytes)
    <3>1. /\ asked' = [op |-> "region", first |-> first, last |-> last]
          /\ turn' = 1 /\ answer' = answer
      BY <2>1, <2>3 DEF AroundLine, Ends, Goes
    <3>a. first \in Int /\ last \in Int
      BY <1>3, <2>1
    <3> HIDE DEF first, last
    <3>2. /\ asked'.op = "region" /\ asked'.first \in Int /\ asked'.last \in Int
          /\ answer' = "none" /\ turn' = 1
      BY <1>4, <3>1, <3>a
    <3>3. QED BY <1>2, <3>2 DEF StoreInv, RequestKnown, SpanKnown, RegionKnown
  <2>4. QED BY <2>2, <2>3
<1>6. CASE asked.op = "region" /\ turn = 1
  <2>1. SpanOfLines(bytes) /\ asked.first \in Int /\ asked.last \in Int
    BY <1>1, <1>6 DEF With, RequestKnown
  <2>2. CASE asked' = Nothing
    <3>1. answer' # "made" /\ turn' \in {1, 2}
      BY <1>1, <1>4, <2>1 DEF SpanOfLines, Ends, Goes
    <3>2. QED BY <1>2, <2>2, <3>1 DEF StoreInv, RequestKnown, SpanKnown, RegionKnown
  <2>3. CASE asked' # Nothing
    <3>1. /\ ~ (asked.first < 1 \/ asked.last < asked.first \/ asked.last > LineCount(bytes))
          /\ asked' = asked /\ turn' = 2 /\ answer' = answer
          /\ span' = SpanIn(bytes, asked.first, asked.last)
      BY <2>1, <2>3 DEF SpanOfLines, Ends, Goes
    <3>2. OfItsLines(bytes, asked.first, asked.last, span'.from, span'.to)
      BY <1>3, <2>1, <3>1 DEF OfItsLines
    <3>3. SpanKnown'
      BY <3>1, <3>2 DEF SpanKnown
    <3>4. RequestKnown' /\ RegionKnown'
      BY <1>1, <1>4, <3>1 DEF RequestKnown, RegionKnown
    <3>5. QED BY <1>2, <3>1, <3>3, <3>4 DEF StoreInv
  <2>4. QED BY <2>2, <2>3
<1>7. CASE asked.op = "region" /\ turn = 2
  <2>1. BytesOfSpan(bytes)
    BY <1>7 DEF With
  <2>2. /\ region' = [first |-> asked.first, last |-> asked.last, from |-> span.from,
                      to |-> span.to, holds |-> Slice(bytes, span.from, span.to)]
        /\ asked' = Nothing /\ turn' = turn
    BY <2>1 DEF BytesOfSpan, Ends
  <2>3. quiet => OfItsLines(bytes, asked.first, asked.last, span.from, span.to)
    BY <1>1, <1>7 DEF SpanKnown
  <2>4. /\ region'.first = asked.first /\ region'.last = asked.last
        /\ region'.from = span.from /\ region'.to = span.to
        /\ region'.holds = Slice(bytes, span.from, span.to)
    BY <2>2
  <2>5. RegionKnown'
    BY <2>3, <2>4 DEF RegionKnown
  <2>6. QED BY <1>1, <1>2, <2>2, <2>5 DEF StoreInv, RequestKnown, SpanKnown
<1>8. CASE asked.op = "again"
  <2>1. asked' = Nothing /\ turn' = turn /\ answer' # "made"
    BY <1>8 DEF With, ReadAgain, Ends
  <2>2. QED BY <1>1, <1>2, <2>1 DEF StoreInv, RequestKnown, SpanKnown, RegionKnown
<1>9. asked.op \in {"region", "around", "again"}
  BY <1>1 DEF RequestKnown
<1>10. QED BY <1>1, <1>5, <1>6, <1>7, <1>8, <1>9

(* A load that is not under way had no bytes to read.                       *)
LEMMA LookInv ==
  ASSUME StoreInv, Look
  PROVE  StoreInv' /\ (loaded' # loaded \/ asked' # asked \/ turn' # turn =>
                           \/ answer' \in {"region error", "os error"}
                           \/ loaded' \in during')
<1>1. /\ asked # Nothing /\ status = Nothing /\ during' = {bytes}
      /\ bytes' = bytes /\ ctime' = ctime /\ cached' = cached /\ quiet' = quiet
  BY DEF Look
<1>2. /\ bytes \in Contents \cup {Nothing} /\ ctime \in Nat /\ turn \in {1, 2}
      /\ RequestKnown /\ CacheKnown /\ SpanKnown /\ RegionKnown /\ answer = "none"
  BY <1>1 DEF StoreInv, RequestKnown
<1>3. CacheKnown' /\ bytes' \in Contents \cup {Nothing} /\ ctime' \in Nat
  BY <1>1, <1>2 DEF CacheKnown
<1>4. ASSUME asked' = Nothing, answer' = "region error", turn' = turn, status' = status
      PROVE  StoreInv'
  BY <1>1, <1>2, <1>3, <1>4 DEF StoreInv, RequestKnown, LoadKnown, SpanKnown, RegionKnown
<1>5. CASE bytes = Nothing
  BY <1>4, <1>5 DEF Look, Ends
<1>6. CASE bytes # Nothing /\ StillCached(StatusNow)
  <2>1. With(cached.data) /\ status' = status
    BY <1>6 DEF Look
  <2>2. cached # Nothing /\ cached.status.ctime = ctime
    BY <1>6 DEF StillCached, StatusNow
  <2>3. cached.data = bytes
    BY <1>2, <2>2 DEF CacheKnown
  <2>4. With(bytes) /\ status' = Nothing /\ bytes \in Contents
    BY <1>1, <1>2, <1>6, <2>1, <2>3
  <2>5. StoreInv'
    BY <1>1, <1>3, <2>4, WithInv
  <2>6. loaded' = bytes
    BY <2>4 DEF With
  <2>7. QED BY <1>1, <2>5, <2>6
<1>7. CASE bytes # Nothing /\ ~ StillCached(StatusNow) /\ Len(bytes) > MaxFileBytes
  BY <1>4, <1>7 DEF Look, Ends
<1>8. CASE bytes # Nothing /\ ~ StillCached(StatusNow) /\ ~ (Len(bytes) > MaxFileBytes)
  <2>1. /\ status' = StatusNow /\ asked' = asked /\ turn' = turn /\ answer' = answer
        /\ loaded' = loaded /\ span' = span /\ region' = region
    BY <1>8 DEF Look
  <2>2. status'.ctime = ctime
    BY <2>1 DEF StatusNow
  <2>3. LoadKnown'
    BY <1>1, <1>2, <2>1, <2>2 DEF LoadKnown
  <2>4. RequestKnown' /\ SpanKnown' /\ RegionKnown'
    BY <1>1, <1>2, <2>1 DEF RequestKnown, SpanKnown, RegionKnown
  <2>5. QED BY <1>2, <1>3, <2>1, <2>3, <2>4 DEF StoreInv
<1>9. QED BY <1>5, <1>6, <1>7, <1>8

LEMMA ReadBytesInv ==
  ASSUME StoreInv, ReadBytes
  PROVE  StoreInv' /\ (\/ answer' \in {"region error", "os error"} \/ loaded' \in during')
<1>1. /\ status # Nothing /\ status' = Nothing /\ during' = during
      /\ bytes' = bytes /\ ctime' = ctime /\ quiet' = quiet
  BY DEF ReadBytes
<1>2. /\ bytes \in Contents \cup {Nothing} /\ ctime \in Nat /\ turn \in {1, 2}
      /\ RequestKnown /\ CacheKnown /\ SpanKnown /\ RegionKnown
      /\ asked # Nothing /\ status.ctime \in Nat /\ status.ctime <= ctime /\ bytes \in during
  BY <1>1 DEF StoreInv, LoadKnown
<1>3. CASE bytes = Nothing
  <2>1. /\ answer' = "os error" /\ asked' = Nothing /\ turn' = turn /\ cached' = cached
    BY <1>3 DEF ReadBytes, Ends
  <2>2. QED
    BY <1>1, <1>2, <2>1
    DEF StoreInv, RequestKnown, LoadKnown, CacheKnown, SpanKnown, RegionKnown
<1>4. CASE bytes # Nothing
  <2>1. cached' = [status |-> status, data |-> bytes] /\ With(bytes) /\ bytes \in Contents
    BY <1>2, <1>4 DEF ReadBytes
  <2>2. cached'.status = status /\ cached'.data = bytes
    BY <2>1
  <2>3. CacheKnown'
    BY <1>1, <1>2, <2>2 DEF CacheKnown
  <2>4. StoreInv'
    BY <1>1, <1>2, <2>1, <2>3, WithInv
  <2>5. loaded' = bytes
    BY <2>1 DEF With
  <2>6. QED BY <1>1, <1>2, <2>4, <2>5
<1>5. QED BY <1>3, <1>4

LEMMA StoreNextInv == StoreInv /\ [StoreNext]_storeVars => StoreInv'
<1> SUFFICES ASSUME StoreInv, [StoreNext]_storeVars PROVE StoreInv'
  OBVIOUS
<1>1. CASE Ask
  <2>1. PICK request \in Asked : asked' = request
    BY <1>1 DEF Ask
  <2>2. \/ request.op = "region" /\ request.first \in Nat /\ request.last \in Nat
        \/ request.op = "around" /\ request.line \in Nat /\ request.around \in Nat
        \/ request.op = "again"
    BY <2>1, SourceReadsAssumption
  <2>3. /\ asked = Nothing /\ turn' = 1 /\ answer' = "none"
        /\ bytes' = bytes /\ ctime' = ctime /\ cached' = cached /\ status' = status
    BY <1>1 DEF Ask
  <2>4. RequestKnown'
    BY <2>1, <2>2, <2>3 DEF RequestKnown
  <2>5. LoadKnown' /\ CacheKnown'
    BY <2>3 DEF StoreInv, LoadKnown, CacheKnown
  <2>6. QED BY <2>3, <2>4, <2>5 DEF StoreInv, SpanKnown, RegionKnown
<1>2. CASE EditFile
  <2>1. /\ ctime' = ctime + 1 /\ bytes' \in Contents \cup {Nothing} /\ quiet' = FALSE
        /\ during' = during \cup {bytes'} /\ turn' = turn
        /\ cached' = cached /\ asked' = asked /\ status' = status /\ answer' = answer
    BY <1>2 DEF EditFile
  <2>2. ctime \in Nat /\ turn \in {1, 2} /\ RequestKnown /\ LoadKnown /\ CacheKnown
    BY DEF StoreInv
  <2>3. LoadKnown'
    BY <2>1, <2>2 DEF LoadKnown
  <2>4. CacheKnown'
    BY <2>1, <2>2 DEF CacheKnown
  <2>5. RequestKnown'
    BY <2>1, <2>2 DEF RequestKnown
  <2>6. QED BY <2>1, <2>2, <2>3, <2>4, <2>5 DEF StoreInv, SpanKnown, RegionKnown
<1>3. CASE UNCHANGED storeVars
  <2>1. /\ bytes' = bytes /\ ctime' = ctime /\ turn' = turn /\ cached' = cached
        /\ asked' = asked /\ status' = status /\ answer' = answer /\ span' = span
        /\ region' = region /\ during' = during /\ quiet' = quiet
    BY <1>3 DEF storeVars
  <2>2. QED
    BY <2>1
    DEF StoreInv, RequestKnown, LoadKnown, CacheKnown, SpanKnown, RegionKnown
<1>4. QED BY <1>1, <1>2, <1>3, LookInv, ReadBytesInv DEF StoreNext

(* Every read is of the file as it is, up to an edit that keeps its size    *)
(* and times: what a load gives back the file held while it was under way,  *)
(* and a region made while nobody edits is its lines (evidence/store.py).   *)
THEOREM ReadsAreAlwaysCurrent == StoreSpec => ReadsAreCurrent
<1>1. StoreInit => StoreInv
  <2> SUFFICES ASSUME StoreInit PROVE StoreInv
    OBVIOUS
  <2>1. /\ bytes \in Contents /\ ctime = 0 /\ cached = Nothing /\ asked = Nothing
        /\ turn = 1 /\ status = Nothing /\ answer = "none"
    BY DEF StoreInit
  <2>2. QED
    BY <2>1 DEF StoreInv, RequestKnown, LoadKnown, CacheKnown, SpanKnown, RegionKnown
<1>2. StoreInv /\ [StoreNext]_storeVars => StoreInv'
  BY StoreNextInv
<1>3. StoreInv => RegionIsItsLines
  BY RegionHolds
<1>4. StoreInv /\ [StoreNext]_storeVars =>
          [asked # Nothing /\ (asked' # asked \/ turn' # turn)
           /\ answer' \notin {"region error", "os error"} => loaded' \in during']_storeVars
  <2> SUFFICES ASSUME StoreInv, StoreNext, asked # Nothing, asked' # asked \/ turn' # turn,
                      answer' \notin {"region error", "os error"}
               PROVE  loaded' \in during'
    OBVIOUS
  <2>1. ~ Ask
    BY DEF Ask
  <2>2. ~ EditFile
    BY DEF EditFile
  <2>3. QED BY <2>1, <2>2, LookInv, ReadBytesInv DEF StoreNext
<1>5. QED BY <1>1, <1>2, <1>3, <1>4, PTL DEF StoreSpec, ReadsAreCurrent, LoadIsCurrent

-----------------------------------------------------------------------------
(* The reproducible bundle: the archive of some files. *)

(* The members at some places are those members, each once.                 *)
LEMMA AtPlacesAre ==
  ASSUME NEW X, NEW s \in Seq(X), NEW places \in SUBSET (DOMAIN s)
  PROVE  /\ AtPlaces(s, places) \in Seq(X)
         /\ Elements(AtPlaces(s, places)) = {s[i] : i \in places}
         /\ (\A i, j \in DOMAIN s : s[i] = s[j] => i = j) => Distinct(AtPlaces(s, places))
<1> DEFINE C == Cardinality(places)
           L == Len(s)
           Nth(n) == CHOOSE i \in places : Cardinality({j \in places : j <= i}) = n
           nth == [n \in 1..C |-> Nth(n)]
           files == AtPlaces(s, places)
<1>1. L \in Nat /\ places \in SUBSET (1..L) /\ DOMAIN s = 1..L /\ \A i \in 1..L : s[i] \in X
  OBVIOUS
<1>2. files = [n \in 1..C |-> s[Nth(n)]]
  BY DEF AtPlaces
<1> HIDE DEF L, files
<1>3. C \in Nat /\ IsFiniteSet(places)
  BY <1>1, NextBelow
<1>c. Cardinality(places) = C
  OBVIOUS
<1>4. ASSUME NEW n \in 1..C PROVE Nth(n) \in places /\ Below(places, Nth(n)) = n
  <2>1. \E i \in places : Below(places, i) = n
    BY <1>1, NthOf
  <2>2. \E i \in places : Cardinality({j \in places : j <= i}) = n
    BY <2>1 DEF Below
  <2>3. Nth(n) \in places /\ Cardinality({j \in places : j <= Nth(n)}) = n
    BY <2>2
  <2>4. QED BY <2>3 DEF Below
<1> HIDE DEF Nth, C
<1>5. nth \in [1..C -> places] /\ \A n \in 1..C : nth[n] = Nth(n)
  BY <1>4
<1>6. \A m, n \in 1..C : nth[m] = nth[n] => m = n
  BY <1>4, <1>5
<1> HIDE DEF nth
<1>7. \A i \in places : \E n \in 1..C : nth[n] = i
  <2>1. IsFiniteSet(1..C) /\ Cardinality(1..C) = C
    BY <1>3, CountUpTo
  <2>2. Cardinality(1..C) = Cardinality(places)
    BY <1>c, <2>1
  <2>3. QED BY <1>3, <1>5, <1>6, <2>1, <2>2, CountInto
<1>8. DOMAIN files = 1..C /\ \A n \in 1..C : files[n] = s[nth[n]] /\ nth[n] \in places
  BY <1>2, <1>5
<1>9. files \in Seq(X)
  <2>1. \A n \in 1..C : s[Nth(n)] \in X
    BY <1>1, <1>4
  <2>2. files \in [1..C -> X]
    BY <1>2, <2>1
  <2>3. QED BY <1>3, <2>2
<1>10. ASSUME \A i, j \in DOMAIN s : s[i] = s[j] => i = j PROVE Distinct(files)
  <2>1. ASSUME NEW m \in 1..C, NEW n \in 1..C, files[m] = files[n] PROVE m = n
    <3>1. nth[m] \in 1..L /\ nth[n] \in 1..L /\ s[nth[m]] = s[nth[n]]
      BY <1>1, <1>8, <2>1
    <3>2. nth[m] = nth[n]
      BY <1>1, <1>10, <3>1
    <3>3. QED BY <1>6, <3>2
  <2>2. QED BY <1>8, <2>1 DEF Distinct
<1>11. Elements(files) = {s[i] : i \in places}
  <2>1. ASSUME NEW n \in DOMAIN files PROVE \E i \in places : files[n] = s[i]
    BY <1>8
  <2>2. ASSUME NEW i \in places PROVE \E n \in DOMAIN files : files[n] = s[i]
    BY <1>7, <1>8
  <2>3. QED BY <2>1, <2>2 DEF Elements
<1>12. QED BY <1>9, <1>10, <1>11 DEF files

(* The files at some places, in the order of their names. *)
InOrder(places) == AtPlaces(PathOrder, places)

LEMMA InOrderIs ==
  ASSUME NEW places \in SUBSET (DOMAIN PathOrder)
  PROVE  /\ InOrder(places) \in Seq(STRING) /\ Distinct(InOrder(places))
         /\ Elements(InOrder(places)) = {PathOrder[i] : i \in places}
<1>1. PathOrder \in Seq(STRING) /\ \A i, j \in DOMAIN PathOrder : PathOrder[i] = PathOrder[j] => i = j
  BY ReproBundleAssumption DEF IsInjective
<1>2. QED BY <1>1, AtPlacesAre DEF InOrder

(* What is written for the files at some places that hold certain contents. *)
OfContents(places, holds) ==
    [i \in DOMAIN InOrder(places) |->
        Member(InOrder(places)[i], holds[InOrder(places)[i]])]

Paths == {PathOrder[i] : i \in DOMAIN PathOrder}

LEMMA PayloadsAre ==
  ASSUME NEW places \in SUBSET (DOMAIN PathOrder), NEW holds,
         NEW p, p = OfContents(places, holds)
  PROVE  /\ p \in Seq(Elements(p)) /\ DOMAIN p = DOMAIN InOrder(places)
         /\ \A i \in DOMAIN p : /\ p[i].name = InOrder(places)[i] /\ p[i].name \in Paths
                                /\ p[i] = Member(p[i].name, p[i].data)
         /\ \A i, j \in DOMAIN p : p[i].name = p[j].name => i = j
<1> DEFINE files == InOrder(places)
<1>1. /\ files \in Seq(STRING) /\ Distinct(files)
      /\ Elements(files) = {PathOrder[i] : i \in places}
  BY InOrderIs
<1>2. p = [i \in DOMAIN files |-> Member(files[i], holds[files[i]])]
  BY DEF OfContents
<1> HIDE DEF files
<1>3. DOMAIN files = 1..Len(files) /\ Len(files) \in Nat
  BY <1>1
<1>4. \A i \in DOMAIN files : files[i] \in Paths
  BY <1>1 DEF Elements, Paths
<1>5. DOMAIN p = DOMAIN files /\ \A i \in DOMAIN p : p[i] = Member(files[i], holds[files[i]])
  BY <1>2
<1>6. \A i \in DOMAIN p : p[i].name = files[i] /\ p[i] = Member(p[i].name, p[i].data)
  BY <1>5 DEF Member
<1>7. p \in Seq(Elements(p))
  <2>1. p = [i \in 1..Len(files) |-> p[i]]
    BY <1>2, <1>3
  <2>2. \A i \in 1..Len(files) : p[i] \in Elements(p)
    BY <1>3, <1>5 DEF Elements
  <2>3. p \in [1..Len(files) -> Elements(p)]
    BY <2>1, <2>2
  <2>4. QED BY <1>3, <2>3
<1>8. \A i, j \in DOMAIN p : p[i].name = p[j].name => i = j
  BY <1>1, <1>5, <1>6 DEF Distinct
<1>9. QED BY <1>4, <1>5, <1>6, <1>7, <1>8 DEF files

(* The same members are of the same files with the same contents.           *)
LEMMA MembersDecide ==
  ASSUME NEW a \in SUBSET (DOMAIN PathOrder), NEW b \in SUBSET (DOMAIN PathOrder),
         NEW holds, NEW keeps,
         Elements(OfContents(a, holds)) = Elements(OfContents(b, keeps))
  PROVE  OfContents(a, holds) = OfContents(b, keeps)
<1> PICK p : p = OfContents(a, holds)
  OBVIOUS
<1> PICK q : q = OfContents(b, keeps)
  OBVIOUS
<1>1. \A i \in DOMAIN p : \E j \in DOMAIN q : q[j] = p[i]
  BY DEF Elements
<1>2. \A j \in DOMAIN q : \E i \in DOMAIN p : q[j] = p[i]
  BY DEF Elements
<1>3. /\ DOMAIN p = DOMAIN InOrder(a) /\ \A i \in DOMAIN p : p[i].name = InOrder(a)[i]
      /\ DOMAIN q = DOMAIN InOrder(b) /\ \A i \in DOMAIN q : q[i].name = InOrder(b)[i]
      /\ \A i, j \in DOMAIN q : q[i].name = q[j].name => i = j
  BY PayloadsAre
<1>4. Elements(InOrder(a)) = Elements(InOrder(b))
  <2>1. \A i \in DOMAIN InOrder(a) : \E j \in DOMAIN InOrder(b) : InOrder(b)[j] = InOrder(a)[i]
    BY <1>1, <1>3
  <2>2. \A j \in DOMAIN InOrder(b) : \E i \in DOMAIN InOrder(a) : InOrder(b)[j] = InOrder(a)[i]
    BY <1>2, <1>3
  <2>3. QED BY <2>1, <2>2 DEF Elements
<1>5. {PathOrder[i] : i \in a} = {PathOrder[i] : i \in b}
  BY <1>4, InOrderIs
<1>6. \A i, j \in DOMAIN PathOrder : PathOrder[i] = PathOrder[j] => i = j
  BY ReproBundleAssumption DEF IsInjective
<1>7. a = b
  <2>1. ASSUME NEW i \in a PROVE i \in b
    <3>1. PICK j \in b : PathOrder[j] = PathOrder[i]
      BY <1>5
    <3>2. QED BY <1>6, <3>1
  <2>2. ASSUME NEW i \in b PROVE i \in a
    <3>1. PICK j \in a : PathOrder[j] = PathOrder[i]
      BY <1>5
    <3>2. QED BY <1>6, <3>1
  <2>3. QED BY <2>1, <2>2
<1>8. p = [i \in DOMAIN InOrder(a) |-> p[i]] /\ q = [i \in DOMAIN InOrder(b) |-> q[i]]
  BY DEF OfContents
<1>9. \A i \in DOMAIN InOrder(a) : p[i] = q[i]
  <2> SUFFICES ASSUME NEW i \in DOMAIN InOrder(a) PROVE p[i] = q[i]
    OBVIOUS
  <2>1. PICK j \in DOMAIN q : q[j] = p[i]
    BY <1>1, <1>3
  <2>2. q[j].name = q[i].name /\ i \in DOMAIN q
    BY <1>3, <1>7, <2>1
  <2>3. QED BY <1>3, <2>1, <2>2
<1>10. QED BY <1>7, <1>8, <1>9

(* An archive is its two members and the payloads.                          *)
ManifestOf(p) == Member("manifest", [artifacts |-> p, tables |-> Tables(p)])
TablesOf(p) == Member("tables", Tables(p))

LEMMA ArchiveIs ==
  ASSUME NEW p, p \in Seq(Elements(p))
  PROVE  LET all == Archive(p)
         IN  /\ all \in Seq(Elements(all))
             /\ Elements(all) = {ManifestOf(p), TablesOf(p)} \cup Elements(p)
             /\ Len(p) \in Nat /\ DOMAIN p = 1..Len(p) /\ DOMAIN all = 1..Len(p) + 2
             /\ all[1] = ManifestOf(p) /\ all[2] = TablesOf(p)
             /\ \A i \in 1..Len(p) : all[i + 2] = p[i]
<1> DEFINE two == <<ManifestOf(p), TablesOf(p)>>
           X == {ManifestOf(p), TablesOf(p)} \cup Elements(p)
           all == Archive(p)
<1>1. all = two \o p
  BY DEF Archive, ManifestOf, TablesOf
<1>2. /\ two \in Seq(X) /\ Len(two) = 2 /\ two[1] = ManifestOf(p) /\ two[2] = TablesOf(p)
  OBVIOUS
<1>3. p \in Seq(X) /\ Len(p) \in Nat /\ DOMAIN p = 1..Len(p)
  <2>1. \A i \in DOMAIN p : p[i] \in X
    BY DEF Elements
  <2> HIDE DEF X
  <2>2. QED BY <2>1
<1> HIDE DEF two, X, all
<1>4. /\ all \in Seq(X) /\ Len(all) = Len(p) + 2 /\ DOMAIN all = 1..Len(p) + 2
      /\ all[1] = two[1] /\ all[2] = two[2] /\ \A i \in 1..Len(p) : all[i + 2] = p[i]
  <2>1. two \in Seq(X) /\ p \in Seq(X) /\ Len(two) = 2 /\ Len(p) \in Nat
    BY <1>2, <1>3
  <2>a. /\ all \in Seq(X) /\ Len(all) = Len(two) + Len(p)
        /\ \A i \in 1..Len(two) + Len(p) :
               all[i] = IF i <= Len(two) THEN two[i] ELSE p[i - Len(two)]
    BY <1>1, <2>1, ConcatProperties
  <2>2. all \in Seq(X) /\ Len(all) = Len(p) + 2
    BY <2>1, <2>a
  <2>3. DOMAIN all = 1..Len(p) + 2
    BY <2>2
  <2>4. all[1] = two[1] /\ all[2] = two[2]
    BY <2>1, <2>a
  <2>5. ASSUME NEW i \in 1..Len(p) PROVE all[i + 2] = p[i]
    <3>1. i + 2 \in 3..Len(p) + 2 /\ i + 2 - 2 = i
      BY <2>1
    <3>2. i + 2 \in 1..Len(two) + Len(p) /\ ~ (i + 2 <= Len(two))
      BY <2>1
    <3>3. QED BY <2>1, <2>a, <3>1, <3>2
  <2>6. QED BY <2>2, <2>3, <2>4, <2>5
<1>5. Elements(all) = X
  <2>1. \A i \in 1..Len(p) + 2 : i = 1 \/ i = 2 \/ (i - 2 \in 1..Len(p) /\ all[i] = p[i - 2])
    <3>1. \A i \in 1..Len(p) + 2 : i = 1 \/ i = 2 \/ (i - 2 \in 1..Len(p) /\ i - 2 + 2 = i)
      BY <1>3
    <3>2. QED BY <1>4, <3>1
  <2>2. \A i \in 1..Len(p) : i + 2 \in 1..Len(p) + 2
    BY <1>3
  <2>3. 1 \in 1..Len(p) + 2 /\ 2 \in 1..Len(p) + 2
    BY <1>3
  <2>4. Elements(all) \subseteq X
    BY <1>2, <1>3, <1>4, <2>1 DEF X, Elements
  <2>5. X \subseteq Elements(all)
    <3>1. two[1] \in Elements(all) /\ two[2] \in Elements(all)
      BY <1>4, <2>3 DEF Elements
    <3>2. ASSUME NEW i \in DOMAIN p PROVE p[i] \in Elements(all)
      <4>1. i + 2 \in DOMAIN all /\ all[i + 2] = p[i]
        BY <1>3, <1>4, <2>2
      <4>2. QED BY <4>1 DEF Elements
    <3>3. \A x \in Elements(p) : x \in Elements(all)
      BY <3>2 DEF Elements
    <3>4. QED BY <1>2, <3>1, <3>3 DEF X
  <2>6. QED BY <2>4, <2>5
<1>6. QED BY <1>2, <1>3, <1>4, <1>5 DEF all, X

(* A bundle that was built: the archive of some files and their contents.   *)
IsBuilt(b) ==
    \E places \in SUBSET (DOMAIN PathOrder) : \E holds :
        b = [files   |-> Elements(OfContents(places, holds)),
             archive |-> Archive(OfContents(places, holds))]

(* What stands on disk of it: its members, or damaged ones.                 *)
Stands(b) ==
    /\ damaged = 0 => archive = b.archive
    /\ \A i \in DOMAIN archive :
           /\ archive[i] = Member(archive[i].name, archive[i].data)
           /\ archive[i] \in Elements(b.archive) \/ archive[i].data = Garbled

BundleInv ==
    /\ damaged \in Nat
    /\ \A b \in builds : IsBuilt(b)
    /\ archive # NoArchive =>
           archive \in Seq(Elements(archive)) /\ \E b \in builds : Stands(b)
    /\ DamageIsFound /\ BuiltIsAccepted

LEMMA SameFilesAre ==
  ASSUME NEW a, NEW b, IsBuilt(a), IsBuilt(b), a.files = b.files
  PROVE  a.archive = b.archive
<1>1. PICK s \in SUBSET (DOMAIN PathOrder) : \E holds :
          a = [files |-> Elements(OfContents(s, holds)), archive |-> Archive(OfContents(s, holds))]
  BY DEF IsBuilt
<1>2. PICK holds :
          a = [files |-> Elements(OfContents(s, holds)), archive |-> Archive(OfContents(s, holds))]
  BY <1>1
<1>3. PICK t \in SUBSET (DOMAIN PathOrder) : \E keeps :
          b = [files |-> Elements(OfContents(t, keeps)), archive |-> Archive(OfContents(t, keeps))]
  BY DEF IsBuilt
<1>4. PICK keeps :
          b = [files |-> Elements(OfContents(t, keeps)), archive |-> Archive(OfContents(t, keeps))]
  BY <1>3
<1>5. Elements(OfContents(s, holds)) = Elements(OfContents(t, keeps))
  BY <1>2, <1>4
<1>6. OfContents(s, holds) = OfContents(t, keeps)
  BY <1>5, MembersDecide
<1>7. QED BY <1>2, <1>4, <1>6

(* The members of a bundle, and what their names say of them.               *)
LEMMA BuiltHas ==
  ASSUME NEW b, IsBuilt(b)
  PROVE  \E p : /\ p \in Seq(Elements(p)) /\ b.files = Elements(p) /\ b.archive = Archive(p)
                /\ \A i \in DOMAIN p : p[i].name \in Paths /\ p[i] = Member(p[i].name, p[i].data)
                /\ \A i, j \in DOMAIN p : p[i].name = p[j].name => i = j
<1>1. PICK s \in SUBSET (DOMAIN PathOrder) : \E holds :
          b = [files |-> Elements(OfContents(s, holds)), archive |-> Archive(OfContents(s, holds))]
  BY DEF IsBuilt
<1>2. PICK holds :
          b = [files |-> Elements(OfContents(s, holds)), archive |-> Archive(OfContents(s, holds))]
  BY <1>1
<1> PICK p : p = OfContents(s, holds)
  OBVIOUS
<1>3. /\ p \in Seq(Elements(p))
      /\ \A i \in DOMAIN p : p[i].name \in Paths /\ p[i] = Member(p[i].name, p[i].data)
      /\ \A i, j \in DOMAIN p : p[i].name = p[j].name => i = j
  BY PayloadsAre
<1>4. b.files = Elements(p) /\ b.archive = Archive(p)
  BY <1>2
<1>5. QED BY <1>3, <1>4

LEMMA PathsApart == /\ "manifest" \notin Paths /\ "tables" \notin Paths
                    /\ "unsafe" \notin Paths /\ Bystander \notin Paths
<1>1. Paths = ToSet(PathOrder)
  BY DEF Paths, ToSet
<1>2. QED BY <1>1, ReproBundleAssumption

(* In an archive of distinct names a name has the data of its member.       *)
LEMMA DataIs ==
  ASSUME IsInjective(Names), NEW i \in DOMAIN archive
  PROVE  DataOf(archive[i].name) = archive[i].data
<1> DEFINE j == CHOOSE k \in DOMAIN archive : Names[k] = archive[i].name
<1>1. DOMAIN Names = DOMAIN archive /\ \A k \in DOMAIN archive : Names[k] = archive[k].name
  BY DEF Names
<1>2. j \in DOMAIN archive /\ Names[j] = archive[i].name
  BY <1>1
<1>3. DataOf(archive[i].name) = archive[j].data
  BY DEF DataOf
<1> HIDE DEF j
<1>4. j = i
  BY <1>1, <1>2 DEF IsInjective
<1>5. QED BY <1>3, <1>4

Passes ==
    /\ Readable
    /\ {"manifest", "tables"} \subseteq ToSet(Names)
    /\ DataOf("manifest") # Garbled
    /\ DataOf("tables") = DataOf("manifest").tables
    /\ ArtifactsMatch(DataOf("manifest").artifacts)

(* Nothing damaged passes: a member with another's name would be a second   *)
(* one, and one with other data is not what the manifest says.              *)
LEMMA PassesIsWhole ==
  ASSUME NEW b, IsBuilt(b), Stands(b), Passes
  PROVE  ToSet(b.archive) = {m \in ToSet(archive) : m.name # Bystander}
<1>1. PICK p : /\ p \in Seq(Elements(p)) /\ b.archive = Archive(p)
               /\ \A i \in DOMAIN p : p[i].name \in Paths /\ p[i] = Member(p[i].name, p[i].data)
  BY BuiltHas
<1>2. Elements(b.archive) = {ManifestOf(p), TablesOf(p)} \cup Elements(p)
  BY <1>1, ArchiveIs
<1>3. /\ ManifestOf(p).name = "manifest" /\ TablesOf(p).name = "tables"
      /\ ManifestOf(p).data = [artifacts |-> p, tables |-> Tables(p)]
      /\ TablesOf(p).data = Tables(p)
      /\ TablesOf(p) = Member("tables", Tables(p))
      /\ ManifestOf(p) = Member("manifest", [artifacts |-> p, tables |-> Tables(p)])
  BY DEF ManifestOf, TablesOf, Member
<1>4. /\ DOMAIN Names = DOMAIN archive /\ IsInjective(Names)
      /\ \A k \in DOMAIN archive : Names[k] = archive[k].name
  BY DEF Names, Passes, Readable
<1>5. \A k \in DOMAIN archive : DataOf(archive[k].name) = archive[k].data
  BY <1>4, DataIs
<1>6. \A k \in DOMAIN archive : archive[k] = Member(archive[k].name, archive[k].data)
  BY DEF Stands
<1>7. PICK m \in DOMAIN archive : archive[m].name = "manifest"
  BY <1>4 DEF Passes, ToSet
<1>8. PICK t \in DOMAIN archive : archive[t].name = "tables"
  BY <1>4 DEF Passes, ToSet
<1>9. archive[m] = ManifestOf(p)
  <2>1. archive[m].data # Garbled
    BY <1>5, <1>7 DEF Passes
  <2>2. archive[m] \in Elements(b.archive)
    BY <1>7, <2>1 DEF Stands
  <2>3. archive[m] \notin Elements(p)
    BY <1>1, <1>7, PathsApart DEF Elements
  <2>4. "manifest" # "tables"
    OBVIOUS
  <2>5. QED BY <1>2, <1>3, <1>7, <2>2, <2>3, <2>4
<1>10. DataOf("manifest") = [artifacts |-> p, tables |-> Tables(p)]
  BY <1>3, <1>5, <1>7, <1>9
<1>11. archive[t] = TablesOf(p)
  <2>1. archive[t].data = DataOf("manifest").tables
    BY <1>5, <1>8 DEF Passes
  <2>2. archive[t].data = Tables(p)
    BY <1>10, <2>1
  <2>3. QED BY <1>3, <1>6, <1>8, <2>2
<1>12. /\ {x.name : x \in ToSet(p)} = Inventory
       /\ \A x \in ToSet(p) : DataOf(x.name) = x.data
  <2>1. DataOf("manifest").artifacts = p
    BY <1>10
  <2>2. ArtifactsMatch(p)
    BY <2>1 DEF Passes
  <2>3. QED BY <2>2 DEF ArtifactsMatch
<1>13. ASSUME NEW x \in ToSet(b.archive)
       PROVE  x \in ToSet(archive) /\ x.name # Bystander
  <2>1. x \in Elements(b.archive)
    BY DEF ToSet, Elements
  <2>2. CASE x = ManifestOf(p) \/ x = TablesOf(p)
    <3>1. x \in ToSet(archive)
      BY <1>7, <1>8, <1>9, <1>11, <2>2 DEF ToSet
    <3>2. Bystander # "manifest" /\ Bystander # "tables"
      BY DEF Bystander
    <3>3. QED BY <1>3, <2>2, <3>1, <3>2
  <2>3. CASE x \in Elements(p)
    <3>1. x \in ToSet(p) /\ x.name \in Paths /\ x = Member(x.name, x.data)
      BY <1>1, <2>3 DEF ToSet, Elements
    <3>2. x.name \in Inventory
      BY <1>12, <3>1
    <3>3. PICK k \in DOMAIN archive : archive[k].name = x.name
      BY <1>4, <3>2 DEF Inventory, ToSet
    <3>4. archive[k].data = x.data
      BY <1>5, <1>12, <3>1, <3>3
    <3>5. archive[k] = x
      BY <1>6, <3>1, <3>3, <3>4
    <3>6. QED BY <3>1, <3>5, PathsApart DEF ToSet
  <2>4. QED BY <1>2, <2>1, <2>2, <2>3
<1>14. ASSUME NEW x \in ToSet(archive), x.name # Bystander
       PROVE  x \in ToSet(b.archive)
  <2>1. PICK k \in DOMAIN archive : archive[k] = x
    BY DEF ToSet
  <2>2. CASE x.name = "manifest"
    <3>1. k = m
      BY <1>4, <1>7, <2>1, <2>2 DEF IsInjective
    <3>2. QED BY <1>2, <1>9, <2>1, <3>1 DEF ToSet, Elements
  <2>3. CASE x.name = "tables"
    <3>1. k = t
      BY <1>4, <1>8, <2>1, <2>3 DEF IsInjective
    <3>2. QED BY <1>2, <1>11, <2>1, <3>1 DEF ToSet, Elements
  <2>4. CASE x.name # "manifest" /\ x.name # "tables"
    <3>1. x.name \in ToSet(Names)
      BY <1>4, <2>1 DEF ToSet
    <3>2. x.name \in Inventory
      BY <1>14, <2>4, <3>1 DEF Inventory
    <3>3. PICK y \in ToSet(p) : y.name = x.name
      BY <1>12, <3>2
    <3>4. y.data = x.data
      BY <1>5, <1>12, <2>1, <3>3
    <3>5. y = Member(y.name, y.data) /\ y \in Elements(p)
      BY <1>1 DEF ToSet, Elements
    <3>6. y = x
      BY <1>6, <2>1, <3>3, <3>4, <3>5
    <3>7. QED BY <1>2, <3>5, <3>6 DEF ToSet, Elements
  <2>5. QED BY <2>2, <2>3, <2>4
<1>15. QED BY <1>13, <1>14

(* What was built passes.                                                   *)
GarbledApart == \A p : [artifacts |-> p, tables |-> Tables(p)] # Garbled

LEMMA BuiltPasses ==
  ASSUME GarbledApart, NEW b, IsBuilt(b), archive = b.archive, archive # NoArchive
  PROVE  Passes
<1>1. PICK p : /\ p \in Seq(Elements(p)) /\ b.archive = Archive(p)
               /\ \A i \in DOMAIN p : p[i].name \in Paths /\ p[i] = Member(p[i].name, p[i].data)
               /\ \A i, j \in DOMAIN p : p[i].name = p[j].name => i = j
  BY BuiltHas
<1>2. /\ Elements(archive) = {ManifestOf(p), TablesOf(p)} \cup Elements(p)
      /\ Len(p) \in Nat /\ DOMAIN p = 1..Len(p) /\ DOMAIN archive = 1..Len(p) + 2
      /\ archive[1] = ManifestOf(p) /\ archive[2] = TablesOf(p)
      /\ \A i \in 1..Len(p) : archive[i + 2] = p[i]
  BY <1>1, ArchiveIs
<1>3. /\ ManifestOf(p).name = "manifest" /\ TablesOf(p).name = "tables"
      /\ ManifestOf(p).data = [artifacts |-> p, tables |-> Tables(p)]
      /\ TablesOf(p).data = Tables(p)
  BY DEF ManifestOf, TablesOf, Member
<1>4. /\ DOMAIN Names = DOMAIN archive
      /\ \A k \in DOMAIN archive : Names[k] = archive[k].name
  BY DEF Names
<1>5. \A i \in DOMAIN archive :
          \/ i = 1 /\ Names[i] = "manifest"
          \/ i = 2 /\ Names[i] = "tables"
          \/ i - 2 \in DOMAIN p /\ archive[i] = p[i - 2] /\ Names[i] = p[i - 2].name
             /\ Names[i] \in Paths
  <2> SUFFICES ASSUME NEW i \in DOMAIN archive
               PROVE  \/ i = 1 /\ Names[i] = "manifest"
                      \/ i = 2 /\ Names[i] = "tables"
                      \/ i - 2 \in DOMAIN p /\ archive[i] = p[i - 2] /\ Names[i] = p[i - 2].name
                         /\ Names[i] \in Paths
    OBVIOUS
  <2>1. i = 1 \/ i = 2 \/ (i - 2 \in 1..Len(p) /\ i - 2 + 2 = i)
    BY <1>2
  <2>2. CASE i = 1 \/ i = 2
    BY <1>2, <1>3, <1>4, <2>2
  <2>3. CASE i - 2 \in 1..Len(p) /\ i - 2 + 2 = i
    <3>1. i - 2 \in DOMAIN p /\ archive[i] = p[i - 2]
      BY <1>2, <2>3
    <3>2. QED BY <1>1, <1>4, <3>1
  <2>4. QED BY <2>1, <2>2, <2>3
<1>6. IsInjective(Names)
  <2> SUFFICES ASSUME NEW i \in DOMAIN archive, NEW j \in DOMAIN archive, Names[i] = Names[j]
               PROVE  i = j
    BY <1>4 DEF IsInjective
  <2>1. "manifest" # "tables"
    OBVIOUS
  <2>2. i \in Nat /\ j \in Nat
    BY <1>2
  <2>3. CASE i = 1
    <3>1. Names[j] = "manifest"
      BY <1>2, <1>3, <1>4, <2>3
    <3>2. QED BY <1>5, <2>1, <2>3, <3>1, PathsApart
  <2>4. CASE i = 2
    <3>1. Names[j] = "tables"
      BY <1>2, <1>3, <1>4, <2>4
    <3>2. QED BY <1>5, <2>1, <2>4, <3>1, PathsApart
  <2>5. CASE i - 2 \in DOMAIN p /\ archive[i] = p[i - 2] /\ Names[i] = p[i - 2].name
             /\ Names[i] \in Paths
    <3>1. j - 2 \in DOMAIN p /\ Names[j] = p[j - 2].name
      BY <1>5, <2>5, PathsApart
    <3>2. i - 2 = j - 2
      BY <1>1, <2>5, <3>1
    <3>3. QED BY <2>2, <3>2
  <2>6. QED BY <1>5, <2>3, <2>4, <2>5
<1>7. \A k \in DOMAIN archive : DataOf(archive[k].name) = archive[k].data
  BY <1>6, DataIs
<1>8. 1 \in DOMAIN archive /\ 2 \in DOMAIN archive
  BY <1>2
<1>9. DataOf("manifest") = [artifacts |-> p, tables |-> Tables(p)] /\ DataOf("tables") = Tables(p)
  BY <1>2, <1>3, <1>7, <1>8
<1>10. ToSet(Names) = {"manifest", "tables"} \cup {x.name : x \in ToSet(p)}
  <2>1. ASSUME NEW i \in DOMAIN archive
        PROVE  Names[i] \in {"manifest", "tables"} \cup {x.name : x \in ToSet(p)}
    BY <1>5 DEF ToSet
  <2>2. "manifest" \in ToSet(Names) /\ "tables" \in ToSet(Names)
    BY <1>2, <1>3, <1>4, <1>8 DEF ToSet
  <2>3. ASSUME NEW x \in ToSet(p) PROVE x.name \in ToSet(Names)
    <3>1. PICK i \in 1..Len(p) : p[i] = x
      BY <1>2 DEF ToSet
    <3>2. i + 2 \in DOMAIN archive /\ archive[i + 2] = x
      BY <1>2, <3>1
    <3>3. QED BY <1>4, <3>2 DEF ToSet
  <2>4. \A n \in ToSet(Names) : n \in {"manifest", "tables"} \cup {x.name : x \in ToSet(p)}
    BY <1>4, <2>1 DEF ToSet
  <2>5. QED BY <2>2, <2>3, <2>4
<1>11. \A x \in ToSet(p) : x.name \in Paths
  BY <1>1 DEF ToSet
<1>12. Readable
  <2>1. "unsafe" # "manifest" /\ "unsafe" # "tables"
    OBVIOUS
  <2>2. QED BY <1>6, <1>10, <1>11, <2>1, PathsApart DEF Readable
<1>13. ArtifactsMatch(p)
  <2>1. {x.name : x \in ToSet(p)} = Inventory
    <3>1. \A x \in ToSet(p) : x.name \notin {"manifest", "tables", Bystander}
      BY <1>11, PathsApart
    <3>2. QED BY <1>10, <3>1 DEF Inventory
  <2>2. ASSUME NEW x \in ToSet(p) PROVE DataOf(x.name) = x.data
    <3>1. PICK i \in 1..Len(p) : p[i] = x
      BY <1>2 DEF ToSet
    <3>2. i + 2 \in DOMAIN archive /\ archive[i + 2] = x
      BY <1>2, <3>1
    <3>3. QED BY <1>7, <3>2
  <2>3. QED BY <2>1, <2>2 DEF ArtifactsMatch
<1>14. DataOf("manifest") # Garbled
  BY <1>9 DEF GarbledApart
<1>15. DataOf("manifest").artifacts = p /\ DataOf("tables") = DataOf("manifest").tables
  BY <1>9
<1>16. {"manifest", "tables"} \subseteq ToSet(Names)
  BY <1>10
<1>17. QED BY <1>12, <1>13, <1>14, <1>15, <1>16 DEF Passes

(* Damage leaves members of the archive, or damaged ones.                   *)
LEMMA DamageInv ==
  ASSUME BundleInv, Damage
  PROVE  BundleInv'
<1>1. /\ archive # NoArchive /\ verdict = "none" /\ damaged' = damaged + 1
      /\ tree' = tree /\ verdict' = verdict /\ builds' = builds
  BY DEF Damage
<1>2. /\ damaged \in Nat /\ archive \in Seq(Elements(archive)) /\ \A b \in builds : IsBuilt(b)
  BY <1>1 DEF BundleInv
<1>3. PICK b \in builds : Stands(b)
  BY <1>1 DEF BundleInv
<1>4. damaged' \in Nat /\ damaged' # 0 /\ DamageIsFound' /\ BuiltIsAccepted'
  BY <1>1, <1>2 DEF DamageIsFound, BuiltIsAccepted
<1> DEFINE Fits(m) == m = Member(m.name, m.data) /\ (m \in Elements(b.archive) \/ m.data = Garbled)
<1>5. /\ DOMAIN archive = 1..Len(archive) /\ Len(archive) \in Nat
      /\ \A i \in DOMAIN archive : archive[i] \in Elements(archive)
  BY <1>2 DEF Elements
<1>6. \A i \in DOMAIN archive : Fits(archive[i])
  BY <1>3 DEF Stands
<1>7. \A name : Fits(Member(name, Garbled))
  BY DEF Member
<1>8. ASSUME archive' # NoArchive,
             NEW X, archive' \in Seq(X), \A m \in X : Fits(m)
      PROVE  archive' \in Seq(Elements(archive')) /\ Stands(b)'
  <2> HIDE DEF Fits
  <2>1. /\ archive' = [i \in 1..Len(archive') |-> archive'[i]] /\ Len(archive') \in Nat
        /\ DOMAIN archive' = 1..Len(archive')
        /\ \A i \in 1..Len(archive') : archive'[i] \in X
    BY <1>8
  <2>2. \A i \in 1..Len(archive') : archive'[i] \in Elements(archive')
    BY <2>1 DEF Elements
  <2>3. archive' \in [1..Len(archive') -> Elements(archive')]
    BY <2>1, <2>2
  <2>4. archive' \in Seq(Elements(archive'))
    BY <2>1, <2>3
  <2>5. \A i \in DOMAIN archive' : Fits(archive'[i])
    BY <1>8, <2>1
  <2>6. QED BY <1>4, <2>4, <2>5 DEF Stands, Fits
<1> DEFINE X == Elements(archive) \cup {Member(name, Garbled) : name \in {archive[i].name : i \in DOMAIN archive} \cup ToSet(PathOrder) \cup {"unsafe", Bystander}}
<1>9. \A m \in X : Fits(m)
  <2> HIDE DEF Fits
  <2>1. \A m \in Elements(archive) : Fits(m)
    BY <1>6 DEF Elements
  <2>2. QED BY <1>7, <2>1
<1>10. archive \in Seq(X) /\ Elements(archive) \subseteq X
  BY <1>2, SeqMonotonic
<1>11. archive' \in Seq(X)
  <2>1. ASSUME NEW i \in DOMAIN archive, archive' = [archive EXCEPT ![i].data = Garbled]
        PROVE  archive' \in Seq(X)
    <3>1. [archive[i] EXCEPT !.data = Garbled] = Member(archive[i].name, Garbled)
      BY <1>6 DEF Member
    <3>2. archive' = [archive EXCEPT ![i] = Member(archive[i].name, Garbled)]
      BY <2>1, <3>1
    <3>3. Member(archive[i].name, Garbled) \in X
      OBVIOUS
    <3> HIDE DEF X, Fits
    <3>4. QED BY <1>5, <1>10, <3>2, <3>3
  <2>2. ASSUME NEW i \in DOMAIN archive, archive' = RemoveAt(archive, i)
        PROVE  archive' \in Seq(X)
    <3> HIDE DEF X, Fits
    <3>1. SubSeq(archive, 1, i - 1) \in Seq(X) /\ SubSeq(archive, i + 1, Len(archive)) \in Seq(X)
      BY <1>5, <1>10
    <3>2. QED BY <2>2, <3>1, ConcatProperties DEF RemoveAt
  <2>3. ASSUME NEW i \in DOMAIN archive, archive' = SubSeq(archive, 1, i)
        PROVE  archive' \in Seq(X)
    <3> HIDE DEF X, Fits
    <3>1. QED BY <1>5, <1>10, <2>3
  <2>4. ASSUME NEW i \in DOMAIN archive, archive' = Append(archive, archive[i])
        PROVE  archive' \in Seq(X)
    <3> HIDE DEF X, Fits
    <3>1. archive[i] \in X
      BY <1>5, <1>10
    <3>2. QED BY <1>10, <2>4, <3>1
  <2>5. ASSUME NEW name \in ToSet(PathOrder) \cup {"unsafe", Bystander},
               archive' = Append(archive, Member(name, Garbled))
        PROVE  archive' \in Seq(X)
    <3>1. Member(name, Garbled) \in X
      OBVIOUS
    <3> HIDE DEF X, Fits
    <3>2. QED BY <1>10, <2>5, <3>1
  <2>6. \/ \E i \in DOMAIN archive :
              \/ archive' = [archive EXCEPT ![i].data = Garbled]
              \/ archive' = RemoveAt(archive, i)
              \/ archive' = SubSeq(archive, 1, i)
              \/ archive' = Append(archive, archive[i])
        \/ \E name \in ToSet(PathOrder) \cup {"unsafe", Bystander} :
              archive' = Append(archive, Member(name, Garbled))
    BY DEF Damage
  <2> HIDE DEF X, Fits
  <2>7. QED BY <2>1, <2>2, <2>3, <2>4, <2>5, <2>6
<1> HIDE DEF X, Fits
<1>12. archive' # NoArchive => archive' \in Seq(Elements(archive')) /\ Stands(b)'
  BY <1>8, <1>9, <1>11
<1>13. \A c \in builds' : IsBuilt(c)
  BY <1>1, <1>2
<1>14. QED BY <1>1, <1>3, <1>4, <1>12, <1>13 DEF BundleInv

LEMMA BuildBundleInv ==
  ASSUME BundleInv, BuildBundle
  PROVE  BundleInv'
<1>1. PICK selection \in Selections :
          /\ archive' = Archive(Payloads(Collect(selection)))
          /\ builds' = builds \cup {[files |-> ToSet(Payloads(Collect(selection))),
                                     archive |-> archive']}
  BY DEF BuildBundle
<1>2. verdict' = "none" /\ damaged' = 0
  BY DEF BuildBundle
<1> PICK places : places = {i \in DOMAIN PathOrder : PathOrder[i] \in ToSet(Listed(selection))}
  OBVIOUS
<1> PICK holds : holds = tree
  OBVIOUS
<1>p. PICK p : p = OfContents(places, holds)
  OBVIOUS
<1> PICK b : b = [files |-> Elements(p), archive |-> Archive(p)]
  OBVIOUS
<1>3. places \in SUBSET (DOMAIN PathOrder)
  OBVIOUS
<1>4. Payloads(Collect(selection)) = p
  BY <1>p DEF Payloads, Collect, OfContents, InOrder
<1>5. ToSet(p) = Elements(p)
  BY DEF ToSet, Elements
<1>6. archive' = Archive(p) /\ builds' = builds \cup {b} /\ b.archive = archive'
  BY <1>1, <1>4, <1>5
<1>7. IsBuilt(b)
  BY <1>3, <1>p DEF IsBuilt
<1>8. PICK q : /\ q \in Seq(Elements(q)) /\ b.archive = Archive(q)
               /\ \A i \in DOMAIN q : q[i].name \in Paths /\ q[i] = Member(q[i].name, q[i].data)
  BY <1>7, BuiltHas
<1>9. /\ archive' \in Seq(Elements(archive'))
      /\ Elements(archive') = {ManifestOf(q), TablesOf(q)} \cup Elements(q)
  BY <1>6, <1>8, ArchiveIs
<1>10. \A m \in Elements(archive') : m = Member(m.name, m.data)
  <2>1. \A m \in Elements(q) : m = Member(m.name, m.data)
    BY <1>8 DEF Elements
  <2>2. \A m \in {ManifestOf(q), TablesOf(q)} : m = Member(m.name, m.data)
    BY DEF ManifestOf, TablesOf, Member
  <2>3. QED BY <1>9, <2>1, <2>2
<1>11. \A i \in DOMAIN archive' : archive'[i] \in Elements(archive')
  BY DEF Elements
<1>12. Stands(b)'
  BY <1>6, <1>10, <1>11 DEF Stands
<1>13. \A c \in builds' : IsBuilt(c)
  BY <1>6, <1>7 DEF BundleInv
<1>14. DamageIsFound' /\ BuiltIsAccepted'
  BY <1>2 DEF DamageIsFound, BuiltIsAccepted
<1>15. QED BY <1>2, <1>6, <1>9, <1>12, <1>13, <1>14 DEF BundleInv

LEMMA VerifyBundleInv ==
  ASSUME GarbledApart, BundleInv, VerifyBundle
  PROVE  BundleInv'
<1>1. /\ archive # NoArchive /\ archive' = archive /\ builds' = builds /\ damaged' = damaged
      /\ verdict' = IF Passes THEN "accepted" ELSE "refused"
  BY DEF VerifyBundle, Passes
<1>2. /\ damaged \in Nat /\ archive \in Seq(Elements(archive)) /\ \A b \in builds : IsBuilt(b)
  BY <1>1 DEF BundleInv
<1>3. PICK b \in builds : Stands(b)
  BY <1>1 DEF BundleInv
<1>4. DamageIsFound'
  <2> SUFFICES ASSUME verdict' = "accepted" PROVE DamageIsFound'
    BY DEF DamageIsFound
  <2>1. Passes
    BY <1>1
  <2>2. ToSet(b.archive) = {m \in ToSet(archive) : m.name # Bystander}
    BY <1>2, <1>3, <2>1, PassesIsWhole
  <2>3. QED BY <1>1, <1>3, <2>2 DEF DamageIsFound
<1>5. BuiltIsAccepted'
  <2> SUFFICES ASSUME verdict' = "refused", damaged = 0 PROVE FALSE
    BY <1>1, <1>2 DEF BuiltIsAccepted
  <2>1. archive = b.archive
    BY <1>3 DEF Stands
  <2>2. Passes
    BY <1>1, <1>2, <1>3, <2>1, BuiltPasses
  <2>3. QED BY <1>1, <2>2
<1>6. Stands(b)'
  BY <1>1, <1>3 DEF Stands
<1>7. QED BY <1>1, <1>2, <1>3, <1>4, <1>5, <1>6 DEF BundleInv

(* What was built is accepted, what was damaged is refused, and the same    *)
(* files make the same archive (repro_bundle.py): for any files, inputs and *)
(* damage, if damaged data is never that of a manifest.                     *)
THEOREM BundlesAreReproducible ==
  ASSUME GarbledApart
  PROVE  BundleSpec => []BundleIsReproducible
<1>1. BundleIdle => BundleInv
  BY DEF BundleIdle, BundleInv, DamageIsFound, BuiltIsAccepted
<1>2. BundleInv /\ [BundleNext]_bundleVars => BundleInv'
  <2> SUFFICES ASSUME BundleInv, [BundleNext]_bundleVars PROVE BundleInv'
    OBVIOUS
  <2>1. CASE archive' = archive /\ builds' = builds /\ damaged' = damaged /\ verdict' = verdict
    BY <2>1 DEF BundleInv, Stands, DamageIsFound, BuiltIsAccepted
  <2>2. CASE EditTree
    BY <2>1, <2>2 DEF EditTree
  <2>3. CASE UNCHANGED bundleVars
    BY <2>1, <2>3 DEF bundleVars
  <2>4. QED BY <2>2, <2>3, BuildBundleInv, VerifyBundleInv, DamageInv DEF BundleNext
<1>3. BundleInv => BundleIsReproducible
  <2> SUFFICES ASSUME BundleInv PROVE BundleIsReproducible
    OBVIOUS
  <2>1. SameFilesSameArchive
    BY SameFilesAre DEF BundleInv, SameFilesSameArchive
  <2>2. QED BY <2>1 DEF BundleInv, BundleIsReproducible
<1>4. QED BY <1>1, <1>2, <1>3, PTL DEF BundleSpec

-----------------------------------------------------------------------------
(* Attribution: what `caudit attribution` measures in one row after the other. *)

Cases == Elements(CaseList)
CandidatesIn(case) == Elements(CandidatesAt[case][1]) \cup Elements(CandidatesAt[case][2])
Levels == {"confirmed", "review"}

Measuring == progress \in {"candidates", "opening", "judging"}
Closed == Cases \ Elements(casesLeft)
AllOf(lists) == UNION {Elements(lists[case].list) : case \in DOMAIN lists}

AttributionTypes ==
    /\ wish \in Wishes /\ stage \in 1..6 /\ slips \in Nat
    /\ progress \in {"start", "candidates", "opening", "judging", "refused", "ended"}
    /\ served \in [1..6 -> Nat] /\ bill \in [calls : Nat, stop : BOOLEAN]
    /\ code \in [Cases -> {1, 2}]

(* The cases of a row are closed in order, and the candidates of a case are *)
(* of one of its versions.                                                  *)
CasesPlaced ==
    Measuring =>
        /\ stage <= wish.through /\ wish.through <= 6
        /\ casesLeft \in Seq(Cases) /\ Distinct(casesLeft)
        /\ progress # "candidates" => casesLeft # <<>>
        /\ progress = "judging" => stage > 1
        /\ DOMAIN found = Closed \cup (IF progress = "candidates" THEN {} ELSE {Case})
        /\ \A case \in DOMAIN found : found[case].list \in Seq(CandidatesIn(case))

(* Every candidate of a closed case has an outcome, and only candidates of  *)
(* cases that were opened have one.                                         *)
OutcomesPlaced ==
    /\ IsFiniteSet(DOMAIN said)
    /\ \A c \in DOMAIN said : said[c].level \in Levels
    /\ ConfirmedAsFound
    /\ Measuring =>
        /\ \A c \in DOMAIN said : \E case \in DOMAIN found : c \in Elements(found[case].list)
        /\ \A case \in Closed : \A c \in Elements(found[case].list) : c \in DOMAIN said
    /\ progress = "judging" =>
        /\ candsLeft \in Seq(Elements(found[Case].list))
        /\ \A c \in Elements(found[Case].list) : c \in DOMAIN said \cup Elements(candsLeft)

(* A checkpoint holds outcomes of what it says was found, and what was      *)
(* spent when it was written.                                               *)
SavedKnown ==
    \A k \in DOMAIN saved :
        /\ k[1] \in 1..6 /\ saved[k].calls \in Nat /\ saved[k].calls <= served[k[1]]
        /\ \A c \in DOMAIN saved[k].said :
               /\ c \in Elements(saved[k].found.list) /\ saved[k].said[c].level \in Levels
               /\ saved[k].said[c].level = "confirmed" =>
                      saved[k].said[c].version = saved[k].found.version

(* Without a mishap nothing was saved or spent for what is still to come.   *)
BillsKnown ==
    /\ Measuring => bill.calls <= served[stage]
    /\ slips = 0 =>
        /\ progress = "start" => DOMAIN saved = {} /\ \A n \in 1..6 : served[n] = 0
        /\ Measuring =>
            /\ bill.calls = served[stage] /\ \A n \in 1..6 : n > stage => served[n] = 0
            /\ \A k \in DOMAIN saved :
                   \/ k[1] < stage
                   \/ k[1] = stage /\ (k[2] \in Closed \/ (progress = "judging" /\ k[2] = Case))

RowsKnown ==
    /\ RowPaysForItself
    /\ \A name \in DOMAIN stages :
        /\ stages[name].calls \in Nat
        /\ stages[name].confirmed + stages[name].review
               = Cardinality(AllOf(stages[name].experiment.candidates))
    /\ Measuring =>
        /\ \A n \in 1..6 : NameOf(n) \in DOMAIN stages =>
               n < stage \/ (n = stage /\ progress = "candidates" /\ casesLeft = <<>>)
        /\ stage > 1 \/ DOMAIN stages # {} => "A0" \in DOMAIN stages
    /\ Compared => /\ progress \in {"ended", "start"} /\ "A0" \in DOMAIN stages
                   /\ \A name \in DOMAIN stages : AgreesWithControl(name)

(* What was answered is remembered, if anything is and no kill took it.     *)
HeardKnown ==
    \A q \in heard : \/ q[2] = "text" \/ wish.cache = "off"
                     \/ q \in unkept \/ q \in DOMAIN answers

AttributionInv ==
    /\ AttributionTypes /\ CasesPlaced /\ OutcomesPlaced /\ SavedKnown /\ BillsKnown
    /\ RowsKnown /\ HeardKnown

LEMMA CasesAre ==
  /\ Range(CaseList) = Cases /\ CaseList \in Seq(Cases) /\ Distinct(CaseList)
  /\ \A case \in Cases : \A v \in {1, 2} : CandidatesAt[case][v] \in Seq(CandidatesIn(case))
  /\ \A a, b \in Cases : \A c : c \in CandidatesIn(a) /\ c \in CandidatesIn(b) => a = b
<1>1. \A s : Range(s) = Elements(s)
  BY DEF Range, Elements
<1>2. Range(CaseList) = Cases /\ CaseList \in Seq(Cases) /\ Distinct(CaseList)
  BY <1>1, AttributionAssumption DEF Cases, IsInjective, Distinct
<1>3. ASSUME NEW case \in Cases, NEW v \in {1, 2}
      PROVE  CandidatesAt[case][v] \in Seq(CandidatesIn(case))
  <2>1. CandidatesAt[case][v] \in Seq(Elements(CandidatesAt[case][v]))
    BY <1>1, <1>2, AttributionAssumption
  <2>2. Elements(CandidatesAt[case][v]) \subseteq CandidatesIn(case)
    BY DEF CandidatesIn
  <2>3. QED BY <2>1, <2>2
<1>4. ASSUME NEW a \in Cases, NEW b \in Cases, NEW c,
             c \in CandidatesIn(a), c \in CandidatesIn(b), a # b
      PROVE  FALSE
  <2>1. PICK v \in {1, 2} : c \in Elements(CandidatesAt[a][v])
    BY <1>4 DEF CandidatesIn
  <2>2. PICK w \in {1, 2} : c \in Elements(CandidatesAt[b][w])
    BY <1>4 DEF CandidatesIn
  <2>3. Range(CandidatesAt[a][v]) \cap Range(CandidatesAt[b][w]) = {}
    BY <1>2, <1>4, AttributionAssumption
  <2>4. QED BY <1>1, <2>1, <2>2, <2>3
<1>5. QED BY <1>2, <1>3, <1>4

(* The case at hand is the next to be closed. *)
LEMMA CaseAtHand ==
  ASSUME AttributionTypes, CasesPlaced, Measuring
  PROVE  /\ Closed \subseteq Cases /\ DOMAIN found \subseteq Cases
         /\ \A a, b \in DOMAIN found : \A c :
                c \in Elements(found[a].list) /\ c \in Elements(found[b].list) => a = b
         /\ casesLeft # <<>> =>
               /\ Case \in Cases /\ Case \notin Closed
               /\ Tail(casesLeft) \in Seq(Cases) /\ Distinct(Tail(casesLeft))
               /\ Cases \ Elements(Tail(casesLeft)) = Closed \cup {Case}
<1>1. casesLeft \in Seq(Cases) /\ Distinct(casesLeft)
  BY DEF CasesPlaced
<1>2. ASSUME casesLeft # <<>>
      PROVE  /\ Case \in Cases /\ Case \notin Closed
             /\ Tail(casesLeft) \in Seq(Cases) /\ Distinct(Tail(casesLeft))
             /\ Cases \ Elements(Tail(casesLeft)) = Closed \cup {Case}
  <2>1. /\ Case \in Cases /\ Tail(casesLeft) \in Seq(Cases)
        /\ Elements(casesLeft) = {Case} \cup Elements(Tail(casesLeft))
        /\ Distinct(Tail(casesLeft)) /\ Case \notin Elements(Tail(casesLeft))
    BY <1>1, <1>2, FirstAndRest DEF Case
  <2>2. QED BY <2>1 DEF Closed
<1>3. Closed \subseteq Cases
  BY DEF Closed
<1>4. DOMAIN found \subseteq Cases
  BY <1>2, <1>3 DEF CasesPlaced
<1>5. \A a \in DOMAIN found : \A c \in Elements(found[a].list) : c \in CandidatesIn(a)
  BY DEF CasesPlaced, Elements
<1>6. QED BY <1>2, <1>3, <1>4, <1>5, CasesAre

(* A candidate was judged. *)
Judged ==
    /\ progress = "judging" /\ candsLeft # <<>> /\ candsLeft' = Tail(candsLeft)
    /\ \E level \in Levels : /\ level = "confirmed" => ~ Stale
                             /\ said' = Saying(Candidate, level)
    /\ \E n \in Nat : bill'.calls = bill.calls + n /\ served' = [served EXCEPT ![stage] = @ + n]
    /\ bill' \in [calls : Nat, stop : BOOLEAN]
    /\ saved' = saved \/ Saves
    /\ UNCHANGED <<wish, progress, stage, casesLeft, found, code, elsewhere, stages, matrix>>
    /\ slips' \in Nat /\ slips <= slips'

LEMMA JudgedOutcomes ==
  ASSUME AttributionInv, Judged
  PROVE  OutcomesPlaced'
<1>1. /\ progress = "judging" /\ candsLeft # <<>> /\ candsLeft' = Tail(candsLeft)
      /\ casesLeft' = casesLeft /\ found' = found /\ progress' = progress
  BY DEF Judged
<1>2. PICK level \in Levels : (level = "confirmed" => ~ Stale) /\ said' = Saying(Candidate, level)
  BY DEF Judged
<1>3. Measuring /\ AttributionTypes /\ CasesPlaced /\ OutcomesPlaced
  BY <1>1 DEF AttributionInv, Measuring
<1>4. casesLeft # <<>> /\ Case \in DOMAIN found
  BY <1>1, <1>3 DEF CasesPlaced
<1>5. candsLeft \in Seq(Elements(found[Case].list))
  BY <1>1, <1>3 DEF OutcomesPlaced
<1>6. /\ Candidate \in Elements(found[Case].list)
      /\ Tail(candsLeft) \in Seq(Elements(found[Case].list))
      /\ Elements(candsLeft) = {Candidate} \cup Elements(Tail(candsLeft))
  BY <1>1, <1>5, FirstAndRest DEF Candidate
<1>7. /\ DOMAIN said' = DOMAIN said \cup {Candidate}
      /\ said'[Candidate].level = level /\ said'[Candidate].version = code[Case]
      /\ \A c \in DOMAIN said : c # Candidate => said'[c] = said[c]
  BY <1>2 DEF Saying, Put, Outcome
<1>8. IsFiniteSet(DOMAIN said')
  BY <1>3, <1>7, FS_AddElement DEF OutcomesPlaced
<1>9. \A c \in DOMAIN said' : said'[c].level \in Levels
  BY <1>2, <1>3, <1>7 DEF OutcomesPlaced
<1>10. ConfirmedAsFound'
  <2> SUFFICES ASSUME NEW case \in DOMAIN found, NEW c \in Elements(found[case].list),
                      c \in DOMAIN said', said'[c].level = "confirmed"
               PROVE  said'[c].version = found[case].version
    BY <1>1 DEF ConfirmedAsFound, Range, Elements
  <2>1. CASE c = Candidate
    <3>1. case = Case
      BY <1>3, <1>4, <1>6, <2>1, CaseAtHand
    <3>2. level = "confirmed"
      BY <1>7, <2>1
    <3>3. QED BY <1>2, <1>7, <2>1, <3>1, <3>2 DEF Stale
  <2>2. CASE c # Candidate
    <3>1. c \in DOMAIN said /\ said'[c] = said[c]
      BY <1>7, <2>2
    <3>2. QED BY <1>3, <3>1 DEF OutcomesPlaced, ConfirmedAsFound, Range, Elements
  <2>3. QED BY <2>1, <2>2
<1>11. /\ \A c \in DOMAIN said' : \E case \in DOMAIN found : c \in Elements(found[case].list)
       /\ \A case \in Closed : \A c \in Elements(found[case].list) : c \in DOMAIN said'
  BY <1>3, <1>4, <1>6, <1>7 DEF OutcomesPlaced
<1>12. \A c \in Elements(found[Case].list) : c \in DOMAIN said' \cup Elements(candsLeft')
  BY <1>1, <1>3, <1>6, <1>7 DEF OutcomesPlaced
<1>13. Closed' = Closed /\ Case' = Case
  BY <1>1 DEF Closed, Case
<1>14. QED BY <1>1, <1>6, <1>8, <1>9, <1>10, <1>11, <1>12, <1>13 DEF OutcomesPlaced

(* What was served grows for the row that is measured and for no other.     *)
LEMMA JudgedServed ==
  ASSUME AttributionTypes, Judged
  PROVE  /\ served' \in [1..6 -> Nat] /\ bill.calls \in Nat /\ bill'.calls \in Nat
         /\ stage' = stage /\ stage \in 1..6
         /\ \A n \in 1..6 : /\ served[n] \in Nat /\ served'[n] \in Nat /\ served[n] <= served'[n]
                            /\ n # stage => served'[n] = served[n]
         /\ bill'.calls - bill.calls = served'[stage] - served[stage]
<1>1. PICK n \in Nat : bill'.calls = bill.calls + n /\ served' = [served EXCEPT ![stage] = @ + n]
  BY DEF Judged
<1>2. served \in [1..6 -> Nat] /\ stage \in 1..6 /\ bill.calls \in Nat
  BY DEF AttributionTypes
<1>3. stage' = stage /\ bill'.calls \in Nat
  BY DEF Judged
<1>4. served[stage] \in Nat /\ served[stage] + n \in Nat
  BY <1>2
<1>5. served' \in [1..6 -> Nat]
  BY <1>1, <1>2, <1>4
<1>6. served'[stage] = served[stage] + n /\ \A m \in 1..6 : m # stage => served'[m] = served[m]
  BY <1>1, <1>2
<1>7. \A m \in 1..6 : served[m] \in Nat /\ served'[m] \in Nat /\ served[m] <= served'[m]
  <2> TAKE m \in 1..6
  <2>1. CASE m = stage
    BY <1>4, <1>6, <2>1
  <2>2. CASE m # stage
    <3>1. served[m] \in Nat
      BY <1>2
    <3>2. QED BY <1>6, <2>2, <3>1
  <2>3. QED BY <2>1, <2>2
<1>8. bill'.calls - bill.calls = served'[stage] - served[stage]
  BY <1>1, <1>2, <1>4, <1>6
<1>9. QED BY <1>2, <1>3, <1>5, <1>6, <1>7, <1>8

LEMMA JudgedSaved ==
  ASSUME AttributionInv, Judged, OutcomesPlaced'
  PROVE  SavedKnown'
<1>1. /\ progress = "judging" /\ casesLeft' = casesLeft /\ found' = found /\ stage' = stage
      /\ saved' = saved \/ Saves
  BY DEF Judged
<1>2. Measuring /\ AttributionTypes /\ CasesPlaced /\ SavedKnown /\ BillsKnown
  BY <1>1 DEF AttributionInv, Measuring
<1>3. /\ served' \in [1..6 -> Nat] /\ bill.calls \in Nat /\ bill'.calls \in Nat /\ stage \in 1..6
      /\ \A n \in 1..6 : served[n] \in Nat /\ served'[n] \in Nat /\ served[n] <= served'[n]
      /\ bill'.calls - bill.calls = served'[stage] - served[stage]
  BY <1>2, JudgedServed
<1>4. bill'.calls <= served'[stage]
  <2>1. bill.calls <= served[stage] /\ served[stage] \in Nat /\ served'[stage] \in Nat
    BY <1>2, <1>3 DEF BillsKnown
  <2>2. QED BY <1>3, <2>1
<1> DEFINE Kept(k, state) ==
      /\ k[1] \in 1..6 /\ state.calls \in Nat /\ state.calls <= served'[k[1]]
      /\ \A c \in DOMAIN state.said :
             /\ c \in Elements(state.found.list) /\ state.said[c].level \in Levels
             /\ state.said[c].level = "confirmed" => state.said[c].version = state.found.version
<1>5. ASSUME NEW k \in DOMAIN saved PROVE Kept(k, saved[k])
  <2>1. k[1] \in 1..6 /\ saved[k].calls \in Nat /\ saved[k].calls <= served[k[1]]
    BY <1>2 DEF SavedKnown
  <2>2. served[k[1]] \in Nat /\ served'[k[1]] \in Nat /\ served[k[1]] <= served'[k[1]]
    BY <1>3, <2>1
  <2>3. saved[k].calls <= served'[k[1]]
    BY <2>1, <2>2
  <2>4. QED BY <1>2, <2>1, <2>3 DEF SavedKnown
<1>6. CASE saved' = saved
  <2>1. \A k \in DOMAIN saved' : Kept(k, saved'[k])
    BY <1>5, <1>6
  <2>2. QED BY <2>1 DEF SavedKnown
<1>7. CASE saved' # saved
  <2> DEFINE state == [found |-> found[Case], calls |-> bill'.calls,
                       said |-> [c \in DOMAIN said' \cap Range(found[Case].list) |-> said'[c]]]
  <2>1. saved' = Put(saved, <<stage, Case>>, state)
    BY <1>1, <1>7 DEF Saves
  <2>2. /\ DOMAIN saved' = DOMAIN saved \cup {<<stage, Case>>}
        /\ saved'[<<stage, Case>>] = state
        /\ \A k \in DOMAIN saved : k # <<stage, Case>> => saved'[k] = saved[k]
    BY <2>1 DEF Put
  <2>3. Case \in DOMAIN found /\ found'[Case] = found[Case]
    BY <1>1, <1>2 DEF CasesPlaced
  <2>4. /\ state.found = found[Case] /\ state.calls = bill'.calls
        /\ DOMAIN state.said = DOMAIN said' \cap Range(found[Case].list)
        /\ \A c \in DOMAIN state.said : state.said[c] = said'[c]
    OBVIOUS
  <2> HIDE DEF state
  <2>5. ASSUME NEW c \in DOMAIN state.said
        PROVE  /\ c \in Elements(state.found.list) /\ state.said[c].level \in Levels
               /\ state.said[c].level = "confirmed" =>
                      state.said[c].version = state.found.version
    <3>1. c \in DOMAIN said' /\ c \in Range(found[Case].list) /\ state.said[c] = said'[c]
      BY <2>4
    <3>2. c \in Elements(found[Case].list)
      BY <3>1 DEF Range, Elements
    <3>3. said'[c].level \in Levels
      BY <3>1 DEF OutcomesPlaced
    <3>4. said'[c].level = "confirmed" => said'[c].version = found[Case].version
      BY <1>1, <2>3, <3>1 DEF OutcomesPlaced, ConfirmedAsFound
    <3>5. QED BY <2>4, <3>1, <3>2, <3>3, <3>4
  <2>6. Kept(<<stage, Case>>, state)
    BY <1>3, <1>4, <2>4, <2>5
  <2> HIDE DEF Kept
  <2>7. \A k \in DOMAIN saved' : Kept(k, saved'[k])
    BY <1>5, <2>2, <2>6
  <2>8. QED BY <2>7 DEF SavedKnown, Kept
<1>8. QED BY <1>6, <1>7

LEMMA JudgedBills ==
  ASSUME AttributionInv, Judged
  PROVE  BillsKnown' /\ RowsKnown'
<1>1. /\ progress = "judging" /\ casesLeft' = casesLeft /\ stage' = stage /\ progress' = progress
      /\ stages' = stages /\ matrix' = matrix /\ slips' \in Nat /\ slips <= slips'
      /\ saved' = saved \/ Saves
  BY DEF Judged
<1>2. Measuring /\ AttributionTypes /\ CasesPlaced /\ BillsKnown /\ RowsKnown /\ slips \in Nat
  BY <1>1 DEF AttributionInv, AttributionTypes, Measuring
<1>3. /\ served' \in [1..6 -> Nat] /\ bill.calls \in Nat /\ bill'.calls \in Nat /\ stage \in 1..6
      /\ \A n \in 1..6 : /\ served[n] \in Nat /\ served'[n] \in Nat /\ served[n] <= served'[n]
                         /\ n # stage => served'[n] = served[n]
      /\ bill'.calls - bill.calls = served'[stage] - served[stage]
  BY <1>2, JudgedServed
<1>4. slips' = 0 => slips = 0
  BY <1>1, <1>2
<1>5. served[stage] \in Nat /\ served'[stage] \in Nat
  BY <1>3
<1>6. bill'.calls <= served'[stage] /\ (slips' = 0 => bill'.calls = served'[stage])
  <2>1. bill.calls <= served[stage] /\ (slips = 0 => bill.calls = served[stage])
    BY <1>2 DEF BillsKnown
  <2>2. QED BY <1>3, <1>4, <1>5, <2>1
<1>7. slips' = 0 => \A n \in 1..6 : n > stage => served'[n] = 0
  <2>1. \A n \in 1..6 : n > stage => n # stage
    BY <1>3
  <2>2. QED BY <1>2, <1>3, <1>4, <2>1 DEF BillsKnown
<1>8. Closed' = Closed /\ Case' = Case
  BY <1>1 DEF Closed, Case
<1>9. \A k \in DOMAIN saved' : k \in DOMAIN saved \/ k = <<stage, Case>>
  BY <1>1 DEF Saves, Put
<1>10. BillsKnown'
  <2>1. ASSUME slips' = 0, NEW k \in DOMAIN saved'
        PROVE  \/ k[1] < stage
               \/ k[1] = stage /\ (k[2] \in Closed \/ (progress = "judging" /\ k[2] = Case))
    <3>1. CASE k \in DOMAIN saved
      BY <1>2, <1>4, <2>1, <3>1 DEF BillsKnown
    <3>2. CASE k = <<stage, Case>>
      BY <1>1, <3>2
    <3>3. QED BY <1>9, <3>1, <3>2
  <2>2. QED BY <1>1, <1>6, <1>7, <1>8, <2>1 DEF BillsKnown
<1>11. RowPaysForItself'
  <2> SUFFICES ASSUME NEW n \in 1..6, NameOf(n) \in DOMAIN stages
               PROVE  /\ stages[NameOf(n)].calls <= served'[n]
                      /\ slips' = 0 => stages[NameOf(n)].calls = served'[n]
    BY <1>1 DEF RowPaysForItself, NameOf
  <2>1. n < stage
    BY <1>1, <1>2 DEF RowsKnown
  <2>2. n # stage
    BY <1>3, <2>1
  <2>3. QED BY <1>2, <1>3, <1>4, <2>2 DEF RowsKnown, RowPaysForItself
<1>12. (Measuring <=> Measuring') /\ (Compared <=> Compared')
  BY <1>1 DEF Measuring, Compared
<1>13. \A name \in DOMAIN stages : AgreesWithControl(name) <=> AgreesWithControl(name)'
  BY <1>1 DEF AgreesWithControl
<1>14. QED BY <1>1, <1>2, <1>10, <1>11, <1>12, <1>13 DEF RowsKnown, NameOf

LEMMA JudgedInv ==
  ASSUME AttributionInv, Judged, HeardKnown'
  PROVE  AttributionInv'
<1>1. /\ AttributionTypes /\ progress = "judging" /\ CasesPlaced
  BY DEF AttributionInv, Judged
<1>2. AttributionTypes'
  BY <1>1, JudgedServed DEF AttributionTypes, Judged
<1>3. CasesPlaced'
  BY <1>1 DEF CasesPlaced, Judged, Measuring, Closed, Case
<1>4. QED BY <1>2, <1>3, JudgedOutcomes, JudgedSaved, JudgedBills DEF AttributionInv

(* Only what was not edited since is confirmed. *)
LEMMA LevelIs ==
  /\ \A c : Promoted(c) \in Levels /\ (Promoted(c) = "confirmed" => ~ Stale)
  /\ \A word : Level(word) \in Levels /\ (Level(word) = "confirmed" => ~ Stale)
<1>1. \A c : Promoted(c) \in Levels /\ (Promoted(c) = "confirmed" => ~ Stale)
  BY DEF Promoted, Levels
<1>2. \A word : ByWindow(word) \in Levels /\ (ByWindow(word) = "confirmed" => ~ Stale)
  BY <1>1 DEF ByWindow, Levels
<1>3. \A word : ByContext(word) \in Levels /\ (ByContext(word) = "confirmed" => ~ Stale)
  BY <1>1 DEF ByContext, Levels
<1>4. QED BY <1>1, <1>2, <1>3 DEF Level

LEMMA SlipIs ==
  ASSUME slips \in Nat, NEW cost \in {0, 1}, Slip(cost)
  PROVE  slips' \in Nat /\ slips <= slips'
  BY DEF Slip

LEMMA OpenIs ==
  ASSUME NEW S, S \subseteq Open(stage)
  PROVE  /\ IsFiniteSet(S) /\ Cardinality(S) \in Nat
         /\ \A kind \in S : kind \in Kinds(stage)
<1>1. S \subseteq {"text", "window", "triage", "context"}
  BY DEF Open, Kinds
<1>2. IsFiniteSet({"text", "window", "triage", "context"})
  <2>1. IsFiniteSet({}) /\ {"text", "window", "triage", "context"} = {} \cup {"text"} \cup {"window"} \cup {"triage"} \cup {"context"}
    BY FS_EmptySet
  <2>2. IsFiniteSet({} \cup {"text"})
    BY <2>1, FS_AddElement
  <2>3. IsFiniteSet({} \cup {"text"} \cup {"window"})
    BY <2>2, FS_AddElement
  <2>4. IsFiniteSet({} \cup {"text"} \cup {"window"} \cup {"triage"})
    BY <2>3, FS_AddElement
  <2>5. QED BY <2>1, <2>4, FS_AddElement
<1>3. S \in SUBSET {"text", "window", "triage", "context"}
  BY <1>1
<1>4. IsFiniteSet(S) /\ Cardinality(S) \in Nat
  BY <1>2, <1>3, FS_Subset, FS_CardinalityType
<1>5. QED BY <1>4 DEF Open

(* What is heard is remembered, or no answer is, or a kill took it.          *)
LEMMA HeardGrows ==
  ASSUME HeardKnown, wish' = wish, DOMAIN answers \subseteq DOMAIN answers',
         unkept \subseteq unkept', NEW asked_, heard' = heard \cup asked_,
         \A q \in asked_ : \/ q[2] = "text" \/ wish.cache = "off"
                           \/ q \in unkept' \/ q \in DOMAIN answers'
  PROVE  HeardKnown'
  BY DEF HeardKnown

(* What was answered is remembered, unless it is a question of text or no    *)
(* answer is.                                                                *)
LEMMA RemembersMost ==
  ASSUME stage \in 1..6, stage > 1, NEW new,
         \A q \in DOMAIN new : \E kind \in Kinds(stage) : q = Question(kind),
         answers' = IF Remembers(stage) THEN Over(new, answers) ELSE answers
  PROVE  /\ DOMAIN answers \subseteq DOMAIN answers'
         /\ \A q \in DOMAIN new : \/ q[2] = "text" \/ wish.cache = "off"
                                  \/ q \in DOMAIN answers'
<1>1. \A kind : Question(kind)[2] = kind
  BY DEF Question
<1>2. CASE Remembers(stage)
  BY <1>2 DEF Over
<1>3. CASE ~ Remembers(stage)
  <2>1. stage = 2 \/ wish.cache = "off"
    BY <1>3 DEF Remembers
  <2>2. stage = 2 => Kinds(stage) = {"text"}
    BY DEF Kinds
  <2>3. QED BY <1>1, <1>3, <2>1, <2>2
<1>4. QED BY <1>2, <1>3

LEMMA LearnHeard ==
  ASSUME HeardKnown, stage \in 1..6, stage > 1, wish' = wish, NEW new,
         \A q \in DOMAIN new : \E kind \in Kinds(stage) : q = Question(kind),
         Learn(new)
  PROVE  HeardKnown'
<1>1. /\ answers' = IF Remembers(stage) THEN Over(new, answers) ELSE answers
      /\ heard' = heard \cup DOMAIN new /\ unkept' = unkept
  BY DEF Learn
<1>2. /\ DOMAIN answers \subseteq DOMAIN answers'
      /\ \A q \in DOMAIN new : \/ q[2] = "text" \/ wish.cache = "off"
                               \/ q \in DOMAIN answers'
  BY <1>1, RemembersMost
<1>3. QED BY <1>1, <1>2, HeardGrows

LEMMA SpendIs ==
  ASSUME AttributionTypes, NEW n \in Nat, NEW stop \in BOOLEAN, Spend(n, stop)
  PROVE  /\ bill'.calls = bill.calls + n /\ served' = [served EXCEPT ![stage] = @ + n]
         /\ bill' \in [calls : Nat, stop : BOOLEAN]
<1>1. bill' = [calls |-> bill.calls + n, stop |-> stop] /\ bill.calls \in Nat
  BY DEF Spend, AttributionTypes
<1>2. bill.calls + n \in Nat
  BY <1>1
<1>3. QED BY <1>1, <1>2 DEF Spend

LEMMA NothingSpent ==
  ASSUME AttributionTypes, bill' = bill, served' = served
  PROVE  /\ \E n \in Nat : bill'.calls = bill.calls + n /\ served' = [served EXCEPT ![stage] = @ + n]
         /\ bill' \in [calls : Nat, stop : BOOLEAN]
<1>1. bill.calls \in Nat /\ stage \in 1..6 /\ served[stage] \in Nat /\ served \in [1..6 -> Nat]
  BY DEF AttributionTypes
<1>2. bill'.calls = bill.calls + 0 /\ served[stage] = served[stage] + 0
  BY <1>1
<1>3. served' = [served EXCEPT ![stage] = @ + 0]
  BY <1>1, <1>2
<1>4. QED BY <1>2, <1>3 DEF AttributionTypes

LEMMA JudgedSteps ==
  ASSUME AttributionInv, Refuse \/ Withhold \/ Recall \/ Dismiss \/ Answer \/ NoAnswer
  PROVE  Judged /\ HeardKnown'
<1>1. /\ Judging /\ progress = "judging" /\ candsLeft # <<>>
      /\ UNCHANGED <<wish, progress, stage, casesLeft, found, code, elsewhere, stages, matrix>>
  BY DEF Refuse, Withhold, Withheld, Recall, Dismiss, Answer, NoAnswer, Asking, Judging
<1>2. AttributionTypes /\ stage \in 1..6 /\ stage > 1 /\ HeardKnown /\ slips \in Nat
  BY <1>1 DEF AttributionInv, CasesPlaced, Measuring, AttributionTypes
<1>3. \A level : Done(level) => candsLeft' = Tail(candsLeft) /\ said' = Saying(Candidate, level)
  BY DEF Done
<1>4. CASE Refuse \/ Withhold
  <2>1. Done("review") /\ bill' = bill /\ served' = served /\ saved' = saved /\ slips' = slips
    BY <1>4 DEF Refuse, Withhold
  <2>2. HeardKnown'
    BY <1>2, <1>4 DEF Refuse, Withhold, HeardKnown
  <2>3. QED BY <1>1, <1>2, <1>3, <2>1, <2>2, NothingSpent DEF Judged, Levels
<1>5. CASE Recall
  <2>1. /\ Done(Level(answers[Question(Deciding)])) /\ bill' = bill /\ served' = served /\ Saves
        /\ slips' = slips
    BY <1>5 DEF Recall
  <2>2. HeardKnown'
    BY <1>2, <1>5 DEF Recall, HeardKnown
  <2>3. QED BY <1>1, <1>2, <1>3, <2>1, <2>2, NothingSpent, LevelIs DEF Judged
<1>6. CASE Dismiss
  <2>1. Done(Promoted(Candidate)) /\ saved' = saved /\ stage = 6
    BY <1>6 DEF Dismiss
  <2>2. CASE UNCHANGED <<bill, answers, served, heard, unkept, slips>>
    <3>1. HeardKnown'
      BY <1>1, <1>2, <2>2 DEF HeardKnown
    <3>2. QED BY <1>1, <1>2, <1>3, <2>1, <2>2, <3>1, NothingSpent, LevelIs DEF Judged
  <2>3. CASE /\ Slip(1) /\ Spend(1, FALSE)
             /\ Learn([q \in {Question("triage")} |-> "dismissed"])
    <3>1. "triage" \in Kinds(stage)
      BY <2>1 DEF Kinds
    <3>2. HeardKnown'
      BY <1>1, <1>2, <2>3, <3>1, LearnHeard
    <3>3. slips' \in Nat /\ slips <= slips'
      BY <1>2, <2>3, SlipIs
    <3>4. /\ bill'.calls = bill.calls + 1 /\ served' = [served EXCEPT ![stage] = @ + 1]
          /\ bill' \in [calls : Nat, stop : BOOLEAN]
      BY <1>2, <2>3, SpendIs
    <3>5. QED BY <1>1, <1>3, <2>1, <3>2, <3>3, <3>4, LevelIs DEF Judged
  <2>4. QED BY <1>6, <2>2, <2>3 DEF Dismiss
<1>7. CASE Answer
  <2>1. Saves
    BY <1>7 DEF Answer
  <2>2. PICK word \in Verdicts, posed \in {Open(stage), Open(stage) \ {"triage"}} :
           /\ Slip(IF posed = Open(stage) /\ (word = "confirmed" \/ Deciding \notin posed)
                   THEN 0 ELSE 1)
           /\ Spend(Cardinality(posed), FALSE)
           /\ Learn([q \in {Question(kind) : kind \in posed} |->
                       IF q[2] = "triage" THEN "worth it" ELSE word])
           /\ Done(Level(word))
    BY <1>7 DEF Answer
  <2>3. Cardinality(posed) \in Nat /\ \A kind \in posed : kind \in Kinds(stage)
    BY OpenIs
  <2>4. slips' \in Nat /\ slips <= slips'
    BY <1>2, <2>2, SlipIs
  <2>5. /\ bill'.calls = bill.calls + Cardinality(posed)
        /\ served' = [served EXCEPT ![stage] = @ + Cardinality(posed)]
        /\ bill' \in [calls : Nat, stop : BOOLEAN]
    BY <1>2, <2>2, <2>3, SpendIs
  <2>6. HeardKnown'
    BY <1>1, <1>2, <2>2, <2>3, LearnHeard
  <2>7. QED BY <1>1, <1>3, <2>1, <2>2, <2>3, <2>4, <2>5, <2>6, LevelIs DEF Judged
<1>8. CASE NoAnswer
  <2>1. Slip(1) /\ Done("review") /\ saved' = saved
    BY <1>8 DEF NoAnswer
  <2>2. PICK triaged \in SUBSET (Open(stage) \cap {"triage"}),
             spent \in {0, IF stage = 2 THEN 1 ELSE SchemaAttempts}, quota \in BOOLEAN :
           /\ Spend(Cardinality(triaged) + spent, quota)
           /\ Learn([q \in {Question(kind) : kind \in triaged} |-> "worth it"])
    BY <1>8 DEF NoAnswer
  <2>3. Cardinality(triaged) \in Nat /\ \A kind \in triaged : kind \in Kinds(stage)
    BY OpenIs
  <2>4. Cardinality(triaged) + spent \in Nat
    BY <2>3, AttributionAssumption
  <2>5. slips' \in Nat /\ slips <= slips'
    BY <1>2, <2>1, SlipIs
  <2>6. PICK n \in Nat : n = Cardinality(triaged) + spent
    BY <2>4
  <2>7. /\ bill'.calls = bill.calls + n /\ served' = [served EXCEPT ![stage] = @ + n]
        /\ bill' \in [calls : Nat, stop : BOOLEAN]
    BY <1>2, <2>2, <2>6, SpendIs
  <2>8. HeardKnown'
    BY <1>1, <1>2, <2>2, <2>3, LearnHeard
  <2>9. QED BY <1>1, <1>3, <2>1, <2>5, <2>7, <2>8 DEF Judged, Levels
<1>9. QED BY <1>4, <1>5, <1>6, <1>7, <1>8

(* Nothing that was saved, served or heard changes. *)
LEMMA SavedStays ==
  ASSUME SavedKnown, HeardKnown, UNCHANGED <<wish, saved, served, answers, heard, unkept>>
  PROVE  SavedKnown' /\ HeardKnown'
  BY DEF SavedKnown, HeardKnown

LEMMA BeginInv ==
  ASSUME AttributionInv, Begin
  PROVE  AttributionInv'
<1>1. /\ progress = "start" /\ stages' = << >> /\ matrix' = NoRecord
      /\ progress' = IF Refusable THEN "refused" ELSE "candidates"
      /\ stage' = 1 /\ casesLeft' = CaseList /\ candsLeft' = <<>>
      /\ found' = << >> /\ said' = << >> /\ bill' = NoBill
      /\ UNCHANGED <<wish, answers, saved, code, elsewhere, served, heard, unkept, slips>>
  BY DEF Begin
<1>2. AttributionTypes /\ SavedKnown /\ BillsKnown /\ HeardKnown /\ served \in [1..6 -> Nat]
  BY DEF AttributionInv, AttributionTypes
<1>3. DOMAIN found' = {} /\ DOMAIN said' = {} /\ DOMAIN stages' = {}
  BY <1>1
<1>4. AttributionTypes'
  BY <1>1, <1>2 DEF AttributionTypes, NoBill
<1>5. Closed' = {}
  BY <1>1 DEF Closed, Cases
<1>6. CasesPlaced'
  <2>1. wish.through \in 1..8 /\ wish' = wish
    BY <1>1, <1>2, AttributionAssumption DEF AttributionTypes
  <2>2. wish.through > 6 => Refusable
    BY Zenon DEF Refusable
  <2>3. Measuring' => progress' = "candidates" /\ ~ Refusable
    BY <1>1 DEF Measuring
  <2>4. Measuring' => progress' = "candidates" /\ 1 <= wish.through /\ wish.through <= 6
    BY <2>1, <2>2, <2>3
  <2>5. QED BY <1>1, <1>3, <1>5, <2>1, <2>4, CasesAre DEF CasesPlaced
<1>7. OutcomesPlaced'
  BY <1>1, <1>3, <1>5, FS_EmptySet DEF OutcomesPlaced, ConfirmedAsFound
<1>8. BillsKnown'
  <2>1. served[1] \in Nat /\ bill'.calls = 0
    BY <1>1, <1>2 DEF NoBill
  <2>2. slips = 0 => DOMAIN saved = {} /\ \A n \in 1..6 : served[n] = 0
    BY <1>1, <1>2 DEF BillsKnown
  <2>3. progress' # "start"
    BY <1>1
  <2>4. QED BY <1>1, <2>1, <2>2, <2>3 DEF BillsKnown
<1>9. RowsKnown'
  BY <1>1, <1>3 DEF RowsKnown, RowPaysForItself, Compared
<1>10. QED BY <1>1, <1>2, <1>4, <1>6, <1>7, <1>8, <1>9, SavedStays DEF AttributionInv

(* The rows that were written stay, and none is written while a case is     *)
(* worked on.                                                               *)
LEMMA RowsStay ==
  ASSUME AttributionTypes, BillsKnown, RowsKnown, Measuring, Measuring', casesLeft # <<>>,
         UNCHANGED <<stage, stages, matrix, served>>, slips' \in Nat, slips <= slips'
  PROVE  RowsKnown'
<1>1. slips' = 0 => slips = 0
  BY DEF AttributionTypes
<1>2. RowPaysForItself'
  BY <1>1 DEF RowsKnown, RowPaysForItself, NameOf
<1>3. \A name \in DOMAIN stages : AgreesWithControl(name) <=> AgreesWithControl(name)'
  BY DEF AgreesWithControl
<1>4. (Compared <=> Compared') /\ ~ Compared
  BY DEF Compared, RowsKnown, Measuring
<1>5. QED BY <1>2, <1>3, <1>4 DEF RowsKnown, NameOf

LEMMA FoundInv ==
  ASSUME AttributionInv, progress = "candidates", casesLeft # <<>>,
         NEW list \in Seq(CandidatesIn(Case)), FoundIn(list), slips' \in Nat, slips <= slips'
  PROVE  AttributionInv'
<1>1. /\ found' = Put(found, Case, [version |-> code[Case], list |-> list])
      /\ progress' = "opening"
      /\ UNCHANGED <<wish, stage, casesLeft, candsLeft, said, bill, answers, saved, code,
                     elsewhere, stages, matrix, served, heard, unkept>>
  BY DEF FoundIn
<1>2. /\ Measuring /\ Measuring' /\ AttributionTypes /\ CasesPlaced /\ OutcomesPlaced
      /\ SavedKnown /\ BillsKnown /\ RowsKnown /\ HeardKnown
  BY <1>1 DEF AttributionInv, Measuring
<1>3. /\ Case \in Cases /\ Case \notin Closed /\ Closed' = Closed /\ Case' = Case
      /\ DOMAIN found = Closed
  BY <1>1, <1>2, CaseAtHand DEF CasesPlaced, Closed, Case
<1>4. /\ DOMAIN found' = Closed \cup {Case}
      /\ found'[Case].list = list
      /\ \A case \in Closed : found'[case] = found[case]
  BY <1>1, <1>3 DEF Put
<1>5. AttributionTypes'
  BY <1>1, <1>2 DEF AttributionTypes
<1>6. CasesPlaced'
  <2>1. \A case \in DOMAIN found' : found'[case].list \in Seq(CandidatesIn(case))
    BY <1>2, <1>3, <1>4 DEF CasesPlaced
  <2>2. QED BY <1>1, <1>2, <1>3, <1>4, <2>1 DEF CasesPlaced
<1>7. OutcomesPlaced'
  <2>1. \A case \in Cases : \A c : c \in CandidatesIn(case) /\ c \in CandidatesIn(Case) => case = Case
    BY <1>3, CasesAre
  <2>2. \A c \in DOMAIN said : \E case \in Closed : c \in Elements(found[case].list)
    BY <1>2, <1>3 DEF OutcomesPlaced
  <2>3. \A case \in Closed : \A c \in Elements(found[case].list) : c \in CandidatesIn(case)
    BY <1>2, <1>3 DEF CasesPlaced, Elements
  <2>4. \A c \in Elements(list) : c \in CandidatesIn(Case)
    BY DEF Elements
  <2>5. Closed \subseteq Cases
    BY DEF Closed
  <2>6. \A c \in DOMAIN said : c \notin Elements(list)
    BY <1>3, <2>1, <2>2, <2>3, <2>4, <2>5
  <2>7. ConfirmedAsFound'
    <3> SUFFICES ASSUME NEW case \in DOMAIN found', NEW c \in Elements(found'[case].list),
                        c \in DOMAIN said, said[c].level = "confirmed"
                 PROVE  said[c].version = found'[case].version
      BY <1>1 DEF ConfirmedAsFound, Range, Elements
    <3>1. case \in Closed /\ found'[case] = found[case]
      BY <1>4, <2>6
    <3>2. QED BY <1>2, <1>3, <3>1 DEF OutcomesPlaced, ConfirmedAsFound, Range, Elements
  <2>8. \A c \in DOMAIN said : \E case \in DOMAIN found' : c \in Elements(found'[case].list)
    BY <1>4, <2>2
  <2>9. \A case \in Closed : \A c \in Elements(found'[case].list) : c \in DOMAIN said
    BY <1>2, <1>4 DEF OutcomesPlaced
  <2>10. QED BY <1>1, <1>2, <1>3, <2>7, <2>8, <2>9 DEF OutcomesPlaced
<1>8. BillsKnown'
  <2>1. slips' = 0 => slips = 0
    BY <1>2 DEF AttributionTypes
  <2>2. QED BY <1>1, <1>2, <1>3, <2>1 DEF BillsKnown
<1>9. RowsKnown'
  BY <1>1, <1>2, RowsStay
<1>10. QED BY <1>1, <1>2, <1>5, <1>6, <1>7, <1>8, <1>9, SavedStays DEF AttributionInv

LEMMA FindInv ==
  ASSUME AttributionInv, ReplayRecording \/ RunProfile
  PROVE  AttributionInv'
<1>1. progress = "candidates" /\ casesLeft # <<>> /\ slips \in Nat
  BY DEF ReplayRecording, RunProfile, AttributionInv, AttributionTypes
<1>2. Measuring /\ AttributionTypes /\ CasesPlaced
  BY <1>1 DEF AttributionInv, Measuring
<1>3. Case \in Cases /\ code[Case] \in {1, 2}
  BY <1>1, <1>2, CaseAtHand DEF AttributionTypes
<1>4. CandidatesAt[Case][code[Case]] \in Seq(CandidatesIn(Case))
  BY <1>3, CasesAre
<1>5. CASE ReplayRecording
  <2>1. slips' = slips /\ FoundIn(CandidatesAt[Case][code[Case]])
    BY <1>5 DEF ReplayRecording
  <2>2. slips' \in Nat /\ slips <= slips'
    BY <1>1, <2>1
  <2>3. QED BY <1>1, <1>4, <2>1, <2>2, FoundInv
<1>6. CASE RunProfile
  <2> DEFINE all == CandidatesAt[Case][code[Case]]
  <2>1. PICK kept \in 0..Len(all) :
            FoundIn(SubSeq(all, 1, kept)) /\ Slip(IF kept < Len(all) THEN 1 ELSE 0)
    BY <1>6 DEF RunProfile
  <2> HIDE DEF all
  <2>2. all \in Seq(CandidatesIn(Case))
    BY <1>4 DEF all
  <2>3. SubSeq(all, 1, kept) \in Seq(CandidatesIn(Case))
    BY <2>2
  <2>4. slips' \in Nat /\ slips <= slips'
    BY <1>1, <2>1, SlipIs
  <2>5. QED BY <1>1, <2>1, <2>3, <2>4, FoundInv
<1>7. QED BY <1>5, <1>6

(* A case is closed once its candidates have their outcomes. *)
LEMMA ClosedInv ==
  ASSUME AttributionInv, progress \in {"opening", "judging"}, NextCase,
         UNCHANGED <<wish, stage, found, bill, answers, saved, code, elsewhere, stages, matrix,
                     served, heard, unkept>>,
         slips' \in Nat, slips <= slips',
         IsFiniteSet(DOMAIN said'), \A c \in DOMAIN said' : said'[c].level \in Levels,
         ConfirmedAsFound',
         \A c \in DOMAIN said' : \E case \in DOMAIN found : c \in Elements(found[case].list),
         \A case \in Closed \cup {Case} : \A c \in Elements(found[case].list) : c \in DOMAIN said'
  PROVE  AttributionInv'
<1>1. /\ progress' = "candidates" /\ casesLeft' = Tail(casesLeft) /\ progress # "start"
      /\ progress # "candidates"
  BY DEF NextCase
<1>2. /\ Measuring /\ Measuring' /\ AttributionTypes /\ CasesPlaced /\ OutcomesPlaced
      /\ SavedKnown /\ BillsKnown /\ RowsKnown /\ HeardKnown
  BY <1>1 DEF AttributionInv, Measuring
<1>3. casesLeft # <<>>
  BY <1>1, <1>2 DEF CasesPlaced
<1>4. /\ Closed' = Closed \cup {Case} /\ DOMAIN found = Closed \cup {Case}
      /\ casesLeft' \in Seq(Cases) /\ Distinct(casesLeft')
  BY <1>1, <1>2, <1>3, CaseAtHand DEF CasesPlaced, Closed
<1>5. AttributionTypes'
  BY <1>1, <1>2 DEF AttributionTypes
<1>6. CasesPlaced'
  BY <1>1, <1>2, <1>4 DEF CasesPlaced
<1>7. OutcomesPlaced'
  BY <1>1, <1>4 DEF OutcomesPlaced
<1>8. BillsKnown'
  <2>1. slips' = 0 => slips = 0
    BY <1>2 DEF AttributionTypes
  <2>2. QED BY <1>1, <1>2, <1>4, <2>1 DEF BillsKnown
<1>9. RowsKnown'
  BY <1>2, <1>3, RowsStay
<1>10. QED BY <1>2, <1>5, <1>6, <1>7, <1>8, <1>9, SavedStays DEF AttributionInv

LEMMA PromotedInv ==
  ASSUME AttributionInv, PromoteControl \/ Unindexed
  PROVE  AttributionInv'
<1>1. /\ progress = "opening" /\ said' = PromoteAll(found[Case].list) /\ NextCase
      /\ UNCHANGED <<wish, stage, found, bill, answers, saved, code, elsewhere, stages, matrix,
                     served, heard, unkept>>
  BY DEF PromoteControl, Unindexed, PromoteOnly
<1>2. Measuring /\ AttributionTypes /\ CasesPlaced /\ OutcomesPlaced /\ slips \in Nat
  BY <1>1 DEF AttributionInv, Measuring, AttributionTypes
<1>3. slips' \in Nat /\ slips <= slips'
  <2>1. CASE PromoteControl
    BY <1>2, <2>1 DEF PromoteControl
  <2>2. CASE Unindexed
    BY <1>2, <2>2, SlipIs DEF Unindexed
  <2>3. QED BY <2>1, <2>2
<1>4. /\ Case \in DOMAIN found /\ found[Case].list \in Seq(CandidatesIn(Case))
      /\ DOMAIN found = Closed \cup {Case}
  BY <1>1, <1>2 DEF CasesPlaced
<1>5. PICK cs : cs = found[Case].list
  OBVIOUS
<1>6. Range(cs) = Elements(cs)
  BY DEF Range, Elements
<1>7. /\ DOMAIN said' = Elements(cs) \cup DOMAIN said
      /\ \A c \in Elements(cs) : said'[c] = Outcome(Promoted(c))
      /\ \A c \in DOMAIN said : c \notin Elements(cs) => said'[c] = said[c]
  BY <1>1, <1>5, <1>6 DEF PromoteAll, Over
<1>8. IsFiniteSet(DOMAIN said')
  <2>1. IsFiniteSet(Elements(cs))
    BY <1>4, <1>5, ElementsFinite
  <2>2. IsFiniteSet(DOMAIN said)
    BY <1>2 DEF OutcomesPlaced
  <2>3. IsFiniteSet(Elements(cs) \cup DOMAIN said)
    BY <2>1, <2>2, FS_Union
  <2>4. QED BY <1>7, <2>3
<1>9. \A c \in DOMAIN said' : said'[c].level \in Levels
  <2> SUFFICES ASSUME NEW c \in DOMAIN said' PROVE said'[c].level \in Levels
    OBVIOUS
  <2>1. CASE c \in Elements(cs)
    BY <1>7, <2>1, LevelIs DEF Outcome
  <2>2. CASE c \notin Elements(cs)
    BY <1>2, <1>7, <2>2 DEF OutcomesPlaced
  <2>3. QED BY <2>1, <2>2
<1>10. ConfirmedAsFound'
  <2> SUFFICES ASSUME NEW case \in DOMAIN found, NEW c \in Elements(found[case].list),
                      c \in DOMAIN said', said'[c].level = "confirmed"
               PROVE  said'[c].version = found[case].version
    BY <1>1 DEF ConfirmedAsFound, Range, Elements
  <2>1. CASE c \in Elements(cs)
    <3>1. case = Case
      BY <1>2, <1>4, <1>5, <2>1, CaseAtHand
    <3>2. ~ Stale /\ said'[c].version = code[Case]
      BY <1>7, <2>1, LevelIs DEF Outcome
    <3>3. QED BY <3>1, <3>2 DEF Stale
  <2>2. CASE c \notin Elements(cs)
    <3>1. c \in DOMAIN said /\ said'[c] = said[c]
      BY <1>7, <2>2
    <3>2. QED BY <1>2, <3>1 DEF OutcomesPlaced, ConfirmedAsFound, Range, Elements
  <2>3. QED BY <2>1, <2>2
<1>11. \A c \in DOMAIN said' : \E case \in DOMAIN found : c \in Elements(found[case].list)
  BY <1>2, <1>4, <1>5, <1>7 DEF OutcomesPlaced
<1>12. \A case \in Closed \cup {Case} : \A c \in Elements(found[case].list) : c \in DOMAIN said'
  BY <1>2, <1>5, <1>7 DEF OutcomesPlaced
<1>13. QED BY <1>1, <1>3, <1>8, <1>9, <1>10, <1>11, <1>12, ClosedInv

LEMMA CloseCaseInv ==
  ASSUME AttributionInv, CloseCase
  PROVE  AttributionInv'
<1>1. /\ progress = "judging" /\ candsLeft = <<>> /\ NextCase
      /\ UNCHANGED <<wish, stage, found, said, bill, answers, saved, code, elsewhere, stages,
                     matrix, served, heard, unkept, slips>>
  BY DEF CloseCase
<1>2. Measuring /\ AttributionTypes /\ CasesPlaced /\ OutcomesPlaced /\ slips \in Nat
  BY <1>1 DEF AttributionInv, Measuring, AttributionTypes
<1>3. slips' \in Nat /\ slips <= slips'
  BY <1>1, <1>2
<1>4. Elements(candsLeft) = {}
  BY <1>1 DEF Elements
<1>5. \A case \in Closed \cup {Case} : \A c \in Elements(found[case].list) : c \in DOMAIN said
  BY <1>1, <1>2, <1>4 DEF OutcomesPlaced
<1>6. ConfirmedAsFound'
  BY <1>1, <1>2 DEF OutcomesPlaced, ConfirmedAsFound
<1>7. /\ IsFiniteSet(DOMAIN said) /\ \A c \in DOMAIN said : said[c].level \in Levels
      /\ \A c \in DOMAIN said : \E case \in DOMAIN found : c \in Elements(found[case].list)
  BY <1>2 DEF OutcomesPlaced
<1>8. QED BY <1>1, <1>3, <1>5, <1>6, <1>7, ClosedInv

LEMMA OpenCaseInv ==
  ASSUME AttributionInv, OpenCase
  PROVE  AttributionInv'
<1>1. /\ progress = "opening" /\ stage > 1
      /\ UNCHANGED <<wish, stage, casesLeft, found, answers, saved, code, elsewhere, stages,
                     matrix, served, heard, unkept, slips>>
  BY DEF OpenCase
<1>2. /\ Measuring /\ AttributionTypes /\ CasesPlaced /\ OutcomesPlaced /\ SavedKnown
      /\ BillsKnown /\ RowsKnown /\ HeardKnown
  BY <1>1 DEF AttributionInv, Measuring
<1>3. /\ casesLeft # <<>> /\ Case \in Cases /\ Case \notin Closed /\ Closed' = Closed
      /\ Case' = Case /\ DOMAIN found = Closed \cup {Case}
      /\ found[Case].list \in Seq(CandidatesIn(Case))
      /\ slips' \in Nat /\ slips <= slips'
  BY <1>1, <1>2, CaseAtHand DEF CasesPlaced, Closed, Case, AttributionTypes
<1>4. PICK cs : cs = found[Case].list
  OBVIOUS
<1>5. cs \in Seq(Elements(cs))
  BY <1>3, <1>4 DEF Elements
<1>6. SavedKnown' /\ HeardKnown'
  BY <1>1, <1>2, SavedStays
<1>7. CASE stage > 3 /\ <<stage, Case>> \in DOMAIN saved /\ SameExperiment(saved[<<stage, Case>>])
  <2> PICK state : state = saved[<<stage, Case>>]
    OBVIOUS
  <2> PICK places : places = {i \in DOMAIN cs : cs[i] \notin DOMAIN state.said}
    OBVIOUS
  <2>1. /\ progress' = "judging" /\ said' = Over(state.said, said) /\ bill' = RestoredBill(state)
        /\ candsLeft' = AtPlaces(cs, places) /\ state.found = found[Case]
    BY <1>4, <1>7 DEF OpenCase, SameExperiment
  <2>2. /\ stage \in 1..6 /\ state.calls \in Nat /\ state.calls <= served[stage]
        /\ \A c \in DOMAIN state.said :
               /\ c \in Elements(cs) /\ state.said[c].level \in Levels
               /\ state.said[c].level = "confirmed" =>
                      state.said[c].version = found[Case].version
    BY <1>2, <1>4, <1>7, <2>1 DEF SavedKnown, AttributionTypes
  <2>3. /\ DOMAIN said' = DOMAIN state.said \cup DOMAIN said
        /\ \A c \in DOMAIN state.said : said'[c] = state.said[c]
        /\ \A c \in DOMAIN said : c \notin DOMAIN state.said => said'[c] = said[c]
    BY <2>1 DEF Over
  <2>4. Measuring'
    BY <2>1 DEF Measuring
  <2>5. AttributionTypes'
    BY <1>1, <1>2, <2>1, <2>2 DEF AttributionTypes, RestoredBill
  <2>6. CasesPlaced'
    BY <1>1, <1>2, <1>3, <2>1 DEF CasesPlaced
  <2>7. IsFiniteSet(DOMAIN said')
    <3>1. IsFiniteSet(Elements(cs)) /\ DOMAIN state.said \in SUBSET Elements(cs)
      BY <1>3, <1>4, <2>2, ElementsFinite
    <3>2. IsFiniteSet(DOMAIN state.said)
      BY <3>1, FS_Subset
    <3>3. IsFiniteSet(DOMAIN said)
      BY <1>2 DEF OutcomesPlaced
    <3>4. IsFiniteSet(DOMAIN state.said \cup DOMAIN said)
      BY <3>2, <3>3, FS_Union
    <3>5. QED BY <2>3, <3>4
  <2>8. \A c \in DOMAIN said' : said'[c].level \in Levels
    BY <1>2, <2>2, <2>3 DEF OutcomesPlaced
  <2>9. ConfirmedAsFound'
    <3> SUFFICES ASSUME NEW case \in DOMAIN found, NEW c \in Elements(found[case].list),
                        c \in DOMAIN said', said'[c].level = "confirmed"
                 PROVE  said'[c].version = found[case].version
      BY <1>1 DEF ConfirmedAsFound, Range, Elements
    <3>1. CASE c \in DOMAIN state.said
      <4>1. case = Case
        BY <1>2, <1>3, <1>4, <2>2, <3>1, CaseAtHand
      <4>2. QED BY <2>2, <2>3, <3>1, <4>1
    <3>2. CASE c \notin DOMAIN state.said
      <4>1. c \in DOMAIN said /\ said'[c] = said[c]
        BY <2>3, <3>2
      <4>2. QED BY <1>2, <4>1 DEF OutcomesPlaced, ConfirmedAsFound, Range, Elements
    <3>3. QED BY <3>1, <3>2
  <2>10. \A c \in DOMAIN said' : \E case \in DOMAIN found : c \in Elements(found[case].list)
    BY <1>2, <1>3, <1>4, <2>2, <2>3 DEF OutcomesPlaced
  <2>11. \A case \in Closed : \A c \in Elements(found[case].list) : c \in DOMAIN said'
    BY <1>2, <2>3 DEF OutcomesPlaced
  <2>12. /\ candsLeft' \in Seq(Elements(cs))
         /\ \A c \in Elements(cs) : c \in DOMAIN said' \cup Elements(candsLeft')
    <3>1. places \in SUBSET (DOMAIN cs)
      OBVIOUS
    <3>2. candsLeft' \in Seq(Elements(cs)) /\ Elements(candsLeft') = {cs[i] : i \in places}
      BY <1>5, <2>1, <3>1, AtPlacesAre
    <3>3. ASSUME NEW c \in Elements(cs), c \notin DOMAIN said' PROVE c \in Elements(candsLeft')
      <4>1. PICK i \in DOMAIN cs : cs[i] = c
        BY DEF Elements
      <4>2. i \in places
        BY <2>3, <3>3, <4>1
      <4>3. QED BY <3>2, <4>1, <4>2
    <3>4. QED BY <3>2, <3>3
  <2>13. OutcomesPlaced'
    BY <1>1, <1>3, <1>4, <2>7, <2>8, <2>9, <2>10, <2>11, <2>12 DEF OutcomesPlaced
  <2>14. BillsKnown'
    <3>1. slips # 0
      <4>1. ASSUME slips = 0 PROVE FALSE
        <5>1. PICK k \in DOMAIN saved : k = <<stage, Case>>
          BY <1>7
        <5>2. k[1] = stage /\ k[2] = Case /\ ~ (stage < stage)
          BY <2>2, <5>1
        <5>3. QED BY <1>1, <1>2, <1>3, <4>1, <5>1, <5>2 DEF BillsKnown
      <4>2. QED BY <4>1
    <3>2. bill'.calls = state.calls
      BY <2>1 DEF RestoredBill
    <3>3. QED BY <1>1, <2>2, <3>1, <3>2 DEF BillsKnown
  <2>15. RowsKnown'
    BY <1>1, <1>2, <1>3, <2>4, RowsStay
  <2>16. QED BY <1>6, <2>5, <2>6, <2>13, <2>14, <2>15 DEF AttributionInv
<1>8. CASE stage > 3 /\ <<stage, Case>> \in DOMAIN saved /\ ~ SameExperiment(saved[<<stage, Case>>])
  <2>1. progress' = "refused" /\ said' = said /\ bill' = bill /\ ~ Measuring'
    BY <1>8 DEF OpenCase, Measuring
  <2>2. AttributionTypes'
    BY <1>1, <1>2, <2>1 DEF AttributionTypes
  <2>3. CasesPlaced'
    BY <2>1 DEF CasesPlaced
  <2>4. ConfirmedAsFound'
    BY <1>1, <1>2, <2>1 DEF OutcomesPlaced, ConfirmedAsFound
  <2>5. OutcomesPlaced'
    BY <1>2, <2>1, <2>4 DEF OutcomesPlaced
  <2>6. BillsKnown'
    BY <1>1, <2>1 DEF BillsKnown
  <2>7. RowPaysForItself' /\ ~ Compared'
    BY <1>1, <1>2 DEF RowsKnown, RowPaysForItself, Compared, NameOf
  <2>8. RowsKnown'
    BY <1>1, <1>2, <2>1, <2>7 DEF RowsKnown
  <2>9. QED BY <1>6, <2>2, <2>3, <2>5, <2>6, <2>8 DEF AttributionInv
<1>9. CASE ~ (stage > 3 /\ <<stage, Case>> \in DOMAIN saved)
  <2>1. progress' = "judging" /\ candsLeft' = cs /\ said' = said /\ bill' = bill /\ Measuring'
    BY <1>4, <1>9 DEF OpenCase, Measuring
  <2>2. AttributionTypes'
    BY <1>1, <1>2, <2>1 DEF AttributionTypes
  <2>3. CasesPlaced'
    BY <1>1, <1>2, <1>3, <2>1 DEF CasesPlaced
  <2>4. ConfirmedAsFound'
    BY <1>1, <1>2, <2>1 DEF OutcomesPlaced, ConfirmedAsFound
  <2>5. OutcomesPlaced'
    BY <1>1, <1>2, <1>3, <1>4, <1>5, <2>1, <2>4 DEF OutcomesPlaced
  <2>6. BillsKnown'
    BY <1>1, <1>2, <1>3, <2>1 DEF BillsKnown
  <2>7. RowsKnown'
    BY <1>1, <1>2, <1>3, <2>1, RowsStay
  <2>8. QED BY <1>6, <2>2, <2>3, <2>5, <2>6, <2>7 DEF AttributionInv
<1>10. QED BY <1>7, <1>8, <1>9

(* The names of the rows are their own. *)
LEMMA NamesApart ==
  /\ \A m, n \in 1..6 : NameOf(m) = NameOf(n) => m = n
  /\ NameOf(1) = "A0"
<1>1. /\ NameOf(1) = "A0" /\ NameOf(2) = "A1" /\ NameOf(3) = "A2" /\ NameOf(4) = "A3"
      /\ NameOf(5) = "A4" /\ NameOf(6) = "A5"
  BY DEF NameOf, Stages
<1>2. \A n \in 1..6 : n = 1 \/ n = 2 \/ n = 3 \/ n = 4 \/ n = 5 \/ n = 6
  OBVIOUS
<1>3. QED BY <1>1, <1>2

(* A row counts every candidate that was found for it once. *)
LEMMA RowCounts ==
  ASSUME AttributionInv, progress = "candidates", casesLeft = <<>>
  PROVE  /\ RowReport.experiment.candidates = found /\ RowReport.calls = bill.calls
         /\ RowReport.confirmed + RowReport.review = Cardinality(AllOf(found))
<1>1. Measuring /\ CasesPlaced /\ OutcomesPlaced
  BY DEF AttributionInv, Measuring
<1>2. Elements(casesLeft) = {}
  BY DEF Elements
<1>3. DOMAIN found = Cases /\ Closed = Cases
  BY <1>1, <1>2 DEF CasesPlaced, Closed
<1>4. DOMAIN said = AllOf(found)
  <2>1. \A c \in DOMAIN said : \E case \in DOMAIN found : c \in Elements(found[case].list)
    BY <1>1 DEF OutcomesPlaced
  <2>2. \A case \in DOMAIN found : \A c \in Elements(found[case].list) : c \in DOMAIN said
    BY <1>1, <1>3 DEF OutcomesPlaced
  <2>3. QED BY <2>1, <2>2 DEF AllOf
<1> DEFINE S == DOMAIN said
           T == {c \in S : said[c].level = "confirmed"}
           R == {c \in S : said[c].level = "review"}
<1>5. S \ T = R
  BY <1>1 DEF OutcomesPlaced, Levels
<1>6. IsFiniteSet(S) /\ T \subseteq S
  BY <1>1 DEF OutcomesPlaced
<1>7. Count("confirmed") = Cardinality(T) /\ Count("review") = Cardinality(R)
  BY DEF Count
<1> HIDE DEF S, T, R
<1>8. Cardinality(S) = Cardinality(T) + Cardinality(S \ T)
  BY <1>6, CountRest
<1>9. Count("confirmed") + Count("review") = Cardinality(S)
  BY <1>5, <1>7, <1>8
<1>10. /\ RowReport.confirmed = Count("confirmed") /\ RowReport.review = Count("review")
       /\ RowReport.experiment.candidates = found /\ RowReport.calls = bill.calls
  BY DEF RowReport
<1>11. QED BY <1>4, <1>9, <1>10 DEF S

LEMMA WriteRowInv ==
  ASSUME AttributionInv, WriteRow
  PROVE  AttributionInv'
<1>1. /\ progress = "candidates" /\ casesLeft = <<>> /\ NameOf(stage) \notin DOMAIN stages
      /\ stages' = Put(stages, NameOf(stage), RowReport)
      /\ UNCHANGED <<wish, progress, candsLeft, answers, saved, code, elsewhere, matrix, served,
                     heard, unkept, slips>>
  BY DEF WriteRow
<1>2. /\ Measuring /\ Measuring' /\ AttributionTypes /\ CasesPlaced /\ OutcomesPlaced
      /\ SavedKnown /\ BillsKnown /\ RowsKnown /\ HeardKnown
  BY <1>1 DEF AttributionInv, Measuring
<1>3. SavedKnown' /\ HeardKnown'
  BY <1>1, <1>2, SavedStays
<1>4. PICK new : new = RowReport
  OBVIOUS
<1>5. /\ new.experiment.candidates = found /\ new.calls = bill.calls
      /\ new.confirmed + new.review = Cardinality(AllOf(found))
  BY <1>1, <1>4, RowCounts
<1>6. /\ DOMAIN stages' = DOMAIN stages \cup {NameOf(stage)} /\ stages'[NameOf(stage)] = new
      /\ \A name \in DOMAIN stages : stages'[name] = stages[name]
  BY <1>1, <1>4 DEF Put
<1>7. /\ stage \in 1..6 /\ bill.calls \in Nat /\ wish.through \in Int
      /\ stage <= wish.through /\ wish.through <= 6 /\ served[stage] \in Nat
  <2>1. wish.through \in 1..8
    BY <1>2, AttributionAssumption DEF AttributionTypes
  <2>2. QED BY <1>2, <2>1 DEF AttributionTypes, CasesPlaced
<1>8. bill.calls <= served[stage] /\ (slips = 0 => bill.calls = served[stage])
  BY <1>2 DEF BillsKnown
<1>9. \A n \in 1..6 : NameOf(n)' = NameOf(n)
  BY DEF NameOf
<1>10. RowPaysForItself'
  <2> SUFFICES ASSUME NEW n \in 1..6, NameOf(n) \in DOMAIN stages'
               PROVE  /\ stages'[NameOf(n)].calls <= served[n]
                      /\ slips = 0 => stages'[NameOf(n)].calls = served[n]
    BY <1>1, <1>9 DEF RowPaysForItself
  <2>1. CASE NameOf(n) \in DOMAIN stages
    BY <1>2, <1>6, <2>1 DEF RowsKnown, RowPaysForItself
  <2>2. CASE NameOf(n) = NameOf(stage)
    <3>1. n = stage
      BY <1>7, <2>2, NamesApart
    <3>2. QED BY <1>5, <1>6, <1>8, <3>1
  <2>3. QED BY <1>6, <2>1, <2>2
<1>11. \A name \in DOMAIN stages' :
          /\ stages'[name].calls \in Nat
          /\ stages'[name].confirmed + stages'[name].review
                 = Cardinality(AllOf(stages'[name].experiment.candidates))
  BY <1>2, <1>5, <1>6, <1>7 DEF RowsKnown
<1>12. ~ Compared /\ ~ Compared'
  BY <1>1, <1>2 DEF RowsKnown, Compared
<1>13. "A0" \in DOMAIN stages'
  <2>1. CASE stage = 1
    BY <1>6, <2>1, NamesApart
  <2>2. CASE stage # 1
    <3>1. stage > 1
      BY <1>7, <2>2
    <3>2. QED BY <1>2, <1>6, <3>1 DEF RowsKnown
  <2>3. QED BY <2>1, <2>2
<1>14. \A n \in 1..6 : NameOf(n) \in DOMAIN stages' => n <= stage
  <2> SUFFICES ASSUME NEW n \in 1..6, NameOf(n) \in DOMAIN stages' PROVE n <= stage
    OBVIOUS
  <2>1. CASE NameOf(n) \in DOMAIN stages
    <3>1. n < stage \/ n = stage
      BY <1>2, <2>1 DEF RowsKnown
    <3>2. QED BY <1>7, <3>1
  <2>2. CASE NameOf(n) = NameOf(stage)
    <3>1. n = stage
      BY <1>7, <2>2, NamesApart
    <3>2. QED BY <1>7, <3>1
  <2>3. QED BY <1>6, <2>1, <2>2
<1>15. CASE stage = wish.through
  <2>1. UNCHANGED <<stage, casesLeft, found, said, bill>>
    BY <1>15 DEF WriteRow
  <2>2. AttributionTypes'
    BY <1>1, <1>2, <2>1 DEF AttributionTypes
  <2>3. CasesPlaced'
    BY <1>1, <1>2, <2>1 DEF CasesPlaced, Closed, Case
  <2>4. ConfirmedAsFound'
    BY <1>2, <2>1 DEF OutcomesPlaced, ConfirmedAsFound
  <2>5. OutcomesPlaced'
    BY <1>1, <1>2, <2>1, <2>4 DEF OutcomesPlaced, Closed
  <2>6. BillsKnown'
    BY <1>1, <1>2, <2>1 DEF BillsKnown, Closed
  <2>7. \A n \in 1..6 : n <= stage => n < stage \/ n = stage
    BY <1>7
  <2>8. RowsKnown'
    BY <1>1, <1>9, <1>10, <1>11, <1>12, <1>13, <1>14, <2>1, <2>7 DEF RowsKnown
  <2>9. QED BY <1>3, <2>2, <2>3, <2>5, <2>6, <2>8 DEF AttributionInv
<1>16. CASE stage # wish.through
  <2>1. /\ stage' = stage + 1 /\ casesLeft' = CaseList
        /\ found' = << >> /\ said' = << >> /\ bill' = NoBill
    BY <1>16 DEF WriteRow
  <2>2. stage' \in 1..6 /\ stage' <= wish.through /\ DOMAIN found' = {} /\ DOMAIN said' = {}
    BY <1>7, <1>16, <2>1
  <2>3. Closed' = {} /\ progress' = "candidates"
    BY <1>1, <2>1 DEF Closed, Cases
  <2>4. AttributionTypes'
    BY <1>1, <1>2, <2>1, <2>2 DEF AttributionTypes, NoBill
  <2>5. CasesPlaced'
    BY <1>1, <1>7, <2>1, <2>2, <2>3, CasesAre DEF CasesPlaced
  <2>6. OutcomesPlaced'
    BY <1>1, <2>1, <2>2, <2>3, FS_EmptySet DEF OutcomesPlaced, ConfirmedAsFound
  <2>7. BillsKnown'
    <3>1. bill'.calls = 0 /\ served[stage'] \in Nat /\ stage' > stage
      BY <1>2, <1>7, <2>1, <2>2 DEF NoBill, AttributionTypes
    <3>2. \A n \in 1..6 : n > stage' => n > stage
      BY <1>7, <2>1
    <3>3. \A k \in DOMAIN saved : k[1] \in 1..6 /\ (k[1] < stage \/ k[1] = stage => k[1] < stage')
      BY <1>2, <1>7, <2>1 DEF SavedKnown
    <3>4. slips = 0 => served[stage'] = 0 /\ \A n \in 1..6 : n > stage' => served[n] = 0
      BY <1>2, <2>2, <3>1, <3>2 DEF BillsKnown
    <3>5. slips = 0 => \A k \in DOMAIN saved : k[1] < stage'
      BY <1>2, <3>3 DEF BillsKnown
    <3>6. QED BY <1>1, <3>1, <3>4, <3>5 DEF BillsKnown
  <2>8. \A n \in 1..6 : n <= stage => n < stage'
    BY <1>7, <2>1
  <2>9. RowsKnown'
    BY <1>1, <1>9, <1>10, <1>11, <1>12, <1>13, <1>14, <2>8 DEF RowsKnown
  <2>10. QED BY <1>3, <2>4, <2>5, <2>6, <2>7, <2>9 DEF AttributionInv
<1>17. QED BY <1>15, <1>16

(* Nothing of a row that was measured changes when nothing is measured.     *)
LEMMA RestingInv ==
  ASSUME AttributionInv, progress' \in {"start", "ended", "refused"},
         slips' \in Nat, slips <= slips', progress' = "start" => slips' # 0,
         served' \in [1..6 -> Nat], \A n \in 1..6 : served[n] <= served'[n],
         slips' = 0 => served' = served, HeardKnown',
         UNCHANGED <<wish, stage, candsLeft, found, said, bill, saved, code, elsewhere, stages>>,
         Compared' => /\ progress' # "refused" /\ "A0" \in DOMAIN stages
                      /\ \A name \in DOMAIN stages : AgreesWithControl(name)
  PROVE  AttributionInv'
<1>1. /\ AttributionTypes /\ OutcomesPlaced /\ SavedKnown /\ RowsKnown
  BY DEF AttributionInv
<1>2. ~ Measuring' /\ progress' # "judging"
  BY DEF Measuring
<1>3. AttributionTypes'
  BY <1>1 DEF AttributionTypes
<1>4. CasesPlaced'
  BY <1>2 DEF CasesPlaced
<1>5. ConfirmedAsFound'
  BY <1>1 DEF OutcomesPlaced, ConfirmedAsFound
<1>6. OutcomesPlaced'
  BY <1>1, <1>2, <1>5 DEF OutcomesPlaced
<1>7. BillsKnown'
  BY <1>2 DEF BillsKnown
<1>8. slips' = 0 => slips = 0
  BY <1>1 DEF AttributionTypes
<1>9. \A n \in 1..6 : served[n] \in Nat /\ served'[n] \in Nat
  BY <1>1 DEF AttributionTypes
<1>10. SavedKnown'
  <2> SUFFICES ASSUME NEW k \in DOMAIN saved PROVE saved[k].calls <= served'[k[1]]
    BY <1>1 DEF SavedKnown
  <2>1. k[1] \in 1..6 /\ saved[k].calls \in Nat /\ saved[k].calls <= served[k[1]]
    BY <1>1 DEF SavedKnown
  <2>2. served[k[1]] \in Nat /\ served'[k[1]] \in Nat /\ served[k[1]] <= served'[k[1]]
    BY <1>9, <2>1
  <2>3. QED BY <2>1, <2>2
<1>11. RowPaysForItself'
  <2> SUFFICES ASSUME NEW n \in 1..6, NameOf(n) \in DOMAIN stages
               PROVE  /\ stages[NameOf(n)].calls <= served'[n]
                      /\ slips' = 0 => stages[NameOf(n)].calls = served'[n]
    BY DEF RowPaysForItself, NameOf
  <2>1. /\ stages[NameOf(n)].calls \in Nat /\ stages[NameOf(n)].calls <= served[n]
        /\ slips = 0 => stages[NameOf(n)].calls = served[n]
    BY <1>1 DEF RowsKnown, RowPaysForItself
  <2>2. served[n] \in Nat /\ served'[n] \in Nat /\ served[n] <= served'[n]
    BY <1>9
  <2>3. stages[NameOf(n)].calls <= served'[n]
    BY <2>1, <2>2
  <2>4. QED BY <1>8, <2>1, <2>3
<1>12. \A name \in DOMAIN stages : AgreesWithControl(name) <=> AgreesWithControl(name)'
  BY DEF AgreesWithControl
<1>13. RowsKnown'
  BY <1>1, <1>2, <1>11, <1>12 DEF RowsKnown
<1>14. QED BY <1>3, <1>4, <1>6, <1>7, <1>10, <1>13 DEF AttributionInv

(* A run that is killed while it asks has been served more than it kept.    *)
LEMMA KilledInv ==
  ASSUME AttributionInv, KilledAsking
  PROVE  AttributionInv'
<1>1. /\ progress = "judging" /\ Slip(1) /\ progress' = "start"
      /\ UNCHANGED <<wish, stage, casesLeft, candsLeft, found, said, bill, saved, code,
                     elsewhere, stages, matrix>>
  BY DEF KilledAsking, Asking, Judging
<1>2. /\ AttributionTypes /\ stage \in 1..6 /\ stage > 1 /\ HeardKnown /\ slips \in Nat
      /\ served \in [1..6 -> Nat] /\ ~ Compared
  BY <1>1 DEF AttributionInv, CasesPlaced, Measuring, AttributionTypes, RowsKnown
<1>3. slips' \in Nat /\ slips <= slips' /\ slips' # 0
  BY <1>1, <1>2 DEF Slip
<1>4. PICK posed \in {Open(stage) \cap {"triage"}, Open(stage), Open(stage) \ {"triage"}} \ {{}} :
      \E kept \in {posed, posed \ LastOf(posed)},
         word \in TriageWords(posed),
         ruling \in {"confirmed", "declined"} :
          /\ served' = [served EXCEPT ![stage] = @ + Cardinality(posed)]
          /\ answers' = IF Remembers(stage)
                        THEN Over([q \in {Question(kind) : kind \in kept} |->
                                      IF q[2] = "triage" THEN word ELSE ruling], answers)
                        ELSE answers
          /\ heard' = heard \cup {Question(kind) : kind \in posed}
          /\ unkept' = unkept \cup {Question(kind) : kind \in posed \ kept}
  BY Zenon DEF KilledAsking
<1>5. PICK kept \in {posed, posed \ LastOf(posed)},
         word \in TriageWords(posed),
         ruling \in {"confirmed", "declined"} :
          /\ served' = [served EXCEPT ![stage] = @ + Cardinality(posed)]
          /\ answers' = IF Remembers(stage)
                        THEN Over([q \in {Question(kind) : kind \in kept} |->
                                      IF q[2] = "triage" THEN word ELSE ruling], answers)
                        ELSE answers
          /\ heard' = heard \cup {Question(kind) : kind \in posed}
          /\ unkept' = unkept \cup {Question(kind) : kind \in posed \ kept}
  BY <1>4, Zenon
<1>6. PICK new : new = [q \in {Question(kind) : kind \in kept} |->
                           IF q[2] = "triage" THEN word ELSE ruling]
  OBVIOUS
<1>7. /\ served' = [served EXCEPT ![stage] = @ + Cardinality(posed)]
      /\ DOMAIN new = {Question(kind) : kind \in kept}
      /\ answers' = IF Remembers(stage) THEN Over(new, answers) ELSE answers
      /\ heard' = heard \cup {Question(kind) : kind \in posed}
      /\ unkept' = unkept \cup {Question(kind) : kind \in posed \ kept}
  BY <1>5, <1>6, Zenon
<1>8. posed \subseteq Open(stage) /\ kept \subseteq posed
  <2>1. posed \subseteq Open(stage)
    OBVIOUS
  <2>2. kept \subseteq posed
    BY <1>5
  <2>3. QED BY <2>1, <2>2
<1>9. Cardinality(posed) \in Nat /\ \A kind \in posed : kind \in Kinds(stage)
  BY <1>8, OpenIs
<1>10. served' \in [1..6 -> Nat] /\ \A n \in 1..6 : served[n] <= served'[n]
  <2>1. served[stage] \in Nat /\ served[stage] + Cardinality(posed) \in Nat
        /\ served[stage] <= served[stage] + Cardinality(posed)
    BY <1>2, <1>9
  <2>2. served' \in [1..6 -> Nat]
    BY <1>2, <1>7, <2>1
  <2>3. ASSUME NEW n \in 1..6 PROVE served[n] <= served'[n]
    <3>1. CASE n = stage
      BY <1>2, <1>7, <2>1, <3>1
    <3>2. CASE n # stage
      <4>1. served'[n] = served[n] /\ served[n] \in Nat
        BY <1>2, <1>7, <3>2
      <4>2. QED BY <4>1
    <3>3. QED BY <3>1, <3>2
  <2>4. QED BY <2>2, <2>3
<1>11. HeardKnown'
  <2>1. \A q \in DOMAIN new : \E kind \in Kinds(stage) : q = Question(kind)
    BY <1>7, <1>8, <1>9
  <2>2. /\ DOMAIN answers \subseteq DOMAIN answers'
        /\ \A q \in DOMAIN new : \/ q[2] = "text" \/ wish.cache = "off"
                                 \/ q \in DOMAIN answers'
    BY <1>2, <1>7, <2>1, RemembersMost
  <2>3. ASSUME NEW q \in {Question(kind) : kind \in posed}
        PROVE  \/ q[2] = "text" \/ wish.cache = "off"
               \/ q \in unkept' \/ q \in DOMAIN answers'
    BY <1>7, <2>2
  <2>4. unkept \subseteq unkept' /\ wish' = wish
    BY <1>1, <1>7
  <2>5. QED BY <1>2, <1>7, <2>2, <2>3, <2>4, HeardGrows
<1>12. ~ Compared'
  BY <1>1, <1>2 DEF Compared
<1>13. QED BY <1>1, <1>3, <1>10, <1>11, <1>12, RestingInv

(* A prompt that is refused ends the command and changes nothing else.      *)
LEMMA RaisePrivacyInv ==
  ASSUME AttributionInv, RaisePrivacy
  PROVE  AttributionInv'
<1>1. /\ progress = "judging" /\ progress' = "refused"
      /\ UNCHANGED <<wish, stage, casesLeft, candsLeft, found, said, bill, answers, saved, code,
                     elsewhere, stages, matrix, served, heard, unkept, slips>>
  BY DEF RaisePrivacy, Withheld, Judging
<1>2. /\ slips \in Nat /\ served \in [1..6 -> Nat] /\ HeardKnown /\ ~ Compared
  BY <1>1 DEF AttributionInv, AttributionTypes, RowsKnown
<1>3. \A n \in 1..6 : served[n] <= served'[n]
  BY <1>1, <1>2
<1>4. HeardKnown' /\ ~ Compared'
  BY <1>1, <1>2 DEF HeardKnown, Compared
<1>5. QED BY <1>1, <1>2, <1>3, <1>4, RestingInv

LEMMA MatrixInv ==
  ASSUME AttributionInv, BuildAttributionMatrix \/ Again
  PROVE  AttributionInv'
<1>1. /\ AttributionTypes /\ RowsKnown /\ HeardKnown /\ slips \in Nat
      /\ served \in [1..6 -> Nat] /\ \A n \in 1..6 : served[n] <= served[n]
  BY DEF AttributionInv, AttributionTypes
<1>2. CASE BuildAttributionMatrix
  <2>1. /\ progress = "candidates" /\ NameOf(wish.through) \in DOMAIN stages /\ progress' = "ended"
        /\ UNCHANGED <<wish, stage, candsLeft, found, said, bill, answers, saved, code,
                       elsewhere, stages, served, heard, unkept, slips>>
        /\ (\A name \in DOMAIN stages : AgreesWithControl(name)) \/ matrix' = <<>>
    BY <1>2 DEF BuildAttributionMatrix
  <2>2. "A0" \in DOMAIN stages
    BY <1>1, <2>1 DEF RowsKnown, Measuring
  <2>3. Compared' => \A name \in DOMAIN stages : AgreesWithControl(name)
    BY <2>1 DEF Compared
  <2>4. slips' \in Nat /\ slips <= slips' /\ HeardKnown'
    BY <1>1, <2>1 DEF HeardKnown
  <2>5. QED BY <1>1, <2>1, <2>2, <2>3, <2>4, RestingInv
<1>3. CASE Again
  <2>1. /\ progress' = "start" /\ Slip(1)
        /\ UNCHANGED <<wish, stage, casesLeft, candsLeft, found, said, bill, answers, saved,
                       code, elsewhere, stages, matrix, served, heard, unkept>>
    BY <1>3 DEF Again
  <2>2. slips' = slips + 1
    BY <2>1 DEF Slip
  <2>3. slips' \in Nat /\ slips <= slips' /\ slips' # 0
    BY <1>1, <2>2
  <2>4. Compared' => "A0" \in DOMAIN stages /\ \A name \in DOMAIN stages : AgreesWithControl(name)
    BY <1>1, <2>1 DEF RowsKnown, Compared
  <2>5. HeardKnown'
    BY <1>1, <2>1 DEF HeardKnown
  <2>6. QED BY <1>1, <2>1, <2>3, <2>4, <2>5, RestingInv
<1>4. QED BY <1>2, <1>3

LEMMA EditInv ==
  ASSUME AttributionInv, EditCase
  PROVE  AttributionInv'
<1>1. /\ Slip(1)
      /\ UNCHANGED <<wish, progress, stage, casesLeft, candsLeft, found, said, bill, answers,
                     saved, stages, matrix, served, heard, unkept>>
  BY DEF EditCase
<1>2. /\ AttributionTypes /\ CasesPlaced /\ OutcomesPlaced /\ SavedKnown /\ BillsKnown
      /\ RowsKnown /\ HeardKnown /\ slips \in Nat
  BY DEF AttributionInv, AttributionTypes
<1>3. slips' \in Nat /\ slips' # 0
  BY <1>1, <1>2 DEF Slip
<1>4. code \in [Cases -> {1, 2}]
  BY <1>2 DEF AttributionTypes
<1>5. code' \in [Cases -> {1, 2}]
  <2>1. CASE code' = code
    BY <1>4, <2>1
  <2>2. CASE \E case \in DOMAIN code : code' = [code EXCEPT ![case] = 3 - @]
    <3>1. PICK case \in DOMAIN code : code' = [code EXCEPT ![case] = 3 - @]
      BY <2>2
    <3>2. 3 - code[case] \in {1, 2}
      BY <1>4
    <3>3. QED BY <1>4, <3>1, <3>2
  <2>3. QED BY <2>1, <2>2 DEF EditCase
<1>6. AttributionTypes'
  BY <1>1, <1>2, <1>3, <1>5 DEF AttributionTypes
<1>7. Closed' = Closed /\ Case' = Case /\ (Measuring <=> Measuring') /\ (Compared <=> Compared')
  BY <1>1 DEF Closed, Case, Measuring, Compared
<1>8. CasesPlaced'
  BY <1>1, <1>2, <1>7 DEF CasesPlaced
<1>9. ConfirmedAsFound'
  BY <1>1, <1>2 DEF OutcomesPlaced, ConfirmedAsFound
<1>10. OutcomesPlaced'
  BY <1>1, <1>2, <1>7, <1>9 DEF OutcomesPlaced
<1>11. BillsKnown'
  BY <1>1, <1>2, <1>3, <1>7 DEF BillsKnown
<1>12. RowPaysForItself'
  BY <1>1, <1>2, <1>3 DEF RowsKnown, RowPaysForItself, NameOf
<1>13. \A name \in DOMAIN stages : AgreesWithControl(name) <=> AgreesWithControl(name)'
  BY <1>1 DEF AgreesWithControl
<1>14. RowsKnown'
  BY <1>1, <1>2, <1>7, <1>12, <1>13 DEF RowsKnown, NameOf
<1>15. QED BY <1>1, <1>2, <1>6, <1>8, <1>10, <1>11, <1>14, SavedStays DEF AttributionInv

LEMMA AttributionStarts ==
  ASSUME AttributionInit
  PROVE  AttributionInv
<1>1. /\ wish \in Wishes /\ progress = "start" /\ stage = 1
      /\ found = << >> /\ said = << >> /\ bill = NoBill
      /\ saved = << >> /\ code = [case \in Range(CaseList) |-> 1]
      /\ stages = << >> /\ matrix = NoRecord
      /\ served = [n \in 1..6 |-> 0] /\ heard = {} /\ slips = 0
  BY DEF AttributionInit
<1>2. /\ DOMAIN said = {} /\ DOMAIN saved = {} /\ DOMAIN stages = {} /\ DOMAIN found = {}
      /\ ~ Measuring /\ ~ Compared
  BY <1>1 DEF Measuring, Compared
<1>3. AttributionTypes
  BY <1>1, CasesAre DEF AttributionTypes, NoBill
<1>4. CasesPlaced /\ HeardKnown /\ SavedKnown
  BY <1>1, <1>2 DEF CasesPlaced, HeardKnown, SavedKnown
<1>5. OutcomesPlaced
  BY <1>1, <1>2, FS_EmptySet DEF OutcomesPlaced, ConfirmedAsFound
<1>6. BillsKnown
  BY <1>1, <1>2 DEF BillsKnown
<1>7. RowsKnown
  BY <1>1, <1>2 DEF RowsKnown, RowPaysForItself
<1>8. QED BY <1>3, <1>4, <1>5, <1>6, <1>7 DEF AttributionInv

LEMMA AttributionSteps ==
  ASSUME AttributionInv, [AttributionNext]_attributionVars
  PROVE  AttributionInv'
<1>1. CASE Begin
  BY <1>1, BeginInv
<1>2. CASE ReplayRecording \/ RunProfile
  BY <1>2, FindInv
<1>3. CASE PromoteControl \/ Unindexed
  BY <1>3, PromotedInv
<1>4. CASE OpenCase
  BY <1>4, OpenCaseInv
<1>5. CASE Refuse \/ Withhold \/ Recall \/ Dismiss \/ Answer \/ NoAnswer
  BY <1>5, JudgedSteps, JudgedInv
<1>6. CASE CloseCase
  BY <1>6, CloseCaseInv
<1>7. CASE WriteRow
  BY <1>7, WriteRowInv
<1>8. CASE BuildAttributionMatrix \/ Again
  BY <1>8, MatrixInv
<1>9. CASE EditCase
  BY <1>9, EditInv
<1>10. CASE UNCHANGED attributionVars
  <2>1. UNCHANGED <<wish, progress, stage, casesLeft, candsLeft, found, said, bill, answers, saved,
                    code, elsewhere, stages, matrix, served, heard, unkept, slips>>
    BY <1>10 DEF attributionVars
  <2>2. /\ AttributionTypes' /\ CasesPlaced' /\ OutcomesPlaced' /\ SavedKnown' /\ BillsKnown'
        /\ HeardKnown'
    BY <2>1 DEF AttributionInv, AttributionTypes, CasesPlaced, OutcomesPlaced, SavedKnown,
                BillsKnown, HeardKnown, ConfirmedAsFound, Measuring, Closed, Case
  <2>3. RowsKnown'
    BY <2>1 DEF AttributionInv, RowsKnown, RowPaysForItself, Measuring, Compared,
                AgreesWithControl, NameOf
  <2>4. QED BY <2>2, <2>3 DEF AttributionInv
<1>11. CASE RaisePrivacy
  BY <1>11, RaisePrivacyInv
<1>12. CASE KilledAsking
  BY <1>12, KilledInv
<1>13. QED
  BY <1>1, <1>2, <1>3, <1>4, <1>5, <1>6, <1>7, <1>8, <1>9, <1>10, <1>11, <1>12
     DEF AttributionNext

(* The rows of a matrix are of the same candidates and were written over    *)
(* the same corpus, none lost a candidate, none confirms one whose own      *)
(* lines changed since it was found, and none pays for another              *)
(* (attribution_cmd.py, attribution.py): for any cases, candidates and      *)
(* command lines, whatever is edited or killed in between.                  *)
THEOREM RowsAreAlwaysComparable == AttributionSpec => []RowsAreComparable
<1>1. AttributionInv => RowsAreComparable
  <2> SUFFICES ASSUME AttributionInv PROVE RowsAreComparable
    OBVIOUS
  <2>1. RowsKnown /\ OutcomesPlaced
    BY DEF AttributionInv
  <2>2. Compared => \A name \in DOMAIN stages : \A f \in Shared :
                        stages[name].experiment[f] = stages["A0"].experiment[f]
    BY <2>1 DEF RowsKnown, AgreesWithControl
  <2>3. MatrixOneExperiment
    BY <2>2 DEF MatrixOneExperiment
  <2>4. NothingLostBetweenRows
    <3> SUFFICES ASSUME Compared, NEW name \in DOMAIN stages
                 PROVE  stages[name].confirmed + stages[name].review
                            = stages["A0"].confirmed + stages["A0"].review
      BY DEF NothingLostBetweenRows
    <3>1. stages[name].experiment["candidates"] = stages["A0"].experiment["candidates"]
      BY <2>2 DEF Shared
    <3>2. "A0" \in DOMAIN stages
      BY <2>1 DEF RowsKnown
    <3>3. QED BY <2>1, <3>1, <3>2 DEF RowsKnown
  <2>5. QED BY <2>1, <2>3, <2>4 DEF RowsAreComparable, RowsKnown, OutcomesPlaced
<1>2. QED BY AttributionStarts, AttributionSteps, <1>1, PTL DEF AttributionSpec

(* From A2 on no question that was answered usably is asked again, in one run *)
(* or in the next, unless a kill took the answer before it was remembered or  *)
(* the cache is disabled (attempts.py, cache.py).                             *)
THEOREM NothingIsAskedTwice == AttributionSpec => NotAskedTwice
<1>1. AttributionInv /\ [AttributionNext]_attributionVars =>
          [\A n \in 3..6 : served'[n] # served[n] =>
              \A kind \in Open(n) :
                  Question(kind) \in heard => Question(kind) \in unkept \/ wish.cache = "off"
          ]_attributionVars
  <2> SUFFICES ASSUME AttributionInv, AttributionNext, NEW n \in 3..6, served'[n] # served[n],
                      NEW kind \in Open(n), Question(kind) \in heard
               PROVE  Question(kind) \in unkept \/ wish.cache = "off"
    OBVIOUS
  <2>1. HeardKnown
    BY DEF AttributionInv
  <2>2. kind \in Kinds(n) /\ Question(kind) \notin DOMAIN answers /\ Question(kind)[2] = kind
    BY DEF Open, Question
  <2>3. kind # "text"
    BY <2>2 DEF Kinds
  <2>4. QED BY <2>1, <2>2, <2>3 DEF HeardKnown
<1>2. QED BY AttributionStarts, AttributionSteps, <1>1, PTL DEF AttributionSpec, NotAskedTwice

-----------------------------------------------------------------------------
(* Counting with a dictionary of numbers. *)

UnitsOf(d) == UNION {{x} \X (1..d[x]) : x \in DOMAIN d}

(* What the units of a dictionary are.                                      *)
LEMMA UnitsHold ==
  ASSUME NEW S, NEW d \in [S -> Nat]
  PROVE  \A x, k : <<x, k>> \in UnitsOf(d) <=> x \in S /\ k \in 1..d[x]
  BY DEF UnitsOf

(* One key has as many units as its number says.                            *)
LEMMA UnitsOfOne ==
  ASSUME NEW x, NEW n \in Nat
  PROVE  IsFiniteSet({x} \X (1..n)) /\ Cardinality({x} \X (1..n)) = n
<1> DEFINE A == {x}
           B == 1..n
<1>1. IsFiniteSet(A) /\ Cardinality(A) = 1
  BY FS_Singleton
<1>2. IsFiniteSet(B) /\ Cardinality(B) = n
  BY CountUpTo
<1> HIDE DEF A, B
<1>3. IsFiniteSet(A \X B) /\ Cardinality(A \X B) = Cardinality(A) * Cardinality(B)
  BY <1>1, <1>2, FS_Product
<1>4. Cardinality(A \X B) = n
  BY <1>1, <1>2, <1>3
<1>5. QED BY <1>3, <1>4 DEF A, B

(* Finitely many numbers add up to a number.                                *)
LEMMA TotalIs ==
  ASSUME NEW S, IsFiniteSet(S), NEW d \in [S -> Nat]
  PROVE  IsFiniteSet(UnitsOf(d)) /\ Total(d) = Cardinality(UnitsOf(d)) /\ Total(d) \in Nat
<1> DEFINE part(x) == {x} \X (1..d[x])
           parts == {part(x) : x \in S}
           f == [x \in S |-> part(x)]
<1>1. \A x \in S : IsFiniteSet(part(x))
  BY UnitsOfOne
<1> HIDE DEF part
<1>2. f \in [S -> parts] /\ \A z \in parts : \E x \in S : f[x] = z
  OBVIOUS
<1>3. \A z \in parts : IsFiniteSet(z)
  BY <1>1
<1> HIDE DEF f, parts
<1>4. IsFiniteSet(parts)
  BY <1>2, CountImage
<1>5. IsFiniteSet(UNION parts)
  BY <1>3, <1>4, FS_UNION
<1>6. UNION parts = UnitsOf(d)
  BY DEF parts, part, UnitsOf
<1>7. Total(d) = Cardinality(UnitsOf(d))
  BY DEF Total, UnitsOf
<1>8. QED BY <1>5, <1>6, <1>7, FS_CardinalityType

(* Nothing adds up to nothing.                                              *)
LEMMA TotalOfNothing ==
  ASSUME NEW d, DOMAIN d = {}
  PROVE  Total(d) = 0
<1>1. UNION {{x} \X (1..d[x]) : x \in DOMAIN d} = {}
  OBVIOUS
<1>2. Cardinality({}) = 0
  BY FS_EmptySet
<1>3. QED BY <1>1, <1>2 DEF Total

(* One more key adds its number.                                            *)
LEMMA TotalMore ==
  ASSUME NEW S, IsFiniteSet(S), NEW d \in [S -> Nat], NEW x, x \notin S,
         NEW T, T = S \cup {x}, NEW e \in [T -> Nat], \A y \in S : e[y] = d[y]
  PROVE  Total(e) = Total(d) + e[x]
<1> DEFINE A == UnitsOf(d)
           B == {x} \X (1..e[x])
           C == UnitsOf(e)
<1>1. IsFiniteSet(A) /\ Total(d) = Cardinality(A) /\ Total(d) \in Nat
  BY TotalIs
<1>2. IsFiniteSet(B) /\ Cardinality(B) = e[x] /\ e[x] \in Nat
  BY UnitsOfOne
<1>3. Total(e) = Cardinality(C)
  <2>1. IsFiniteSet(S \cup {x})
    BY FS_AddElement
  <2>2. QED BY <2>1, TotalIs
<1>4. C = A \cup B
  BY DEF UnitsOf
<1>5. A \cap B = {}
  <2>1. \A y \in A : \E z \in S : y \in {z} \X (1..d[z])
    BY DEF UnitsOf
  <2>2. QED BY <2>1
<1> HIDE DEF A, B, C
<1>6. Cardinality(A \cup B) = Cardinality(A) + Cardinality(B) - Cardinality(A \cap B)
  BY <1>1, <1>2, FS_Union
<1>7. Cardinality(A \cap B) = 0
  BY <1>5, FS_EmptySet
<1>8. QED BY <1>1, <1>2, <1>3, <1>4, <1>6, <1>7

(* Every unit is one of a key.                                              *)
LEMMA UnitsAre ==
  ASSUME NEW S, NEW d \in [S -> Nat]
  PROVE  \A u \in UnitsOf(d) : \E x \in S : \E k \in 1..d[x] : u = <<x, k>>
  BY DEF UnitsOf

(* Numbers added key by key add up to both totals.                          *)
LEMMA TotalAdds ==
  ASSUME NEW S, IsFiniteSet(S), NEW c \in [S -> Nat], NEW d \in [S -> Nat],
         NEW e \in [S -> Nat], \A x \in S : e[x] = c[x] + d[x]
  PROVE  /\ Total(e) = Total(c) + Total(d)
         /\ Total(c) \in Nat /\ Total(d) \in Nat
<1> DEFINE A == UnitsOf(c)
           B == UnitsOf(d)
           C == UnitsOf(e)
           f == [u \in B |-> <<u[1], c[u[1]] + u[2]>>]
<1>1. /\ IsFiniteSet(A) /\ Total(c) = Cardinality(A) /\ Total(c) \in Nat
      /\ IsFiniteSet(B) /\ Total(d) = Cardinality(B) /\ Total(d) \in Nat
      /\ IsFiniteSet(C) /\ Total(e) = Cardinality(C)
  BY TotalIs
<1>2. /\ \A u \in A : \E x \in S : \E k \in 1..c[x] : u = <<x, k>>
      /\ \A u \in B : \E x \in S : \E k \in 1..d[x] : u = <<x, k>>
      /\ \A u \in C : \E x \in S : \E k \in 1..e[x] : u = <<x, k>>
  BY UnitsAre
<1>3. /\ \A x, k : <<x, k>> \in A <=> x \in S /\ k \in 1..c[x]
      /\ \A x, k : <<x, k>> \in B <=> x \in S /\ k \in 1..d[x]
      /\ \A x, k : <<x, k>> \in C <=> x \in S /\ k \in 1..e[x]
  BY UnitsHold
<1> HIDE DEF A, B, C
<1>4. A \subseteq C
  <2>1. ASSUME NEW x \in S, NEW k \in 1..c[x] PROVE <<x, k>> \in C
    <3>1. c[x] \in Nat /\ d[x] \in Nat /\ e[x] = c[x] + d[x]
      OBVIOUS
    <3>2. k \in 1..e[x]
      BY <3>1
    <3>3. QED BY <1>3, <3>2
  <2>2. QED BY <1>2, <2>1
<1>5. f \in [B -> C \ A]
  <2>1. ASSUME NEW x \in S, NEW k \in 1..d[x]
        PROVE  <<x, c[x] + k>> \in C /\ <<x, c[x] + k>> \notin A
    <3>1. c[x] \in Nat /\ d[x] \in Nat /\ e[x] = c[x] + d[x]
      OBVIOUS
    <3>2. c[x] + k \in 1..e[x] /\ c[x] + k \notin 1..c[x]
      BY <3>1
    <3>3. QED BY <1>3, <3>2
  <2>2. \A u \in B : <<u[1], c[u[1]] + u[2]>> \in C \ A
    BY <1>2, <2>1
  <2>3. QED BY <2>2
<1>6. \A u, v \in B : f[u] = f[v] => u = v
  <2>1. ASSUME NEW x \in S, NEW k \in 1..d[x], NEW y \in S, NEW l \in 1..d[y],
               <<x, c[x] + k>> = <<y, c[y] + l>>
        PROVE  <<x, k>> = <<y, l>>
    <3>1. x = y /\ c[x] \in Nat /\ c[x] + k = c[x] + l
      BY <2>1
    <3>2. QED BY <3>1
  <2>2. \A u \in B : f[u] = <<u[1], c[u[1]] + u[2]>>
    OBVIOUS
  <2>3. QED BY <1>2, <2>1, <2>2
<1>7. \A z \in C \ A : \E u \in B : f[u] = z
  <2>1. ASSUME NEW x \in S, NEW k \in 1..e[x], k \notin 1..c[x]
        PROVE  \E u \in B : f[u] = <<x, k>>
    <3>1. c[x] \in Nat /\ d[x] \in Nat /\ e[x] = c[x] + d[x]
      OBVIOUS
    <3>2. k - c[x] \in 1..d[x] /\ c[x] + (k - c[x]) = k
      BY <2>1, <3>1
    <3>3. <<x, k - c[x]>> \in B
      BY <1>3, <3>2
    <3>4. f[<<x, k - c[x]>>] = <<x, k>>
      BY <3>2, <3>3
    <3>5. QED BY <3>3, <3>4
  <2>2. ASSUME NEW z \in C, z \notin A PROVE \E u \in B : f[u] = z
    <3>1. PICK x \in S : \E k \in 1..e[x] : z = <<x, k>>
      BY <1>2
    <3>2. PICK k \in 1..e[x] : z = <<x, k>>
      BY <3>1
    <3>3. k \notin 1..c[x]
      BY <1>3, <2>2, <3>2
    <3>4. QED BY <2>1, <3>2, <3>3
  <2>3. QED BY <2>2
<1> HIDE DEF f
<1>8. Cardinality(C \ A) = Cardinality(B)
  BY <1>1, <1>5, <1>6, <1>7, CountSame
<1>9. Cardinality(C) = Cardinality(A) + Cardinality(C \ A)
  BY <1>1, <1>4, CountRest
<1>10. QED BY <1>1, <1>8, <1>9

(* The parts of a set add up to it.                                         *)
LEMMA TotalOfParts ==
  ASSUME NEW S, IsFiniteSet(S), NEW F, IsFiniteSet(F), NEW part \in [S -> F],
         NEW d, d = [x \in F |-> Cardinality({n \in S : part[n] = x})]
  PROVE  d \in [F -> Nat] /\ Total(d) = Cardinality(S)
<1> DEFINE P(x) == {n \in S : part[n] = x}
           b == [x \in F |-> CHOOSE g : g \in Bijection(1..d[x], P(x))]
           U == UnitsOf(d)
           f == [u \in U |-> b[u[1]][u[2]]]
<1>1. \A x \in F : IsFiniteSet(P(x)) /\ d[x] = Cardinality(P(x))
  <2>1. ASSUME NEW x \in F PROVE IsFiniteSet(P(x))
    <3>1. P(x) \in SUBSET S
      OBVIOUS
    <3>2. QED BY <3>1, FS_Subset
  <2>2. QED BY <2>1
<1>2. ASSUME NEW x \in F
      PROVE  /\ d[x] \in Nat
             /\ b[x] \in Bijection(1..d[x], P(x))
  <2>1. Cardinality(P(x)) \in Nat /\ ExistsBijection(1..Cardinality(P(x)), P(x))
    BY <1>1, FS_CardinalityType
  <2>2. \E g : g \in Bijection(1..d[x], P(x))
    BY <1>1, <2>1 DEF ExistsBijection
  <2>3. b[x] = CHOOSE g : g \in Bijection(1..d[x], P(x))
    OBVIOUS
  <2>4. QED BY <1>1, <2>1, <2>2, <2>3
<1>3. d \in [F -> Nat]
  BY <1>2
<1>4. IsFiniteSet(U) /\ Total(d) = Cardinality(U)
  BY <1>3, TotalIs
<1>5. /\ \A u \in U : \E x \in F : \E k \in 1..d[x] : u = <<x, k>>
      /\ \A x, k : <<x, k>> \in U <=> x \in F /\ k \in 1..d[x]
  <2>1. \A u \in U : \E x \in F : \E k \in 1..d[x] : u = <<x, k>>
    BY <1>3, UnitsAre
  <2>2. QED BY <1>3, <2>1, UnitsHold
<1>6. ASSUME NEW x \in F
      PROVE  /\ \A k \in 1..d[x] : b[x][k] \in S /\ part[b[x][k]] = x
             /\ \A k, l \in 1..d[x] : b[x][k] = b[x][l] => k = l
             /\ \A n \in S : part[n] = x => \E k \in 1..d[x] : b[x][k] = n
  <2>1. b[x] \in Bijection(1..d[x], P(x))
    BY <1>2
  <2> HIDE DEF b
  <2>2. /\ \A k \in 1..d[x] : b[x][k] \in P(x)
        /\ \A k, l \in 1..d[x] : b[x][k] = b[x][l] => k = l
        /\ \A n \in P(x) : \E k \in 1..d[x] : b[x][k] = n
    BY <2>1 DEF Bijection, Injection, Surjection, IsInjective
  <2>3. QED BY <2>2
<1> HIDE DEF b, U
<1>7. f \in [U -> S]
  <2>1. ASSUME NEW u \in U PROVE b[u[1]][u[2]] \in S
    <3>1. PICK x \in F : \E k \in 1..d[x] : u = <<x, k>>
      BY <1>5
    <3>2. PICK k \in 1..d[x] : u = <<x, k>>
      BY <3>1
    <3>3. b[x][k] \in S
      BY <1>6
    <3>4. QED BY <3>2, <3>3
  <2>2. QED BY <2>1
<1>8. \A u, v \in U : f[u] = f[v] => u = v
  <2>1. ASSUME NEW x \in F, NEW k \in 1..d[x], NEW y \in F, NEW l \in 1..d[y],
               b[x][k] = b[y][l]
        PROVE  <<x, k>> = <<y, l>>
    <3>1. x = y
      BY <1>6, <2>1
    <3>2. QED BY <1>6, <2>1, <3>1
  <2>2. ASSUME NEW u \in U, NEW v \in U, f[u] = f[v] PROVE u = v
    <3>1. PICK x \in F : \E k \in 1..d[x] : u = <<x, k>>
      BY <1>5
    <3>2. PICK k \in 1..d[x] : u = <<x, k>>
      BY <3>1
    <3>3. PICK y \in F : \E l \in 1..d[y] : v = <<y, l>>
      BY <1>5
    <3>4. PICK l \in 1..d[y] : v = <<y, l>>
      BY <3>3
    <3>5. b[x][k] = b[y][l]
      BY <2>2, <3>2, <3>4
    <3>6. QED BY <2>1, <3>2, <3>4, <3>5
  <2>3. QED BY <2>2
<1>9. \A n \in S : \E u \in U : f[u] = n
  <2>1. ASSUME NEW n \in S PROVE \E u \in U : f[u] = n
    <3>1. part[n] \in F
      OBVIOUS
    <3>2. PICK k \in 1..d[part[n]] : b[part[n]][k] = n
      BY <1>6, <3>1
    <3>3. <<part[n], k>> \in U
      BY <1>5, <3>1
    <3>4. f[<<part[n], k>>] = n
      BY <3>2, <3>3
    <3>5. QED BY <3>3, <3>4
  <2>2. QED BY <2>1
<1> HIDE DEF f
<1>10. Cardinality(S) = Cardinality(U)
  BY <1>4, <1>7, <1>8, <1>9, CountSame
<1>11. QED BY <1>3, <1>4, <1>10

-----------------------------------------------------------------------------
(* The ablation grid. *)

Measurable == Range(GridOrder)
Configs == [budget : Nat, variant : {"structural", "flat_window"}]

(* A row counts every candidate of its cases and spends no more than it may. *)
RowKnown(r) ==
    /\ r = [config |-> r.config, contexts |-> r.contexts, starved |-> r.starved,
            spent |-> r.spent, over |-> r.over, truths |-> r.truths, covered |-> r.covered,
            calls |-> r.calls, measured |-> r.measured]
    /\ r.config \in Configs /\ r.measured \in SUBSET Measurable
    /\ r.contexts \in Nat /\ r.starved \in Nat /\ r.spent \in Nat /\ r.truths \in Nat
    /\ r.calls \in Nat
    /\ r.contexts + r.starved = CandidatesOf(r.measured)
    /\ r.spent <= r.config.budget * Cardinality(r.measured)

(* Every configuration of the grid is to be measured, being measured or has  *)
(* its row; the cases of the one being measured are to do, in its row or     *)
(* excluded.                                                                 *)
GridPlaced ==
    /\ grid \in Seq(Configs) /\ config \in Configs \cup {NotRun}
    /\ rest \in Seq(Measurable) /\ Distinct(rest)
    /\ rows \in Seq(Elements(rows)) /\ \A n \in DOMAIN rows : RowKnown(rows[n])
    /\ \A c \in {Baseline, Control} :
           c \in Elements(grid) \/ c = config \/ \E n \in DOMAIN rows : rows[n].config = c
    /\ config # NotRun =>
           RowKnown(row) /\ row.config = config /\ row.measured \cap Elements(rest) = {}

(* What is excluded for a configuration is what its rows did not measure.    *)
Unmeasured(c, x) ==
    \/ \E n \in DOMAIN rows : rows[n].config = c /\ x \notin rows[n].measured
    \/ config = c /\ x \notin Elements(rest) /\ x \notin row.measured
ExclusionsKnown ==
    /\ \A n \in DOMAIN rows : rows[n].config \in DOMAIN exclusions
    /\ \A c \in DOMAIN exclusions : c \in Configs /\ exclusions[c] \subseteq Measurable
    /\ \A c \in Configs : \A x \in Measurable : x \in ExcludedFrom(c) <=> Unmeasured(c, x)

(* The inductive invariant of a grid.                                        *)
GridInv ==
    /\ GridPlaced
    /\ ExclusionsKnown
    /\ written # NotRun => grid = <<>> /\ config = NotRun
    /\ UnequalOnConsole
    /\ VerdictHasBothRows

(* What the assumption says of the cases and their order.                    *)
LEMMA CasesToMeasure ==
  /\ GridOrder \in Seq(Measurable) /\ Distinct(GridOrder) /\ Elements(GridOrder) = Measurable
  /\ IsFiniteSet(Measurable) /\ Measurable \subseteq DOMAIN GridCases
<1>1. GridOrder \in Seq(DOMAIN GridCases) /\ IsInjective(GridOrder)
  BY GridAssumption
<1>2. Elements(GridOrder) = Measurable
  BY DEF Elements, Measurable, Range
<1>3. Distinct(GridOrder)
  BY <1>1 DEF Distinct, IsInjective
<1>4. \A i \in DOMAIN GridOrder : GridOrder[i] \in Measurable /\ GridOrder[i] \in DOMAIN GridCases
  BY <1>1, <1>2 DEF Elements
<1>5. GridOrder \in Seq(Measurable) /\ Measurable \subseteq DOMAIN GridCases
  BY <1>1, <1>2, <1>4 DEF Elements
<1>6. IsFiniteSet(Measurable)
  BY <1>2, <1>5, ElementsFinite
<1>7. QED BY <1>2, <1>3, <1>5, <1>6

(* What n candidates may have been given so far.                            *)
Met(n, lines) ==
  {so \in [contexts : Nat, starved : Nat, spent : Nat, over : Nat, lines : SUBSET lines] :
      so.contexts + so.starved = n /\ so.spent <= config.budget}

(* A candidate is counted once, and what it is given fits what is left.      *)
LEMMA GivenIs ==
  ASSUME config \in Configs, NEW c \in Measurable, NEW x \in Range(GridCases[c].candidates),
         NEW n \in Nat, NEW lines,
         Reach[<<config.variant, x>>].primary \cup Reach[<<config.variant, x>>].optional
           \subseteq lines,
         NEW so \in Met(n, lines)
  PROVE  Given(so, x) \in Met(n + 1, lines)
<1> DEFINE units == Units[<<config.variant, x>>]
           allowed == config.budget - so.spent
           context == Context(x, allowed)
           reach == Reach[<<config.variant, x>>]
           more == so.lines \cup (IF context.units > 0 THEN reach.primary ELSE {})
                            \cup (IF context.units > 1 THEN reach.optional ELSE {})
           one == IF context.units = 0 THEN 1 ELSE 0
<1>1. /\ so \in [contexts : Nat, starved : Nat, spent : Nat, over : Nat, lines : SUBSET lines]
      /\ so.contexts + so.starved = n /\ so.spent <= config.budget
      /\ config.budget \in Nat /\ config.variant \in {"structural", "flat_window"}
  BY DEF Met, Configs
<1>2. CASE so.spent >= config.budget
  <2>1. Given(so, x) = [so EXCEPT !.starved = @ + 1]
    BY <1>2 DEF Given
  <2>2. QED BY <1>1, <2>1 DEF Met
<1>3. CASE ~(so.spent >= config.budget)
  <2>1. Given(so, x) = [contexts |-> so.contexts + 1, starved |-> so.starved,
                        spent |-> so.spent + context.tokens, over |-> so.over + one,
                        lines |-> more]
    BY <1>3 DEF Given
  <2>2. allowed \in Nat /\ so.spent + allowed = config.budget
    BY <1>1, <1>3
  <2>3. units.primary \in Nat /\ units.optional \in Nat
    BY <1>1, GridAssumption, CasesToMeasure
  <2>4. context.tokens \in 0..allowed
    <3>1. <<units.primary>> \in Seq(Nat) /\ <<units.optional>> \in Seq(Nat)
      BY <2>3
    <3>2. Select(<<units.primary>>, <<units.optional>>, allowed, 2).tokens \in 0..allowed
      BY <2>2, <3>1, SelectFits
    <3>3. QED BY <3>2 DEF Context
  <2>5. more \subseteq lines
    BY <1>1
  <2>6. one \in Nat
    OBVIOUS
  <2> HIDE DEF units, allowed, context, reach, more, one
  <2>7. QED BY <1>1, <2>1, <2>2, <2>4, <2>5, <2>6 DEF Met
<1>4. QED BY <1>2, <1>3

(* So is a case.                                                             *)
LEMMA ExpandIs ==
  ASSUME config \in Configs, NEW c \in Measurable
  PROVE  \E lines : Expand(GridCases[c]) \in Met(Len(GridCases[c].candidates), lines)
<1> DEFINE s == GridCases[c].candidates
           n == Len(s)
           reached(x) == Reach[<<config.variant, x>>].primary
                           \cup Reach[<<config.variant, x>>].optional
           L == UNION {reached(x) : x \in Range(s)}
           V == UNION {Met(i, L) : i \in 0..n}
           Is(f) == f = [i \in 0..n |-> IF i = 0 THEN NoneMet ELSE Given(f[i - 1], s[i])]
           after == CHOOSE f : Is(f)
           step == [ik \in (1..n) \X V |->
                      IF ik[2] \in Met(ik[1] - 1, L) THEN Given(ik[2], s[ik[1]]) ELSE NoneMet]
<1>1. n \in Nat /\ s \in Seq(Range(s)) /\ \A i \in 1..n : s[i] \in Range(s)
  BY GridAssumption, CasesToMeasure DEF Range
<1>2. Expand(GridCases[c]) = after[n]
  BY DEF Expand
<1>3. NoneMet \in Met(0, L)
  BY DEF NoneMet, Met, Configs
<1>4. ASSUME NEW i \in 1..n, NEW so \in Met(i - 1, L) PROVE Given(so, s[i]) \in Met(i, L)
  <2>1. s[i] \in Range(s) /\ reached(s[i]) \subseteq L
    BY <1>1
  <2>2. i - 1 \in Nat /\ (i - 1) + 1 = i
    BY <1>1
  <2> HIDE DEF L
  <2>3. Given(so, s[i]) \in Met((i - 1) + 1, L)
    BY <2>1, <2>2, GivenIs
  <2>4. QED BY <2>2, <2>3
<1> HIDE DEF n, L
<1>5. /\ n \in 0..n /\ 0 \in 0..n /\ \A i \in 1..n : i \in 0..n /\ i - 1 \in 0..n /\ i # 0
  BY <1>1
<1>6. NoneMet \in V /\ \A i \in 1..n : Met(i, L) \subseteq V
  BY <1>3, <1>5
<1>7. step \in Steps(n, V)
  <2>1. ASSUME NEW i \in 1..n, NEW so \in V
        PROVE  (IF so \in Met(i - 1, L) THEN Given(so, s[i]) ELSE NoneMet) \in V
    BY <1>4, <1>6
  <2> HIDE DEF V
  <2>2. QED BY <2>1 DEF Steps
<1>8. \A i \in 1..n, so \in V : so \in Met(i - 1, L) => step[<<i, so>>] = Given(so, s[i])
  <2> HIDE DEF V
  <2>1. QED OBVIOUS
<1> HIDE DEF V, step, s
<1>9. PICK g : IsRecursive(g, n, V, NoneMet, step)
  BY <1>1, <1>6, <1>7, ByRecursion
<1> DEFINE known == {i \in 0..n : g[i] \in Met(i, L)}
<1>10. \A i \in 0..n : i \in known
  <2>1. 0 \in known
    BY <1>3, <1>5, <1>9 DEF IsRecursive
  <2>2. ASSUME NEW i \in 1..n, i - 1 \in known PROVE i \in known
    <3>1. g[i - 1] \in Met(i - 1, L) /\ g[i - 1] \in V
      BY <1>5, <1>9, <2>2 DEF IsRecursive
    <3>2. g[i] = Given(g[i - 1], s[i])
      BY <1>8, <1>9, <3>1 DEF IsRecursive
    <3>3. QED BY <1>4, <1>5, <3>1, <3>2
  <2> HIDE DEF known
  <2>3. QED BY <1>1, <2>1, <2>2, UpTo, Zenon
<1>11. Is(g)
  <2>1. ASSUME NEW i \in 1..n PROVE g[i] = Given(g[i - 1], s[i])
    <3>1. g[i - 1] \in Met(i - 1, L) /\ g[i - 1] \in V
      BY <1>5, <1>9, <1>10 DEF IsRecursive
    <3>2. QED BY <1>8, <1>9, <3>1 DEF IsRecursive
  <2>2. QED BY <1>1, <1>9, <2>1 DEF IsRecursive
<1>12. Is(after)
  BY <1>11
<1> HIDE DEF after, known
<1> DEFINE knows == {i \in 0..n : after[i] \in Met(i, L)}
<1>13. \A i \in 0..n : i \in knows
  <2>1. 0 \in knows
    BY <1>3, <1>5, <1>12
  <2>2. \A i \in 1..n : i - 1 \in knows => i \in knows
    BY <1>4, <1>5, <1>12
  <2> HIDE DEF knows
  <2>3. QED BY <1>1, <2>1, <2>2, UpTo, Zenon
<1>14. after[n] \in Met(n, L)
  BY <1>5, <1>13
<1>15. QED BY <1>2, <1>14 DEF n, s

(* Cases have the candidates of each of them.                               *)
LEMMA CandidatesOfIs ==
  ASSUME NEW cases \in SUBSET Measurable
  PROVE  /\ CandidatesOf(cases) \in Nat /\ Cardinality(cases) \in Nat
         /\ \A c \in Measurable \ cases :
              /\ CandidatesOf(cases \cup {c})
                   = CandidatesOf(cases) + Len(GridCases[c].candidates)
              /\ Cardinality(cases \cup {c}) = Cardinality(cases) + 1
<1> DEFINE size(s) == [c \in s |-> Len(GridCases[c].candidates)]
<1>1. \A c \in Measurable : Len(GridCases[c].candidates) \in Nat
  BY CasesToMeasure, GridAssumption
<1>2. IsFiniteSet(cases) /\ size(cases) \in [cases -> Nat]
  <2>1. IsFiniteSet(cases)
    BY CasesToMeasure, FS_Subset
  <2>2. QED BY <1>1, <2>1
<1>3. CandidatesOf(cases) = Total(size(cases))
  BY DEF CandidatesOf
<1>4. ASSUME NEW c \in Measurable \ cases
      PROVE  /\ CandidatesOf(cases \cup {c})
                  = CandidatesOf(cases) + Len(GridCases[c].candidates)
             /\ Cardinality(cases \cup {c}) = Cardinality(cases) + 1
  <2> DEFINE d == size(cases)
             e == size(cases \cup {c})
  <2>1. /\ d \in [cases -> Nat] /\ e \in [cases \cup {c} -> Nat] /\ c \notin cases
        /\ e[c] = Len(GridCases[c].candidates) /\ \A y \in cases : e[y] = d[y]
    BY <1>1
  <2>2. CandidatesOf(cases \cup {c}) = Total(e) /\ CandidatesOf(cases) = Total(d)
    BY DEF CandidatesOf
  <2> HIDE DEF d, e
  <2>3. Total(e) = Total(d) + e[c]
    <3> DEFINE T == cases \cup {c}
    <3>1. e \in [T -> Nat] /\ T = cases \cup {c}
      BY <2>1
    <3> HIDE DEF T
    <3>2. /\ IsFiniteSet(cases) /\ d \in [cases -> Nat] /\ c \notin cases
          /\ \A y \in cases : e[y] = d[y]
      BY <1>2, <2>1
    <3>3. QED BY <3>1, <3>2, TotalMore
  <2>4. Cardinality(cases \cup {c}) = Cardinality(cases) + 1
    BY <1>2, <2>1, FS_AddElement
  <2>5. QED BY <2>1, <2>2, <2>3, <2>4
<1> HIDE DEF size
<1>5. Total(size(cases)) \in Nat
  BY <1>2, TotalIs
<1>6. QED BY <1>2, <1>3, <1>4, <1>5, FS_CardinalityType

(* No cases have no candidates.                                             *)
LEMMA NoCandidates == CandidatesOf({}) = 0 /\ Cardinality({}) = 0
<1>1. DOMAIN [c \in {} |-> Len(GridCases[c].candidates)] = {}
  OBVIOUS
<1>2. CandidatesOf({}) = 0
  BY <1>1, TotalOfNothing DEF CandidatesOf
<1>3. QED BY <1>2, FS_EmptySet

(* A case that is measured goes into the row with all its candidates.        *)
LEMMA MeasuredIs ==
  ASSUME config \in Configs, RowKnown(row), row.config = config,
         Head(rest) \in Measurable \ row.measured
  PROVE  /\ RowKnown(Measured(GridCases[Head(rest)]))
         /\ Measured(GridCases[Head(rest)]).config = config
         /\ Measured(GridCases[Head(rest)]).measured = row.measured \cup {Head(rest)}
<1> DEFINE c == Head(rest)
           case == GridCases[c]
           done == Expand(case)
           next == Measured(case)
           size == Len(case.candidates)
           k == Cardinality(row.measured)
           t == Cardinality(case.truths)
<1>0. c \in Measurable /\ c \notin row.measured
  OBVIOUS
<1>1. PICK lines : done \in Met(size, lines)
  BY <1>0, ExpandIs
<1>2. /\ done.contexts \in Nat /\ done.starved \in Nat /\ done.spent \in Nat
      /\ done.contexts + done.starved = size /\ done.spent <= config.budget
  BY <1>1 DEF Met
<1>3. next = [config |-> row.config, contexts |-> row.contexts + done.contexts,
              starved |-> row.starved + done.starved, spent |-> row.spent + done.spent,
              over |-> row.over + done.over, truths |-> row.truths + t,
              covered |-> row.covered + Cardinality(case.truths \cap done.lines),
              calls |-> row.calls, measured |-> row.measured \cup {c}]
  BY DEF Measured, WithCase
<1>4. t \in Nat
  BY <1>0, CasesToMeasure, GridAssumption, FS_CardinalityType
<1>5. /\ CandidatesOf(row.measured) \in Nat /\ k \in Nat
      /\ CandidatesOf(row.measured \cup {c}) = CandidatesOf(row.measured) + size
      /\ Cardinality(row.measured \cup {c}) = k + 1
  <2>1. row.measured \in SUBSET Measurable
    BY DEF RowKnown
  <2>2. QED BY <1>0, <2>1, CandidatesOfIs
<1> HIDE DEF c, case, done, next, size, k, t
<1>6. /\ next.config = row.config /\ next.measured = row.measured \cup {c}
      /\ next.contexts = row.contexts + done.contexts
      /\ next.starved = row.starved + done.starved
      /\ next.spent = row.spent + done.spent /\ next.truths = row.truths + t
      /\ next.calls = row.calls
      /\ next = [config |-> next.config, contexts |-> next.contexts, starved |-> next.starved,
            spent |-> next.spent, over |-> next.over, truths |-> next.truths,
            covered |-> next.covered, calls |-> next.calls, measured |-> next.measured]
  BY <1>3
<1>7. /\ next.contexts \in Nat /\ next.starved \in Nat /\ next.spent \in Nat
      /\ next.truths \in Nat /\ next.calls \in Nat
      /\ next.contexts + next.starved = CandidatesOf(next.measured)
  BY <1>2, <1>4, <1>5, <1>6 DEF RowKnown
<1>8. next.spent <= next.config.budget * Cardinality(next.measured)
  <2>1. \A b \in Nat, n \in Nat : b * (n + 1) = b * n + b
    OBVIOUS
  <2>2. config.budget \in Nat /\ config.budget * (k + 1) = config.budget * k + config.budget
    <3>1. config.budget \in Nat
      BY DEF Configs
    <3>2. QED BY <1>5, <2>1, <3>1
  <2>3. config.budget * k \in Nat
    BY <1>5, <2>2
  <2>4. row.spent \in Nat /\ row.spent <= config.budget * k
    BY DEF RowKnown, k
  <2>5. row.spent + done.spent <= config.budget * (k + 1)
    BY <1>2, <2>2, <2>3, <2>4
  <2>6. QED BY <1>5, <1>6, <2>5
<1>9. next.measured \in SUBSET Measurable
  BY <1>0, <1>6 DEF RowKnown
<1>10. RowKnown(next)
  BY <1>6, <1>7, <1>8, <1>9 DEF RowKnown
<1>11. QED BY <1>6, <1>10 DEF next, c, case

(* What was written stays, because nothing follows it.                      *)
LEMMA NothingWritten ==
  ASSUME GridInv, UNCHANGED written, StartConfig \/ MeasureCase \/ FinishRow
  PROVE  /\ written = NotRun /\ (written' # NotRun => grid' = <<>> /\ config' = NotRun)
         /\ UnequalOnConsole' /\ VerdictHasBothRows'
<1>1. ~(grid = <<>> /\ config = NotRun)
  BY DEF StartConfig, MeasureCase, FinishRow
<1>2. written = NotRun
  BY <1>1 DEF GridInv
<1>3. QED BY <1>2 DEF UnequalOnConsole, VerdictHasBothRows, Recorded

(* The next configuration begins with an empty row.                         *)
LEMMA StartConfigInv == GridInv /\ StartConfig => GridInv'
<1> SUFFICES ASSUME GridInv, StartConfig PROVE GridInv'
  OBVIOUS
<1> DEFINE c == Head(grid)
<1>1. /\ config = NotRun /\ config' = c /\ grid' = Tail(grid) /\ rest' = GridOrder
      /\ row' = [EmptyRow EXCEPT !.config = c] /\ rows' = rows /\ exclusions' = exclusions
      /\ written' = written
  BY DEF StartConfig
<1>2. /\ c \in Configs /\ Tail(grid) \in Seq(Configs)
      /\ Elements(grid) = {c} \cup Elements(Tail(grid))
  <2>1. grid \in Seq(Configs) /\ grid # <<>>
    BY DEF GridInv, GridPlaced, StartConfig
  <2>2. QED BY <2>1, FirstAndRest
<1> HIDE DEF c
<1>3. RowKnown(row') /\ row'.config = c /\ row'.measured = {}
  <2>1. row' = [config |-> c, contexts |-> 0, starved |-> 0, spent |-> 0, over |-> 0,
                truths |-> 0, covered |-> 0, calls |-> 0, measured |-> {}]
    BY <1>1 DEF EmptyRow
  <2>2. \A b \in Nat : 0 <= b * 0
    OBVIOUS
  <2>3. c.budget \in Nat
    BY <1>2 DEF Configs
  <2>4. QED BY <1>2, <2>1, <2>2, <2>3, NoCandidates DEF RowKnown
<1>4. GridPlaced'
  <2>1. /\ grid' \in Seq(Configs) /\ config' \in Configs \cup {NotRun}
        /\ rest' \in Seq(Measurable) /\ Distinct(rest')
    BY <1>1, <1>2, CasesToMeasure
  <2>2. rows' \in Seq(Elements(rows')) /\ \A n \in DOMAIN rows' : RowKnown(rows'[n])
    BY <1>1 DEF GridInv, GridPlaced
  <2>3. \A d \in {Baseline, Control} :
          d \in Elements(grid') \/ d = config' \/ \E n \in DOMAIN rows' : rows'[n].config = d
    <3>1. Baseline # NotRun /\ Control # NotRun
      BY GridAssumption DEF Baseline, Control, Config
    <3>2. QED BY <1>1, <1>2, <3>1 DEF GridInv, GridPlaced
  <2>4. RowKnown(row') /\ row'.config = config' /\ row'.measured \cap Elements(rest') = {}
    BY <1>1, <1>3
  <2>5. QED BY <2>1, <2>2, <2>3, <2>4 DEF GridPlaced
<1>5. ExclusionsKnown'
  <2>1. \A d \in Configs, x \in Measurable : Unmeasured(d, x)' <=> Unmeasured(d, x)
    <3>1. \A x \in Measurable : x \in Elements(rest')
      BY <1>1, CasesToMeasure
    <3>2. \A d \in Configs : d # NotRun
      BY GridAssumption DEF Configs
    <3>3. QED BY <1>1, <3>1, <3>2 DEF Unmeasured
  <2>2. \A d : ExcludedFrom(d)' = ExcludedFrom(d)
    BY <1>1 DEF ExcludedFrom
  <2>3. QED BY <1>1, <2>1, <2>2 DEF ExclusionsKnown, GridInv
<1>6. QED BY <1>1, <1>4, <1>5, NothingWritten DEF GridInv

(* The next case goes into the row or is excluded.                          *)
LEMMA MeasureCaseInv == GridInv /\ MeasureCase => GridInv'
<1> SUFFICES ASSUME GridInv, MeasureCase PROVE GridInv'
  OBVIOUS
<1> DEFINE c == Head(rest)
<1>1. /\ config # NotRun /\ config' = config /\ grid' = grid /\ rest' = Tail(rest)
      /\ rows' = rows /\ written' = written /\ rest # <<>>
      /\ \/ row' = Measured(GridCases[c]) /\ exclusions' = exclusions
         \/ row' = row /\ exclusions' = Put(exclusions, config, ExcludedFrom(config) \cup {c})
  BY DEF MeasureCase, Excluding
<1>2. /\ c \in Measurable /\ Tail(rest) \in Seq(Measurable)
      /\ Elements(rest) = {c} \cup Elements(Tail(rest)) /\ Distinct(Tail(rest))
      /\ c \notin Elements(Tail(rest))
  <2>1. rest \in Seq(Measurable) /\ Distinct(rest)
    BY DEF GridInv, GridPlaced
  <2>2. QED BY <1>1, <2>1, FirstAndRest
<1>3. /\ config \in Configs /\ RowKnown(row) /\ row.config = config /\ c \notin row.measured
      /\ row.measured \cap Elements(rest) = {}
  BY <1>1, <1>2 DEF GridInv, GridPlaced
<1>4. /\ RowKnown(Measured(GridCases[c])) /\ Measured(GridCases[c]).config = config
      /\ Measured(GridCases[c]).measured = row.measured \cup {c}
  BY <1>2, <1>3, MeasuredIs
<1> HIDE DEF c
<1>5. RowKnown(row') /\ row'.config = config /\ row'.measured \subseteq row.measured \cup {c}
  BY <1>1, <1>3, <1>4
<1>6. GridPlaced'
  <2>1. /\ grid' \in Seq(Configs) /\ config' \in Configs \cup {NotRun}
        /\ rest' \in Seq(Measurable) /\ Distinct(rest')
    BY <1>1, <1>2 DEF GridInv, GridPlaced
  <2>2. rows' \in Seq(Elements(rows')) /\ \A n \in DOMAIN rows' : RowKnown(rows'[n])
    BY <1>1 DEF GridInv, GridPlaced
  <2>3. \A d \in {Baseline, Control} :
          d \in Elements(grid') \/ d = config' \/ \E n \in DOMAIN rows' : rows'[n].config = d
    BY <1>1 DEF GridInv, GridPlaced
  <2>4. row'.measured \cap Elements(rest') = {}
    BY <1>1, <1>2, <1>3, <1>5
  <2>5. QED BY <1>1, <1>5, <2>1, <2>2, <2>3, <2>4 DEF GridPlaced
<1>7. ASSUME row' = Measured(GridCases[c]), exclusions' = exclusions PROVE ExclusionsKnown'
  <2>1. \A d \in Configs, x \in Measurable : Unmeasured(d, x)' <=> Unmeasured(d, x)
    BY <1>1, <1>2, <1>4, <1>7 DEF Unmeasured
  <2>2. \A d : ExcludedFrom(d)' = ExcludedFrom(d)
    BY <1>7 DEF ExcludedFrom
  <2>3. QED BY <1>1, <1>7, <2>1, <2>2 DEF ExclusionsKnown, GridInv
<1>8. ASSUME row' = row, exclusions' = Put(exclusions, config, ExcludedFrom(config) \cup {c})
      PROVE  ExclusionsKnown'
  <2>1. ASSUME NEW d \in Configs, NEW x \in Measurable
        PROVE  Unmeasured(d, x)' <=> Unmeasured(d, x) \/ (d = config /\ x = c)
    BY <1>1, <1>2, <1>3, <1>8 DEF Unmeasured
  <2>2. /\ DOMAIN exclusions' = DOMAIN exclusions \cup {config}
        /\ exclusions'[config] = ExcludedFrom(config) \cup {c}
        /\ \A d \in DOMAIN exclusions : d # config => exclusions'[d] = exclusions[d]
    BY <1>8 DEF Put
  <2>3. \A d : ExcludedFrom(d)' = ExcludedFrom(d) \cup (IF d = config THEN {c} ELSE {})
    BY <2>2 DEF ExcludedFrom
  <2>4. \A d \in Configs : \A x \in Measurable : x \in ExcludedFrom(d)' <=> Unmeasured(d, x)'
    BY <2>1, <2>3 DEF ExclusionsKnown, GridInv
  <2>5. \A d \in DOMAIN exclusions' : d \in Configs /\ exclusions'[d] \subseteq Measurable
    <3>1. ExcludedFrom(config) \subseteq Measurable
      BY DEF ExcludedFrom, ExclusionsKnown, GridInv
    <3>2. QED BY <1>2, <1>3, <2>2, <3>1 DEF ExclusionsKnown, GridInv
  <2>6. QED BY <1>1, <2>2, <2>4, <2>5 DEF ExclusionsKnown, GridInv
<1>9. QED BY <1>1, <1>6, <1>7, <1>8, NothingWritten DEF GridInv

(* A finished row stands for its configuration.                             *)
LEMMA FinishRowInv == GridInv /\ FinishRow => GridInv'
<1> SUFFICES ASSUME GridInv, FinishRow PROVE GridInv'
  OBVIOUS
<1>1. /\ config # NotRun /\ config' = NotRun /\ grid' = grid /\ rest' = rest
      /\ row' = row /\ written' = written /\ rest = <<>>
      /\ exclusions' = Put(exclusions, config, ExcludedFrom(config))
      /\ \E answered \in {0, row.contexts} : rows' = Append(rows, [row EXCEPT !.calls = answered])
  BY DEF FinishRow
<1>2. PICK answered \in {0, row.contexts} : rows' = Append(rows, [row EXCEPT !.calls = answered])
  BY <1>1
<1> DEFINE new == [row EXCEPT !.calls = answered]
           n == Len(rows)
<1>3. config \in Configs /\ RowKnown(row) /\ row.config = config
  BY <1>1 DEF GridInv, GridPlaced
<1>4. RowKnown(new) /\ new.config = config /\ new.measured = row.measured
  BY <1>3 DEF RowKnown
<1> HIDE DEF new
<1>5. /\ rows' \in Seq(Elements(rows')) /\ n \in Nat /\ DOMAIN rows = 1..n
      /\ DOMAIN rows' = 1..(n + 1) /\ \A i \in 1..n : rows'[i] = rows[i]
      /\ rows'[n + 1] = new
  <2>1. rows \in Seq(Elements(rows)) /\ rows' = Append(rows, new)
    BY <1>2 DEF GridInv, GridPlaced, new
  <2>2. rows' \in Seq(Elements(rows')) /\ n \in Nat /\ Len(rows') = n + 1
        /\ (\A i \in 1..n : rows'[i] = rows[i]) /\ rows'[n + 1] = new
    BY <2>1, OneMoreOfAny
  <2>3. DOMAIN rows = 1..n /\ DOMAIN rows' = 1..(n + 1)
    BY <2>1, <2>2
  <2>4. QED BY <2>2, <2>3
<1> HIDE DEF n
<1>6. /\ DOMAIN rows \subseteq DOMAIN rows' /\ n + 1 \in DOMAIN rows'
      /\ \A i \in DOMAIN rows' : (i \in DOMAIN rows /\ rows'[i] = rows[i]) \/ i = n + 1
      /\ \A i \in DOMAIN rows : rows'[i] = rows[i]
  BY <1>5
<1>7. GridPlaced'
  <2>1. \A i \in DOMAIN rows' : RowKnown(rows'[i])
    BY <1>4, <1>5, <1>6 DEF GridInv, GridPlaced
  <2>2. \A d \in {Baseline, Control} :
          d \in Elements(grid') \/ d = config' \/ \E i \in DOMAIN rows' : rows'[i].config = d
    <3>1. ASSUME NEW d \in {Baseline, Control}
          PROVE d \in Elements(grid) \/ d = config \/ \E i \in DOMAIN rows : rows[i].config = d
      BY DEF GridInv, GridPlaced
    <3>2. QED BY <1>1, <1>4, <1>5, <1>6, <3>1
  <2>3. QED BY <1>1, <1>5, <2>1, <2>2 DEF GridPlaced, GridInv
<1>8. ExclusionsKnown'
  <2>1. /\ DOMAIN exclusions' = DOMAIN exclusions \cup {config}
        /\ exclusions'[config] = ExcludedFrom(config)
        /\ \A d \in DOMAIN exclusions : d # config => exclusions'[d] = exclusions[d]
    BY <1>1 DEF Put
  <2>2. \A d : ExcludedFrom(d)' = ExcludedFrom(d)
    BY <2>1 DEF ExcludedFrom
  <2>3. ASSUME NEW d \in Configs, NEW x \in Measurable
        PROVE  Unmeasured(d, x)' <=> Unmeasured(d, x)
    <3>1. d # NotRun /\ Elements(rest) = {}
      <4>1. d # NotRun
        BY GridAssumption DEF Configs
      <4>2. QED BY <1>1, <4>1 DEF Elements
    <3>2. (\E i \in DOMAIN rows' : rows'[i].config = d /\ x \notin rows'[i].measured)
            <=> \/ \E i \in DOMAIN rows : rows[i].config = d /\ x \notin rows[i].measured
                \/ config = d /\ x \notin row.measured
      BY <1>4, <1>5, <1>6
    <3>3. QED BY <1>1, <3>1, <3>2 DEF Unmeasured
  <2>4. \A d \in DOMAIN exclusions' : d \in Configs /\ exclusions'[d] \subseteq Measurable
    <3>1. ExcludedFrom(config) \subseteq Measurable
      BY DEF ExcludedFrom, ExclusionsKnown, GridInv
    <3>2. QED BY <1>3, <2>1, <3>1 DEF ExclusionsKnown, GridInv
  <2>5. \A i \in DOMAIN rows' : rows'[i].config \in DOMAIN exclusions'
    BY <1>4, <1>5, <1>6, <2>1 DEF ExclusionsKnown, GridInv
  <2>6. QED BY <2>2, <2>3, <2>4, <2>5 DEF ExclusionsKnown, GridInv
<1>9. QED BY <1>1, <1>7, <1>8, NothingWritten DEF GridInv

(* When the grid is done both rows of a verdict are there.                  *)
LEMMA RowsAreThere ==
  ASSUME GridInv, grid = <<>>, config = NotRun, NEW c \in {Baseline, Control}
  PROVE  RowOf(c).truths \in Nat /\ RowOf(c).calls \in Nat
<1>1. c # NotRun /\ Elements(grid) = {}
  <2>1. c # NotRun
    BY GridAssumption DEF Baseline, Control, Config
  <2>2. QED BY <2>1 DEF Elements
<1>2. \E n \in DOMAIN rows : rows[n].config = c
  BY <1>1 DEF GridInv, GridPlaced
<1> DEFINE k == CHOOSE n \in DOMAIN rows : rows[n].config = c
<1>3. k \in DOMAIN rows /\ RowOf(c) = rows[k]
  BY <1>2 DEF RowOf
<1> HIDE DEF k
<1>4. RowKnown(rows[k])
  BY <1>3 DEF GridInv, GridPlaced
<1>5. QED BY <1>3, <1>4 DEF RowKnown

(* A record that is written says what is known of the rows.                 *)
LEMMA WriteSuiteInv == GridInv /\ WriteSuite => GridInv'
<1> SUFFICES ASSUME GridInv, WriteSuite PROVE GridInv'
  OBVIOUS
<1> DEFINE twice == \E i, j \in DOMAIN rows : i # j /\ rows[i].config = rows[j].config
<1>1. /\ grid = <<>> /\ config = NotRun /\ grid' = grid /\ config' = config /\ rest' = rest
      /\ row' = row /\ rows' = rows /\ exclusions' = exclusions
  BY DEF WriteSuite
<1>2. GridPlaced' /\ ExclusionsKnown'
  BY <1>1 DEF GridInv, GridPlaced, ExclusionsKnown, Unmeasured, ExcludedFrom
<1>3. CASE twice
  <2>1. written' = [refused |-> TRUE]
    BY <1>3 DEF WriteSuite
  <2>2. ~(Recorded')
    BY <2>1 DEF Recorded
  <2>3. UnequalOnConsole' /\ VerdictHasBothRows'
    BY <2>2 DEF UnequalOnConsole, VerdictHasBothRows
  <2>4. QED BY <1>1, <1>2, <2>3 DEF GridInv
<1>4. CASE ~twice
  <2>1. /\ written' = [refused |-> FALSE, earns |-> EarnsItself, covers |-> CoversMore]
        /\ told' = ~ExclusionsAgree
    BY <1>4 DEF WriteSuite
  <2>2. ASSUME NEW i \in DOMAIN rows, NEW j \in DOMAIN rows,
               ~(rows[i].measured \subseteq rows[j].measured)
        PROVE  ~ExclusionsAgree
    <3> DEFINE a == rows[i].config
               b == rows[j].config
    <3>1. PICK x \in rows[i].measured : x \notin rows[j].measured
      BY <2>2
    <3>2. RowKnown(rows[i]) /\ RowKnown(rows[j])
      BY DEF GridInv, GridPlaced
    <3>3. a \in Configs /\ b \in Configs /\ x \in Measurable
      BY <3>1, <3>2 DEF RowKnown
    <3>4. a # NotRun /\ b # NotRun
      BY <3>3, GridAssumption DEF Configs
    <3>5. Unmeasured(b, x)
      BY <3>1 DEF Unmeasured
    <3>6. ~Unmeasured(a, x)
      <4>1. \A n \in DOMAIN rows : rows[n].config = a => n = i
        BY <1>4
      <4>2. \A n \in DOMAIN rows : rows[n].config = a => x \in rows[n].measured
        BY <3>1, <4>1
      <4>3. config # a
        BY <1>1, <3>4
      <4>4. QED BY <4>2, <4>3 DEF Unmeasured
    <3>7. a \in DOMAIN exclusions /\ b \in DOMAIN exclusions
      BY DEF GridInv, ExclusionsKnown
    <3> HIDE DEF a, b, twice
    <3>8. x \in ExcludedFrom(b) /\ x \notin ExcludedFrom(a)
      BY <3>3, <3>5, <3>6 DEF GridInv, ExclusionsKnown
    <3>9. exclusions[a] # exclusions[b]
      BY <3>7, <3>8 DEF ExcludedFrom
    <3>10. QED BY <3>7, <3>9 DEF ExclusionsAgree
  <2>3. UnequalOnConsole'
    <3>1. ASSUME NEW i \in DOMAIN rows, NEW j \in DOMAIN rows,
                 rows[i].measured # rows[j].measured
          PROVE  ~ExclusionsAgree
      <4>1. \/ ~(rows[i].measured \subseteq rows[j].measured)
            \/ ~(rows[j].measured \subseteq rows[i].measured)
        BY <3>1
      <4>2. QED BY <2>2, <4>1
    <3>2. (\E i, j \in DOMAIN rows : rows[i].measured # rows[j].measured) => told'
      BY <2>1, <3>1, Zenon
    <3>3. QED BY <1>1, <3>2 DEF UnequalOnConsole
  <2>4. EarnsItself # "not measured" => RowOf(Baseline).calls > 0 /\ RowOf(Control).calls > 0
    BY DEF EarnsItself, Mode
  <2>5. CoversMore # "not measured" => RowOf(Baseline).truths > 0 /\ RowOf(Control).truths > 0
    <3>1. RowOf(Baseline).truths \in Nat /\ RowOf(Control).truths \in Nat
      BY <1>1, RowsAreThere
    <3>2. ASSUME CoversMore # "not measured"
          PROVE  RowOf(Baseline).truths # 0 /\ RowOf(Control).truths # 0
      BY <3>2 DEF CoversMore
    <3>3. \A t \in Nat : t # 0 => t > 0
      OBVIOUS
    <3>4. QED BY <3>1, <3>2, <3>3
  <2>6. VerdictHasBothRows'
    <3>1. written'.earns = EarnsItself /\ written'.covers = CoversMore
      BY <2>1
    <3>2. RowOf(Baseline)' = RowOf(Baseline) /\ RowOf(Control)' = RowOf(Control)
      BY <1>1 DEF RowOf, Baseline, Control, Config
    <3>3. QED BY <2>4, <2>5, <3>1, <3>2 DEF VerdictHasBothRows
  <2>7. QED BY <1>1, <1>2, <2>3, <2>6 DEF GridInv
<1>5. QED BY <1>3, <1>4

(* Every step keeps the invariant.                                         *)
LEMMA GridNextInv == GridInv /\ [GridNext]_gridVars => GridInv'
<1> SUFFICES ASSUME GridInv, [GridNext]_gridVars PROVE GridInv'
  OBVIOUS
<1>1. CASE UNCHANGED gridVars
  <2>1. /\ grid' = grid /\ config' = config /\ rest' = rest /\ row' = row /\ rows' = rows
        /\ exclusions' = exclusions /\ written' = written /\ told' = told
    BY <1>1 DEF gridVars
  <2>2. GridPlaced' /\ ExclusionsKnown'
    BY <2>1 DEF GridInv, GridPlaced, ExclusionsKnown, Unmeasured, ExcludedFrom
  <2>3. UnequalOnConsole' /\ VerdictHasBothRows'
    BY <2>1 DEF GridInv, UnequalOnConsole, VerdictHasBothRows, Recorded, RowOf, Baseline,
                Control, Config
  <2>4. QED BY <2>1, <2>2, <2>3 DEF GridInv
<1>2. QED
  BY <1>1, StartConfigInv, MeasureCaseInv, FinishRowInv, WriteSuiteInv DEF GridNext

(* A grid starts with every configuration to be measured.                   *)
LEMMA GridInitInv == GridInit => GridInv
<1> SUFFICES ASSUME GridInit PROVE GridInv
  OBVIOUS
<1>1. PICK budgets \in Requests : grid = Grid(budgets)
  BY DEF GridInit
<1>2. /\ config = NotRun /\ rest = <<>> /\ rows = <<>> /\ exclusions = << >>
      /\ written = NotRun
  BY DEF GridInit
<1> DEFINE places == {n \in DOMAIN budgets : budgets[n] # BaseBudget}
           varied == AtPlaces(budgets, places)
           middle == [i \in DOMAIN varied |-> Config(varied[i], "structural")]
<1>3. varied \in Seq(Nat)
  <2>1. budgets \in Seq(Nat) /\ places \in SUBSET (DOMAIN budgets)
    BY GridAssumption
  <2> HIDE DEF places
  <2>2. QED BY <2>1, AtPlacesAre
<1>4. grid = <<Baseline>> \o middle \o <<Control>>
  BY <1>1 DEF Grid
<1> HIDE DEF varied
<1>5. middle \in Seq(Configs)
  <2>1. Len(varied) \in Nat /\ DOMAIN varied = 1..Len(varied)
    BY <1>3
  <2>2. \A i \in 1..Len(varied) : Config(varied[i], "structural") \in Configs
    <3>1. \A i \in 1..Len(varied) : varied[i] \in Nat
      BY <1>3
    <3>2. QED BY <3>1 DEF Configs, Config
  <2>3. middle \in [1..Len(varied) -> Configs]
    BY <2>1, <2>2
  <2>4. QED BY <2>1, <2>3
<1>6. <<Baseline>> \in Seq(Configs) /\ <<Control>> \in Seq(Configs)
  BY GridAssumption DEF Configs, Baseline, Control, Config
<1> HIDE DEF middle
<1>7. grid \in Seq(Configs) /\ Baseline \in Elements(grid) /\ Control \in Elements(grid)
  <2>1. /\ grid \in Seq(Configs) /\ Len(middle) \in Nat
        /\ DOMAIN grid = 1..(Len(middle) + 2) /\ grid[1] = Baseline
        /\ grid[Len(middle) + 2] = Control
    BY <1>4, <1>5, <1>6
  <2>2. 1 \in DOMAIN grid /\ Len(middle) + 2 \in DOMAIN grid
    BY <2>1
  <2>3. QED BY <2>1, <2>2 DEF Elements
<1>8. DOMAIN rows = {} /\ rows \in Seq(Elements(rows)) /\ DOMAIN exclusions = {}
      /\ rest \in Seq(Measurable) /\ DOMAIN rest = {}
  BY <1>2
<1>9. GridPlaced
  BY <1>2, <1>7, <1>8 DEF GridPlaced, Distinct
<1>10. ExclusionsKnown
  <2>1. \A c \in Configs : c # NotRun
    BY GridAssumption DEF Configs
  <2>2. QED BY <1>2, <1>8, <2>1 DEF ExclusionsKnown, ExcludedFrom, Unmeasured
<1>11. UnequalOnConsole /\ VerdictHasBothRows
  BY <1>2 DEF UnequalOnConsole, VerdictHasBothRows, Recorded
<1>12. QED BY <1>2, <1>9, <1>10, <1>11 DEF GridInv

(* A verdict of the grid never stands on rows of different cases unless the  *)
(* console says so, on a row no model read, on nothing labelled, or on       *)
(* a row that lost a candidate or overspent (ablation.py,                    *)
(* ablation_runner.py): for any cases, sizes of contexts, budgets and        *)
(* requests, whatever cannot be indexed and whoever does not answer.         *)
THEOREM VerdictsAreAlwaysMeasured == GridSpec => []VerdictIsMeasured
<1>1. GridInv => VerdictIsMeasured
  BY DEF GridInv, GridPlaced, RowKnown, VerdictIsMeasured, CandidatesAccounted
<1>2. QED BY <1>1, GridInitInv, GridNextInv, PTL DEF GridSpec

-----------------------------------------------------------------------------
(* Scoring, gates and calibration. *)

(* The nearest of some findings is one of them.                             *)
LEMMA NearestIs ==
  ASSUME NEW truth, truth.line \in Int, NEW S, S # {}, \A f \in S : IsFinding(f)
  PROVE  Nearest(truth, S) \in S
<1> DEFINE D(f) == Distance(truth.line, f)
           Ahead(f, g) == D(f) < D(g) \/ (D(f) = D(g) /\ f.id <= g.id)
<1>1. \A f \in S : D(f) \in Nat /\ f.id \in Nat
  BY DEF Distance, IsFinding
<1>2. Nearest(truth, S) = CHOOSE f \in S : \A g \in S : Ahead(f, g)
  BY DEF Nearest
<1> HIDE DEF D
<1> DEFINE ds == {D(f) : f \in S}
<1>3. PICK d \in ds : \A e \in ds : d <= e
  <2>1. ds \in SUBSET Nat /\ ds # {}
    BY <1>1
  <2> HIDE DEF ds
  <2>2. QED BY <2>1, LeastNumber
<1> DEFINE ids == {n \in Nat : \E f \in S : D(f) = d /\ f.id = n}
<1>4. PICK n \in ids : \A m \in ids : n <= m
  <2>1. ids \in SUBSET Nat /\ ids # {}
    <3>1. PICK f \in S : D(f) = d
      BY <1>3
    <3>2. f.id \in ids
      BY <1>1, <3>1
    <3>3. QED BY <3>2
  <2> HIDE DEF ids
  <2>2. QED BY <2>1, LeastNumber
<1>5. PICK f \in S : D(f) = d /\ f.id = n
  BY <1>4
<1>6. ASSUME NEW g \in S PROVE Ahead(f, g)
  <2>1. d \in Nat /\ D(g) \in Nat /\ d <= D(g)
    BY <1>1, <1>3, <1>5
  <2>2. CASE D(g) = d
    <3>1. g.id \in ids
      BY <1>1, <2>2
    <3>2. n <= g.id
      BY <1>4, <3>1
    <3>3. QED BY <1>5, <2>2, <3>2
  <2>3. CASE D(g) # d
    <3>1. d < D(g)
      BY <2>1, <2>3
    <3>2. QED BY <1>5, <3>1
  <2>4. QED BY <2>2, <2>3
<1>7. \E h \in S : \A g \in S : Ahead(h, g)
  BY <1>6
<1>8. QED BY <1>2, <1>7

(* The first n truths have taken what fits them, each one finding, no two   *)
(* the same, and what one of them was left without was taken by another.    *)
Taken(m, n, truths, findings) ==
    /\ \A p \in m : \E i \in 1..n : \E f \in findings :
           /\ p = <<i, f>> /\ truths[i].variant = "vulnerable"
           /\ Matches(truths[i], f)
    /\ \A p, q \in m : p[1] = q[1] <=> p[2] = q[2]
    /\ \A i \in 1..n : \A f \in findings :
           truths[i].variant = "vulnerable" /\ Matches(truths[i], f) =>
               (\E p \in m : p[1] = i) \/ \E p \in m : p[2] = f

(* One truth more.                                                          *)
LEMMA TakeIs ==
  ASSUME NEW truths, NEW findings, \A f \in findings : IsFinding(f), NEW n \in Nat, n > 0,
         truths[n].line \in Int, NEW m, Taken(m, n - 1, truths, findings)
  PROVE  Taken(Take(m, n, truths[n], findings), n, truths, findings)
<1> DEFINE t == truths[n]
           free == Free(m, t, findings)
           f == Nearest(t, free)
           new == Take(m, n, t, findings)
<1>1. new = IF free = {} THEN m ELSE m \cup {<<n, f>>}
  BY DEF Take
<1>2. free = {g \in findings : /\ \A p \in m : p[2] # g
                               /\ t.variant = "vulnerable" /\ Matches(t, g)}
  BY DEF Free
<1>3. /\ \A p \in m : \E i \in 1..(n - 1) : \E g \in findings :
             /\ p = <<i, g>> /\ truths[i].variant = "vulnerable"
             /\ Matches(truths[i], g)
      /\ \A p, q \in m : p[1] = q[1] <=> p[2] = q[2]
      /\ \A i \in 1..(n - 1) : \A g \in findings :
             truths[i].variant = "vulnerable" /\ Matches(truths[i], g) =>
                 (\E p \in m : p[1] = i) \/ \E p \in m : p[2] = g
  BY DEF Taken
<1>4. free # {} => f \in free
  <2>1. \A g \in free : IsFinding(g)
    BY <1>2
  <2> HIDE DEF free
  <2>2. QED BY <2>1, NearestIs
<1>5. \A i \in 1..n : i \in 1..(n - 1) \/ i = n
  OBVIOUS
<1>6. \A i \in 1..(n - 1) : i \in 1..n /\ i # n
  OBVIOUS
<1>7. n \in 1..n
  OBVIOUS
<1> HIDE DEF free, f, new
<1>8. m \subseteq new /\ \A p \in new : p \in m \/ (p = <<n, f>> /\ free # {})
  BY <1>1
<1>9. ASSUME NEW p \in new
      PROVE  \E i \in 1..n : \E g \in findings :
                 /\ p = <<i, g>> /\ truths[i].variant = "vulnerable" /\ Matches(truths[i], g)
  <2>1. CASE p \in m
    BY <1>3, <1>6, <2>1
  <2>2. CASE p = <<n, f>> /\ free # {}
    BY <1>2, <1>4, <1>7, <2>2
  <2>3. QED BY <1>8, <2>1, <2>2
<1>10. ASSUME NEW p \in new, NEW q \in new PROVE p[1] = q[1] <=> p[2] = q[2]
  <2>1. \A r \in m : r[1] # n /\ (free # {} => r[2] # f)
    <3>1. \A r \in m : r[1] # n
      BY <1>3, <1>6
    <3>2. QED BY <1>2, <1>4, <3>1
  <2>2. QED BY <1>3, <1>8, <2>1
<1>11. ASSUME NEW i \in 1..n, NEW g \in findings, truths[i].variant = "vulnerable",
              Matches(truths[i], g)
       PROVE  (\E p \in new : p[1] = i) \/ \E p \in new : p[2] = g
  <2>1. CASE i \in 1..(n - 1)
    BY <1>3, <1>8, <1>11, <2>1
  <2>2. CASE i = n
    <3>1. CASE g \in free
      <4>1. <<n, f>> \in new
        BY <1>1, <3>1
      <4>2. QED BY <2>2, <4>1
    <3>2. CASE g \notin free
      BY <1>2, <1>8, <1>11, <2>2, <3>2
    <3>3. QED BY <3>1, <3>2
  <2>3. QED BY <1>5, <2>1, <2>2
<1>12. Taken(new, n, truths, findings)
  BY <1>9, <1>10, <1>11 DEF Taken
<1>13. QED BY <1>12 DEF new

(* What a truth takes is one of the findings.                               *)
LEMMA TakesFinding ==
  ASSUME NEW findings, \A f \in findings : IsFinding(f), NEW n, NEW truth,
         truth.line \in Int, NEW S, n \in S, NEW m \in SUBSET (S \X findings)
  PROVE  Take(m, n, truth, findings) \in SUBSET (S \X findings)
<1> DEFINE free == Free(m, truth, findings)
           f == Nearest(truth, free)
<1>1. Take(m, n, truth, findings) = IF free = {} THEN m ELSE m \cup {<<n, f>>}
  BY DEF Take
<1>2. free \subseteq findings /\ \A g \in free : IsFinding(g)
  BY DEF Free
<1> HIDE DEF free
<1>3. free # {} => f \in findings
  BY <1>2, NearestIs
<1> HIDE DEF f
<1>4. QED BY <1>1, <1>3

(* Matching all truths of a case leaves no pair over and uses none twice.   *)
LEMMA MatchIs ==
  ASSUME NEW truths, truths \in Seq(Range(truths)), \A t \in Range(truths) : t.line \in Int,
         NEW findings, \A f \in findings : IsFinding(f)
  PROVE  Taken(MatchAll(truths, findings), Len(truths), truths, findings)
<1> DEFINE n == Len(truths)
           V == SUBSET ((1..n) \X findings)
           step == [im \in (1..n) \X V |-> Take(im[2], im[1], truths[im[1]], findings)]
           Is(f) == f = [i \in 0..n |->
                            IF i = 0 THEN {} ELSE Take(f[i - 1], i, truths[i], findings)]
           upTo == CHOOSE f : Is(f)
<1>1. n \in Nat /\ \A i \in 1..n : truths[i].line \in Int
  BY DEF Range
<1>2. MatchAll(truths, findings) = upTo[n]
  BY DEF MatchAll
<1>3. {} \in V
  OBVIOUS
<1>4. \A i \in 1..n : \A m \in V : Take(m, i, truths[i], findings) \in V
  BY <1>1, TakesFinding
<1> HIDE DEF V, n
<1>5. step \in Steps(n, V) /\ \A i \in 1..n, m \in V :
          step[<<i, m>>] = Take(m, i, truths[i], findings)
  BY <1>4 DEF Steps
<1>6. /\ n \in 0..n /\ 0 \in 0..n
      /\ \A i \in 1..n : i \in 0..n /\ i - 1 \in 0..n /\ i # 0 /\ i \in Nat /\ i > 0
  BY <1>1
<1> HIDE DEF step
<1>7. PICK g : IsRecursive(g, n, V, {}, step)
  BY <1>1, <1>3, <1>5, ByRecursion
<1>8. Is(g)
  <2>1. ASSUME NEW i \in 1..n PROVE g[i] = Take(g[i - 1], i, truths[i], findings)
    BY <1>5, <1>6, <1>7 DEF IsRecursive
  <2>2. QED BY <1>1, <1>7, <2>1 DEF IsRecursive
<1>9. Is(upTo)
  BY <1>8
<1> HIDE DEF upTo
<1> DEFINE taken == {i \in 0..n : Taken(upTo[i], i, truths, findings)}
<1>10. 0 \in taken
  <2>1. upTo[0] = {}
    BY <1>6, <1>9
  <2>2. Taken({}, 0, truths, findings)
    BY DEF Taken
  <2>3. QED BY <1>6, <2>1, <2>2
<1>11. ASSUME NEW i \in 1..n, i - 1 \in taken PROVE i \in taken
  <2>1. upTo[i] = Take(upTo[i - 1], i, truths[i], findings)
    BY <1>6, <1>9
  <2>2. Taken(upTo[i - 1], i - 1, truths, findings)
    BY <1>11
  <2>3. i \in Nat /\ i > 0 /\ truths[i].line \in Int
    BY <1>1, <1>6
  <2>4. Taken(Take(upTo[i - 1], i, truths[i], findings), i, truths, findings)
    BY <2>2, <2>3, TakeIs
  <2>5. QED BY <1>6, <2>1, <2>4
<1> HIDE DEF taken
<1>12. \A i \in 0..n : i \in taken
  BY <1>1, <1>10, <1>11, UpTo, Zenon
<1>13. Taken(upTo[n], n, truths, findings)
  BY <1>6, <1>12 DEF taken
<1>14. QED BY <1>2, <1>13 DEF n

(* The counts of one case.                                                  *)
LEMMA CaseCounts ==
  ASSUME NEW case, IsCase(case)
  PROVE  LET firsts == {p[1] : p \in Credited(case)}
         IN  /\ firsts \subseteq DOMAIN case.truths /\ IsFiniteSet(firsts)
             /\ IsFiniteSet(Missed(case)) /\ Missed(case) \subseteq DOMAIN case.truths
             /\ IsFiniteSet(Uncredited(case)) /\ Uncredited(case) \subseteq case.findings
             /\ Cardinality(firsts) + Cardinality(Missed(case))
                    = Cardinality(Vulnerable(case))
             /\ Cardinality(firsts) + Cardinality(Uncredited(case))
                    = Cardinality(Scorable(case))
             /\ Cardinality(Vulnerable(case)) \in Nat /\ Cardinality(Scorable(case)) \in Nat
             /\ Cardinality(firsts) \in Nat /\ Cardinality(Missed(case)) \in Nat
             /\ Cardinality(Uncredited(case)) \in Nat
             /\ \A n \in Missed(case), f \in Uncredited(case) : ~ Matches(case.truths[n], f)
<1> DEFINE m == Credited(case)
           firsts == {p[1] : p \in m}
           seconds == {p[2] : p \in m}
           n == Len(case.truths)
           g == [i \in firsts |-> CHOOSE f \in seconds : <<i, f>> \in m]
<1>1. /\ case.truths \in Seq(Range(case.truths))
      /\ \A t \in Range(case.truths) : t.line \in Int
      /\ IsFiniteSet(case.findings) /\ \A f \in case.findings : IsFinding(f)
      /\ n \in Nat /\ DOMAIN case.truths = 1..n
  BY DEF IsCase
<1>2. Scorable(case) \subseteq case.findings
  BY DEF Scorable
<1>3. Taken(m, n, case.truths, Scorable(case))
  BY <1>1, <1>2, MatchIs DEF Credited
<1>4. /\ \A p \in m : \E i \in 1..n : \E f \in Scorable(case) :
             p = <<i, f>> /\ case.truths[i].variant = "vulnerable"
      /\ \A p, q \in m : p[1] = q[1] <=> p[2] = q[2]
      /\ \A i \in 1..n : \A f \in Scorable(case) :
             case.truths[i].variant = "vulnerable" /\ Matches(case.truths[i], f) =>
                 (\E p \in m : p[1] = i) \/ \E p \in m : p[2] = f
  BY <1>3 DEF Taken
<1>5. Vulnerable(case) = {i \in 1..n : case.truths[i].variant = "vulnerable"}
  BY <1>1 DEF Vulnerable
<1> HIDE DEF m
<1>6. firsts \subseteq Vulnerable(case) /\ seconds \subseteq Scorable(case)
  BY <1>4, <1>5
<1>7. IsFiniteSet(Vulnerable(case)) /\ IsFiniteSet(Scorable(case))
  <2>1. IsFiniteSet(1..n)
    BY <1>1, CountUpTo
  <2>2. Vulnerable(case) \in SUBSET (1..n) /\ Scorable(case) \in SUBSET case.findings
    BY <1>2, <1>5
  <2>3. QED BY <1>1, <2>1, <2>2, FS_Subset
<1>8. /\ g \in [firsts -> seconds] /\ \A i, j \in firsts : g[i] = g[j] => i = j
      /\ \A f \in seconds : \E i \in firsts : g[i] = f
  <2>1. \A p \in m : p = <<p[1], p[2]>> /\ p[1] \in firsts /\ p[2] \in seconds
    BY <1>4
  <2>2. ASSUME NEW i \in firsts PROVE g[i] \in seconds /\ <<i, g[i]>> \in m
    <3>1. \E f \in seconds : <<i, f>> \in m
      BY <2>1
    <3>2. g[i] = CHOOSE f \in seconds : <<i, f>> \in m
      OBVIOUS
    <3> HIDE DEF g
    <3>3. QED BY <3>1, <3>2
  <2>3. g \in [firsts -> seconds]
    BY <2>2
  <2> HIDE DEF g
  <2>4. ASSUME NEW i \in firsts, NEW j \in firsts, g[i] = g[j] PROVE i = j
    <3>1. <<i, g[i]>> \in m /\ <<j, g[j]>> \in m
      BY <2>2
    <3>2. <<i, g[i]>>[2] = <<j, g[j]>>[2] => <<i, g[i]>>[1] = <<j, g[j]>>[1]
      BY <1>4, <3>1
    <3>3. QED BY <2>4, <3>2
  <2>5. ASSUME NEW f \in seconds PROVE \E i \in firsts : g[i] = f
    <3>1. PICK p \in m : p[2] = f
      OBVIOUS
    <3>2. p[1] \in firsts /\ <<p[1], g[p[1]]>> \in m
      BY <2>1, <2>2
    <3>3. <<p[1], g[p[1]]>>[1] = p[1] => <<p[1], g[p[1]]>>[2] = p[2]
      BY <1>4, <3>2
    <3>4. QED BY <3>1, <3>2, <3>3
  <2>6. QED BY <2>3, <2>4, <2>5
<1>9. Missed(case) = Vulnerable(case) \ firsts /\ Uncredited(case) = Scorable(case) \ seconds
  BY DEF Missed, Uncredited, m
<1> HIDE DEF g, firsts, seconds
<1>10. /\ IsFiniteSet(firsts) /\ IsFiniteSet(seconds)
       /\ Cardinality(seconds) = Cardinality(firsts)
  <2>1. IsFiniteSet(firsts)
    BY <1>6, <1>7, CountRest
  <2>2. QED BY <1>8, <2>1, CountSame
<1>11. /\ Cardinality(Vulnerable(case)) = Cardinality(firsts) + Cardinality(Missed(case))
       /\ IsFiniteSet(Missed(case)) /\ Cardinality(Missed(case)) \in Nat
       /\ Cardinality(Vulnerable(case)) \in Nat /\ Cardinality(firsts) \in Nat
  BY <1>6, <1>7, <1>9, CountRest
<1>12. /\ Cardinality(Scorable(case)) = Cardinality(seconds) + Cardinality(Uncredited(case))
       /\ IsFiniteSet(Uncredited(case)) /\ Cardinality(Uncredited(case)) \in Nat
       /\ Cardinality(Scorable(case)) \in Nat
  BY <1>6, <1>7, <1>9, CountRest
<1>13. ASSUME NEW i \in Missed(case), NEW f \in Uncredited(case)
       PROVE  ~ Matches(case.truths[i], f)
  <2>1. /\ i \in 1..n /\ case.truths[i].variant = "vulnerable" /\ f \in Scorable(case)
        /\ i \notin firsts /\ f \notin seconds
    BY <1>5, <1>9
  <2>2. ~(\E p \in m : p[1] = i) /\ ~(\E p \in m : p[2] = f)
    BY <2>1 DEF firsts, seconds
  <2>3. QED BY <1>4, <2>1, <2>2
<1>14. firsts \subseteq DOMAIN case.truths /\ Missed(case) \subseteq DOMAIN case.truths
       /\ Uncredited(case) \subseteq case.findings
  BY <1>1, <1>2, <1>5, <1>6, <1>9
<1>15. firsts = {p[1] : p \in Credited(case)}
  BY DEF firsts, m
<1>16. QED
  BY <1>10, <1>11, <1>12, <1>13, <1>14, <1>15

NothingInvented ==
    \A f \in AllFindings : /\ f.tool \in KnownTools
                           /\ \A c \in Range(f.cites) : c[1] \notin FabricationStatuses
FloorReached == IF held = None THEN baseRun ELSE MacroF2 >= held

ScoreTypes ==
    /\ suite \in Suites /\ at \in 0..Len(suite)
    /\ tp \in [Families -> Nat] /\ fp \in [Families -> Nat] /\ fn \in [Families -> Nat]

(* A gate that was passed was passed for what it is about, over everything.  *)
GatesKnown ==
    gates # None =>
        /\ at = Len(suite)
        /\ "zero_fabrication" \notin gates => NothingInvented
        /\ "baseline_floor" \notin gates => FloorReached

(* The inductive invariant of a score.                                       *)
ScoreInv ==
    /\ ScoreTypes
    /\ EverythingCharged
    /\ NoMatchLeftOver
    /\ GatesKnown
    /\ curve # None => curve = Bins(suite)
    /\ overall = "quoted" => /\ gates # None /\ gates = {}
                             /\ curve # None /\ ~ Miscalibrated(curve)

(* What a suite holds.                                                      *)
LEMMA SuiteIs ==
  ASSUME NEW cases \in Suites
  PROVE  /\ cases \in Seq(Range(cases)) /\ Len(cases) \in Nat
         /\ DOMAIN cases = 1..Len(cases) /\ \A i \in DOMAIN cases : IsCase(cases[i])
<1>1. cases \in Seq(Range(cases)) /\ \A c \in Range(cases) : IsCase(c)
  BY ScoringAssumption
<1>2. \A i \in DOMAIN cases : cases[i] \in Range(cases)
  BY DEF Range
<1>3. QED BY <1>1, <1>2

(* Counts per family grow by what is counted.                               *)
LEMMA FamiliesAdd ==
  ASSUME NEW t \in [Families -> Nat], NEW S, IsFiniteSet(S), NEW part \in [S -> Families],
         NEW e, e = [x \in Families |-> t[x] + Cardinality({n \in S : part[n] = x})]
  PROVE  e \in [Families -> Nat] /\ Total(e) = Total(t) + Cardinality(S)
<1> DEFINE d == [x \in Families |-> Cardinality({n \in S : part[n] = x})]
<1>1. IsFiniteSet(Families)
  BY ScoringAssumption
<1>2. d \in [Families -> Nat] /\ Total(d) = Cardinality(S)
  BY <1>1, TotalOfParts
<1>3. e = [x \in Families |-> t[x] + d[x]]
  OBVIOUS
<1> HIDE DEF d
<1>4. e \in [Families -> Nat] /\ \A x \in Families : e[x] = t[x] + d[x]
  BY <1>2, <1>3
<1>5. ASSUME NEW h \in [Families -> Nat], \A x \in Families : h[x] = t[x] + d[x]
      PROVE  Total(h) = Total(t) + Total(d)
  BY <1>1, <1>2, <1>5, TotalAdds
<1>6. Total(e) = Total(t) + Total(d)
  BY <1>4, <1>5, Zenon
<1>7. QED BY <1>2, <1>4, <1>6

(* What a finding is charged to is a family.                                *)
LEMMA ChargedIs ==
  ASSUME NEW case, IsCase(case), NEW f \in case.findings
  PROVE  Charged(f, case) \in Families
<1>1. FamilyOf[f.cwe] \in Families \cup {None} /\ case.family \in Families \cup {None}
  BY DEF IsCase, IsFinding
<1>2. FallbackFamily(case) \in Families
  <2>1. CASE case.truths = <<>>
    BY <2>1, ScoringAssumption DEF FallbackFamily
  <2>2. CASE case.truths # <<>>
    <3>1. case.truths \in Seq(Range(case.truths))
          /\ \A t \in Range(case.truths) : t.family \in Families
      BY DEF IsCase
    <3>2. 1 \in DOMAIN case.truths
      BY <2>2, <3>1
    <3>3. case.truths[1] \in Range(case.truths)
      BY <3>2 DEF Range
    <3>4. QED BY <2>2, <3>1, <3>3 DEF FallbackFamily
  <2>3. QED BY <2>1, <2>2
<1>3. QED BY <1>1, <1>2 DEF Charged

(* One case more is counted.                                                *)
LEMMA CountOneMore ==
  ASSUME NEW n \in Nat, NEW size, \A i \in 1..(n + 1) : size[i] \in Nat
  PROVE  /\ Total([i \in 1..(n + 1) |-> size[i]]) = Total([i \in 1..n |-> size[i]]) + size[n + 1]
         /\ Total([i \in 1..n |-> size[i]]) \in Nat
<1> DEFINE S == 1..n
           T == 1..(n + 1)
           d == [i \in S |-> size[i]]
           e == [i \in T |-> size[i]]
<1>1. IsFiniteSet(S) /\ n + 1 \notin S /\ T = S \cup {n + 1}
  BY CountUpTo
<1>2. d \in [S -> Nat] /\ e \in [T -> Nat] /\ (\A i \in S : e[i] = d[i])
      /\ e[n + 1] = size[n + 1]
  OBVIOUS
<1> HIDE DEF S, T, d, e
<1>3. Total(e) = Total(d) + e[n + 1] /\ Total(d) \in Nat
  BY <1>1, <1>2, TotalMore, TotalIs
<1>4. QED BY <1>2, <1>3 DEF S, T, d, e

(* The counts of the next case.                                             *)
LEMMA ScoreCaseCounts ==
  ASSUME ScoreTypes, EverythingCharged, NoMatchLeftOver, ScoreCase
  PROVE  ScoreTypes' /\ EverythingCharged' /\ NoMatchLeftOver'
<1> DEFINE case == suite[at + 1]
           firsts == {p[1] : p \in Credited(case)}
           V == Cardinality(Vulnerable(case))
           F == Cardinality(Scorable(case))
           C == Cardinality(firsts)
           M == Cardinality(Missed(case))
           U == Cardinality(Uncredited(case))
<1>1. /\ at < Len(suite) /\ at' = at + 1 /\ suite' = suite
      /\ tp' = [x \in Families |-> tp[x] + OfFamily(x, case, firsts)]
      /\ fn' = [x \in Families |-> fn[x] + OfFamily(x, case, Missed(case))]
      /\ fp' = [x \in Families |-> fp[x] + ChargedTo(x, case)]
  BY DEF ScoreCase
<1>2. /\ Len(suite) \in Nat /\ DOMAIN suite = 1..Len(suite)
      /\ \A i \in DOMAIN suite : IsCase(suite[i])
  BY SuiteIs DEF ScoreTypes
<1>3. at \in Nat /\ at + 1 \in DOMAIN suite /\ at + 1 \in 0..Len(suite)
  BY <1>1, <1>2 DEF ScoreTypes
<1>4. IsCase(case)
  BY <1>2, <1>3
<1>5. /\ firsts \subseteq DOMAIN case.truths /\ IsFiniteSet(firsts)
      /\ IsFiniteSet(Missed(case)) /\ Missed(case) \subseteq DOMAIN case.truths
      /\ IsFiniteSet(Uncredited(case)) /\ Uncredited(case) \subseteq case.findings
      /\ C + M = V /\ C + U = F /\ V \in Nat /\ F \in Nat /\ C \in Nat /\ M \in Nat /\ U \in Nat
      /\ \A n \in Missed(case), f \in Uncredited(case) : ~ Matches(case.truths[n], f)
  BY <1>4, CaseCounts
<1>6. \A n \in DOMAIN case.truths : case.truths[n].family \in Families
  <2>1. \A t \in Range(case.truths) : t.family \in Families
    BY <1>4 DEF IsCase
  <2>2. QED BY <2>1 DEF Range
<1>7. \A f \in Uncredited(case) : Charged(f, case) \in Families
  BY <1>4, <1>5, ChargedIs
<1> HIDE DEF case, firsts
<1>8. tp' \in [Families -> Nat] /\ Total(tp') = Total(tp) + C
  <2> DEFINE part == [n \in firsts |-> case.truths[n].family]
  <2>1. part \in [firsts -> Families]
    BY <1>5, <1>6
  <2>2. \A x : {n \in firsts : case.truths[n].family = x} = {n \in firsts : part[n] = x}
    OBVIOUS
  <2>3. tp' = [x \in Families |-> tp[x] + Cardinality({n \in firsts : part[n] = x})]
    BY <1>1, <2>2 DEF OfFamily
  <2> HIDE DEF part
  <2>4. tp \in [Families -> Nat]
    BY DEF ScoreTypes
  <2>5. QED BY <1>5, <2>1, <2>3, <2>4, FamiliesAdd
<1>9. fn' \in [Families -> Nat] /\ Total(fn') = Total(fn) + M
  <2> DEFINE S == Missed(case)
             part == [n \in S |-> case.truths[n].family]
  <2>1. part \in [S -> Families]
    BY <1>5, <1>6
  <2>2. \A x : {n \in S : case.truths[n].family = x} = {n \in S : part[n] = x}
    OBVIOUS
  <2>3. fn' = [x \in Families |-> fn[x] + Cardinality({n \in S : part[n] = x})]
    BY <1>1, <2>2 DEF OfFamily
  <2> HIDE DEF part
  <2>4. fn \in [Families -> Nat]
    BY DEF ScoreTypes
  <2>5. QED BY <1>5, <2>1, <2>3, <2>4, FamiliesAdd
<1>10. fp' \in [Families -> Nat] /\ Total(fp') = Total(fp) + U
  <2> DEFINE S == Uncredited(case)
             part == [f \in S |-> Charged(f, case)]
  <2>1. part \in [S -> Families]
    BY <1>7
  <2>2. \A x : {f \in S : Charged(f, case) = x} = {f \in S : part[f] = x}
    OBVIOUS
  <2>3. fp' = [x \in Families |-> fp[x] + Cardinality({f \in S : part[f] = x})]
    BY <1>1, <2>2 DEF ChargedTo
  <2> HIDE DEF part
  <2>4. fp \in [Families -> Nat]
    BY DEF ScoreTypes
  <2>5. QED BY <1>5, <2>1, <2>3, <2>4, FamiliesAdd
<1>11. \A i \in 1..(at + 1) : /\ Cardinality(Scorable(suite[i])) \in Nat
                              /\ Cardinality(Vulnerable(suite[i])) \in Nat
  <2>1. ASSUME NEW i \in 1..(at + 1) PROVE IsCase(suite[i])
    BY <1>2, <1>3
  <2>2. QED BY <2>1, CaseCounts
<1>12. /\ Total([i \in 1..(at + 1) |-> Cardinality(Scorable(suite[i]))])
              = Total([i \in 1..at |-> Cardinality(Scorable(suite[i]))]) + F
       /\ Total([i \in 1..at |-> Cardinality(Scorable(suite[i]))]) \in Nat
  <2> DEFINE size == [i \in 1..(at + 1) |-> Cardinality(Scorable(suite[i]))]
  <2>1. \A i \in 1..(at + 1) : size[i] \in Nat
    BY <1>11
  <2>2. [i \in 1..(at + 1) |-> size[i]] = size
        /\ [i \in 1..at |-> size[i]] = [i \in 1..at |-> Cardinality(Scorable(suite[i]))]
        /\ size[at + 1] = F
    BY <1>3 DEF case
  <2>3. /\ Total([i \in 1..(at + 1) |-> size[i]])
               = Total([i \in 1..at |-> size[i]]) + size[at + 1]
        /\ Total([i \in 1..at |-> size[i]]) \in Nat
    <3> HIDE DEF size
    <3>1. QED BY <1>3, <2>1, CountOneMore
  <2>4. QED BY <2>2, <2>3
<1>13. /\ Total([i \in 1..(at + 1) |-> Cardinality(Vulnerable(suite[i]))])
              = Total([i \in 1..at |-> Cardinality(Vulnerable(suite[i]))]) + V
       /\ Total([i \in 1..at |-> Cardinality(Vulnerable(suite[i]))]) \in Nat
  <2> DEFINE size == [i \in 1..(at + 1) |-> Cardinality(Vulnerable(suite[i]))]
  <2>1. \A i \in 1..(at + 1) : size[i] \in Nat
    BY <1>11
  <2>2. [i \in 1..(at + 1) |-> size[i]] = size
        /\ [i \in 1..at |-> size[i]] = [i \in 1..at |-> Cardinality(Vulnerable(suite[i]))]
        /\ size[at + 1] = V
    BY <1>3 DEF case
  <2>3. /\ Total([i \in 1..(at + 1) |-> size[i]])
               = Total([i \in 1..at |-> size[i]]) + size[at + 1]
        /\ Total([i \in 1..at |-> size[i]]) \in Nat
    <3> HIDE DEF size
    <3>1. QED BY <1>3, <2>1, CountOneMore
  <2>4. QED BY <2>2, <2>3
<1> HIDE DEF V, F, C, M, U
<1>14. Total(tp) \in Nat /\ Total(fp) \in Nat /\ Total(fn) \in Nat
  BY TotalIs, ScoringAssumption DEF ScoreTypes
<1>15. EverythingCharged'
  <2>1. /\ Total(tp) + Total(fp) = Total([i \in 1..at |-> Cardinality(Scorable(suite[i]))])
        /\ Total(tp) + Total(fn) = Total([i \in 1..at |-> Cardinality(Vulnerable(suite[i]))])
    BY DEF EverythingCharged
  <2>2. Total(tp') + Total(fp')
          = Total([i \in 1..(at + 1) |-> Cardinality(Scorable(suite[i]))])
    <3>1. (Total(tp) + C) + (Total(fp) + U) = (Total(tp) + Total(fp)) + F
      BY <1>5, <1>14
    <3>2. QED BY <1>8, <1>10, <1>12, <2>1, <3>1
  <2>3. Total(tp') + Total(fn')
          = Total([i \in 1..(at + 1) |-> Cardinality(Vulnerable(suite[i]))])
    <3>1. (Total(tp) + C) + (Total(fn) + M) = (Total(tp) + Total(fn)) + V
      BY <1>5, <1>14
    <3>2. QED BY <1>8, <1>9, <1>13, <2>1, <3>1
  <2>4. QED BY <1>1, <2>2, <2>3 DEF EverythingCharged
<1>16. NoMatchLeftOver'
  <2>1. ASSUME NEW i \in 1..(at + 1), NEW n \in Missed(suite[i]), NEW f \in Uncredited(suite[i])
        PROVE  ~ Matches(suite[i].truths[n], f)
    <3>1. CASE i \in 1..at
      BY <3>1 DEF NoMatchLeftOver
    <3>2. CASE i = at + 1
      BY <1>5, <3>2 DEF case
    <3>3. QED BY <1>3, <3>1, <3>2
  <2>2. QED BY <1>1, <2>1 DEF NoMatchLeftOver
<1>17. ScoreTypes'
  BY <1>1, <1>3, <1>8, <1>9, <1>10 DEF ScoreTypes
<1>18. QED BY <1>15, <1>16, <1>17

(* A case more is scored before anything is decided.                        *)
LEMMA ScoreCaseInv == ScoreInv /\ ScoreCase => ScoreInv'
<1> SUFFICES ASSUME ScoreInv, ScoreCase PROVE ScoreInv'
  OBVIOUS
<1>1. /\ at < Len(suite) /\ suite' = suite /\ gates' = gates /\ curve' = curve
      /\ overall' = overall
  BY DEF ScoreCase
<1>2. ScoreTypes' /\ EverythingCharged' /\ NoMatchLeftOver'
  BY ScoreCaseCounts DEF ScoreInv
<1>3. GatesKnown'
  <2>1. gates = None
    <3>1. Len(suite) \in Nat
      BY SuiteIs DEF ScoreInv, ScoreTypes
    <3>2. at # Len(suite)
      BY <1>1, <3>1 DEF ScoreInv, ScoreTypes
    <3>3. QED BY <3>2 DEF ScoreInv, GatesKnown
  <2>2. QED BY <1>1, <2>1 DEF GatesKnown
<1>4. (curve # None => curve = Bins(suite))'
  BY <1>1 DEF ScoreInv
<1>5. QED BY <1>1, <1>2, <1>4, <1>3 DEF ScoreInv

(* No signal of fabrication means that nothing was invented.                *)
LEMMA NoSignals ==
  ASSUME FabricationSignals = {}
  PROVE  NothingInvented
<1>1. \A f \in AllFindings :
        {c \in Range(f.cites) : c[1] \in FabricationStatuses}
          \cup (IF f.tool \in KnownTools THEN {} ELSE {<<"analyzer", f.tool>>}) = {}
  BY DEF FabricationSignals
<1>2. QED BY <1>1 DEF NothingInvented

(* The gates are decided over all that was scored.                          *)
LEMMA EvaluateGatesInv == ScoreInv /\ EvaluateGates => ScoreInv'
<1> SUFFICES ASSUME ScoreInv, EvaluateGates PROVE ScoreInv'
  OBVIOUS
<1> DEFINE floor == (held = None /\ baseRun) \/ (held # None /\ MacroF2 >= held)
<1>1. /\ at = Len(suite) /\ gates = None /\ suite' = suite /\ held' = held
      /\ baseRun' = baseRun /\ at' = at /\ tp' = tp /\ fp' = fp /\ fn' = fn
      /\ curve' = curve /\ overall' = overall
      /\ gates' = (IF CitationRateHolds THEN {} ELSE {"citation_resolution"})
             \cup (IF FabricationSignals = {} THEN {} ELSE {"zero_fabrication"})
             \cup (IF floor THEN {} ELSE {"baseline_floor"})
  BY DEF EvaluateGates
<1>2. /\ "zero_fabrication" \notin gates' => FabricationSignals = {}
      /\ "baseline_floor" \notin gates' => floor
  BY <1>1
<1>3. ScoreTypes' /\ EverythingCharged' /\ NoMatchLeftOver'
  BY <1>1 DEF ScoreInv, ScoreTypes, EverythingCharged, NoMatchLeftOver
<1>4. NothingInvented' <=> NothingInvented
  BY <1>1 DEF NothingInvented, AllFindings
<1>5. FloorReached' <=> FloorReached
  <2>1. MacroF2' = MacroF2
    BY <1>1 DEF MacroF2
  <2>2. QED BY <1>1, <2>1 DEF FloorReached
<1>6. floor => FloorReached
  BY DEF FloorReached
<1> HIDE DEF floor
<1>7. GatesKnown'
  BY <1>1, <1>2, <1>4, <1>5, <1>6, NoSignals DEF GatesKnown
<1>8. (curve # None => curve = Bins(suite))'
  BY <1>1 DEF ScoreInv
<1>9. overall' # "quoted"
  BY <1>1 DEF ScoreInv
<1>10. QED BY <1>3, <1>7, <1>8, <1>9 DEF ScoreInv

(* What stays when nothing but the curve or the score changes.              *)
LEMMA ScoreStays ==
  ASSUME ScoreInv, UNCHANGED <<suite, held, baseRun, at, tp, fp, fn, gates>>
  PROVE  ScoreTypes' /\ EverythingCharged' /\ NoMatchLeftOver' /\ GatesKnown'
<1>1. /\ suite' = suite /\ held' = held /\ baseRun' = baseRun /\ at' = at /\ tp' = tp
      /\ fp' = fp /\ fn' = fn /\ gates' = gates
  OBVIOUS
<1>2. ScoreTypes' /\ EverythingCharged' /\ NoMatchLeftOver'
  BY <1>1 DEF ScoreInv, ScoreTypes, EverythingCharged, NoMatchLeftOver
<1>3. NothingInvented' <=> NothingInvented
  BY <1>1 DEF NothingInvented, AllFindings
<1>4. FloorReached' <=> FloorReached
  <2>1. MacroF2' = MacroF2
    BY <1>1 DEF MacroF2
  <2>2. QED BY <1>1, <2>1 DEF FloorReached
<1>5. GatesKnown
  BY DEF ScoreInv
<1>6. GatesKnown'
  BY <1>1, <1>3, <1>4, <1>5 DEF GatesKnown
<1>7. QED BY <1>2, <1>6

(* The labels are measured over the suite that was scored.                  *)
LEMMA CalibrateInv == ScoreInv /\ Calibrate => ScoreInv'
<1> SUFFICES ASSUME ScoreInv, Calibrate PROVE ScoreInv'
  OBVIOUS
<1>1. /\ curve = None /\ curve' = Bins(suite) /\ suite' = suite /\ overall' = overall
      /\ UNCHANGED <<suite, held, baseRun, at, tp, fp, fn, gates>>
  BY DEF Calibrate
<1>2. curve' = Bins(suite')
  BY <1>1
<1>3. overall' # "quoted"
  BY <1>1 DEF ScoreInv
<1>4. ScoreTypes' /\ EverythingCharged' /\ NoMatchLeftOver' /\ GatesKnown'
  BY <1>1, ScoreStays
<1>5. QED BY <1>2, <1>3, <1>4 DEF ScoreInv

(* A score is quoted on gates and labels that are in order.                 *)
LEMMA GatedOverallScoreInv == ScoreInv /\ GatedOverallScore => ScoreInv'
<1> SUFFICES ASSUME ScoreInv, GatedOverallScore PROVE ScoreInv'
  OBVIOUS
<1>1. /\ gates # None /\ curve # None /\ gates' = gates /\ curve' = curve /\ suite' = suite
      /\ overall' = IF Miscalibrated(curve) \/ gates # {} THEN "refused" ELSE "quoted"
      /\ UNCHANGED <<suite, held, baseRun, at, tp, fp, fn, gates>>
  BY DEF GatedOverallScore
<1>2. ScoreTypes' /\ EverythingCharged' /\ NoMatchLeftOver' /\ GatesKnown'
  BY <1>1, ScoreStays
<1>3. (curve # None => curve = Bins(suite))'
  BY <1>1 DEF ScoreInv
<1>4. overall' = "quoted" => gates = {} /\ ~ Miscalibrated(curve)
  BY <1>1
<1>5. overall' = "quoted" => /\ gates' # None /\ gates' = {}
                             /\ curve' # None /\ ~ Miscalibrated(curve')
  BY <1>1, <1>4
<1>6. QED BY <1>2, <1>3, <1>5 DEF ScoreInv

(* Every step keeps the invariant.                                          *)
LEMMA ScoringNextInv == ScoreInv /\ [ScoringNext]_scoreVars => ScoreInv'
<1> SUFFICES ASSUME ScoreInv, [ScoringNext]_scoreVars PROVE ScoreInv'
  OBVIOUS
<1>1. CASE UNCHANGED scoreVars
  <2>1. /\ UNCHANGED <<suite, held, baseRun, at, tp, fp, fn, gates>>
        /\ suite' = suite /\ gates' = gates /\ curve' = curve /\ overall' = overall
    BY <1>1 DEF scoreVars
  <2>2. ScoreTypes' /\ EverythingCharged' /\ NoMatchLeftOver' /\ GatesKnown'
    BY <2>1, ScoreStays
  <2>3. QED BY <2>1, <2>2 DEF ScoreInv
<1>2. QED
  BY <1>1, ScoreCaseInv, EvaluateGatesInv, CalibrateInv, GatedOverallScoreInv DEF ScoringNext

(* Nothing is scored yet.                                                   *)
LEMMA ScoringInitInv == ScoringInit => ScoreInv
<1> SUFFICES ASSUME ScoringInit PROVE ScoreInv
  OBVIOUS
<1>1. /\ suite \in Suites /\ at = 0 /\ tp = [x \in Families |-> 0] /\ fp = tp /\ fn = tp
      /\ gates = None /\ curve = None /\ overall = None
  BY DEF ScoringInit
<1>2. ScoreTypes
  <2>1. Len(suite) \in Nat
    BY <1>1, SuiteIs
  <2>2. QED BY <1>1, <2>1 DEF ScoreTypes
<1>3. EverythingCharged
  <2>1. UnitsOf(tp) = {}
    <3>1. \A x \in DOMAIN tp : {x} \X (1..tp[x]) = {}
      BY <1>1
    <3>2. QED BY <3>1 DEF UnitsOf
  <2>2. Total(tp) = 0
    BY <2>1, FS_EmptySet DEF Total, UnitsOf
  <2>3. DOMAIN [i \in 1..at |-> Cardinality(Scorable(suite[i]))] = {}
        /\ DOMAIN [i \in 1..at |-> Cardinality(Vulnerable(suite[i]))] = {}
    BY <1>1
  <2>4. Total([i \in 1..at |-> Cardinality(Scorable(suite[i]))]) = 0
        /\ Total([i \in 1..at |-> Cardinality(Vulnerable(suite[i]))]) = 0
    BY <2>3, TotalOfNothing
  <2>5. QED BY <1>1, <2>2, <2>4 DEF EverythingCharged
<1>4. NoMatchLeftOver
  BY <1>1 DEF NoMatchLeftOver
<1>5. overall # "quoted"
  BY <1>1, ScoringAssumption
<1>6. QED BY <1>1, <1>2, <1>3, <1>4, <1>5 DEF ScoreInv, GatesKnown

(* Numbers of findings add up to a number.                                  *)
LEMMA CountsAddUp ==
  ASSUME NEW n \in Nat, NEW d \in [1..n -> Nat]
  PROVE  Total(d) \in Nat
<1>1. IsFiniteSet(1..n)
  BY CountUpTo
<1> DEFINE S == 1..n
<1>2. IsFiniteSet(S) /\ d \in [S -> Nat]
  BY <1>1
<1> HIDE DEF S
<1>3. QED BY <1>2, TotalIs

(* A bin counts findings.                                                   *)
LEMMA BinsAre ==
  ASSUME NEW cases \in Suites, NEW label \in Range(Confidence)
  PROVE  Bins(cases)[label].count \in Nat /\ Bins(cases)[label].correct \in Nat
<1> DEFINE n == Len(cases)
           all == [i \in DOMAIN cases |-> Cardinality(Labelled(cases[i], label))]
           hits == [i \in DOMAIN cases |->
                        Cardinality(Labelled(cases[i], label) \cap TrueFindings(cases[i]))]
<1>1. n \in Nat /\ DOMAIN cases = 1..n /\ \A i \in 1..n : IsCase(cases[i])
  BY SuiteIs
<1>2. ASSUME NEW i \in 1..n
      PROVE  /\ Cardinality(Labelled(cases[i], label)) \in Nat
             /\ Cardinality(Labelled(cases[i], label) \cap TrueFindings(cases[i])) \in Nat
  <2> DEFINE L == Labelled(cases[i], label)
             R == L \cap TrueFindings(cases[i])
  <2>1. IsFiniteSet(cases[i].findings)
    BY <1>1 DEF IsCase
  <2>2. L \in SUBSET cases[i].findings /\ R \in SUBSET cases[i].findings
    BY DEF Labelled
  <2> HIDE DEF L, R
  <2>3. IsFiniteSet(L) /\ IsFiniteSet(R)
    BY <2>1, <2>2, FS_Subset
  <2>4. Cardinality(L) \in Nat /\ Cardinality(R) \in Nat
    BY <2>3, FS_CardinalityType
  <2>5. QED BY <2>4 DEF L, R
<1>3. all \in [1..n -> Nat] /\ hits \in [1..n -> Nat]
  BY <1>1, <1>2
<1>4. Bins(cases)[label] = [count |-> Total(all), correct |-> Total(hits)]
  BY DEF Bins
<1> HIDE DEF all, hits, n
<1>5. Total(all) \in Nat /\ Total(hits) \in Nat
  BY <1>1, <1>3, CountsAddUp
<1>6. QED BY <1>4, <1>5

(* Rates are ordered.                                                       *)
LEMMA RatesOrdered ==
  ASSUME NEW c1 \in Nat, NEW c2 \in Nat, NEW c3 \in Nat,
         NEW n1 \in Nat, NEW n2 \in Nat, NEW n3 \in Nat, n2 > 0,
         c1 * n2 >= c2 * n1, c2 * n3 >= c3 * n2
  PROVE  c1 * n3 >= c3 * n1
<1> DEFINE a == c1 * n3
           b == c3 * n1
<1>1. a \in Int /\ b \in Int
  OBVIOUS
<1>2. (c1 * n2) * n3 >= (c2 * n1) * n3
  <2> DEFINE x == c1 * n2
             y == c2 * n1
  <2>1. x \in Int /\ y \in Int /\ x >= y
    OBVIOUS
  <2> HIDE DEF x, y
  <2>2. x * n3 >= y * n3
    BY <2>1
  <2>3. QED BY <2>2 DEF x, y
<1>3. (c2 * n3) * n1 >= (c3 * n2) * n1
  <2> DEFINE x == c2 * n3
             y == c3 * n2
  <2>1. x \in Int /\ y \in Int /\ x >= y
    OBVIOUS
  <2> HIDE DEF x, y
  <2>2. x * n1 >= y * n1
    BY <2>1
  <2>3. QED BY <2>2 DEF x, y
<1>4. /\ (c1 * n2) * n3 = n2 * a /\ (c3 * n2) * n1 = n2 * b
      /\ (c2 * n1) * n3 = (c2 * n3) * n1
  OBVIOUS
<1> HIDE DEF a, b
<1>5. n2 * a >= n2 * b
  BY <1>1, <1>2, <1>3, <1>4
<1>6. ASSUME a < b PROVE FALSE
  <2>1. n2 * a < n2 * b
    BY <1>1, <1>6
  <2>2. QED BY <1>1, <1>5, <2>1
<1>7. a >= b
  BY <1>1, <1>6
<1>8. QED BY <1>7 DEF a, b

(* Labels whose neighbours are in order are in order.                       *)
LEMMA LabelsOrdered ==
  ASSUME NEW bins, \A label \in Range(Confidence) :
                       bins[label].count \in Nat /\ bins[label].correct \in Nat,
         ~ Miscalibrated(bins),
         NEW i \in DOMAIN Confidence, NEW j \in DOMAIN Confidence,
         i < j, Enough(bins, i), Enough(bins, j)
  PROVE  ~ LessAccurate(bins[Confidence[j]], bins[Confidence[i]])
<1> DEFINE n(k) == bins[Confidence[k]].count
           c(k) == bins[Confidence[k]].correct
<1>1. DOMAIN Confidence = 1..3
  BY DEF Confidence
<1>2. \A k \in 1..3 : n(k) \in Nat /\ c(k) \in Nat
  BY <1>1 DEF Range
<1>3. \A k \in 1..3 : Enough(bins, k) <=> n(k) >= MinPerBin
  BY DEF Enough
<1>4. \A k, l \in 1..3 :
        LessAccurate(bins[Confidence[l]], bins[Confidence[k]]) <=> c(k) * n(l) < c(l) * n(k)
  BY DEF LessAccurate
<1>5. \A k, l \in 1..3 :
        /\ k < l /\ Enough(bins, k) /\ Enough(bins, l)
        /\ \A m \in 1..3 : k < m /\ m < l => ~ Enough(bins, m)
        => ~ LessAccurate(bins[Confidence[l]], bins[Confidence[k]])
  BY <1>1 DEF Miscalibrated
<1> HIDE DEF n, c
<1>6. i \in 1..3 /\ j \in 1..3
  BY <1>1
<1>7. CASE \A m \in 1..3 : i < m /\ m < j => ~ Enough(bins, m)
  BY <1>5, <1>6, <1>7
<1>8. CASE ~(\A m \in 1..3 : i < m /\ m < j => ~ Enough(bins, m))
  <2>1. i = 1 /\ j = 3 /\ Enough(bins, 2)
    <3>1. PICK m \in 1..3 : i < m /\ m < j /\ Enough(bins, m)
      BY <1>8
    <3>2. i = 1 /\ j = 3 /\ m = 2
      BY <1>6, <3>1
    <3>3. QED BY <3>1, <3>2
  <2>2. Enough(bins, 1) /\ Enough(bins, 3)
    BY <2>1
  <2>3. /\ ~ LessAccurate(bins[Confidence[2]], bins[Confidence[1]])
        /\ ~ LessAccurate(bins[Confidence[3]], bins[Confidence[2]])
    <3>1. /\ \A m \in 1..3 : 1 < m /\ m < 2 => ~ Enough(bins, m)
          /\ \A m \in 1..3 : 2 < m /\ m < 3 => ~ Enough(bins, m)
          /\ 1 \in 1..3 /\ 2 \in 1..3 /\ 3 \in 1..3 /\ 1 < 2 /\ 2 < 3
      OBVIOUS
    <3>2. QED BY <1>5, <2>1, <2>2, <3>1
  <2>4. ~(c(1) * n(2) < c(2) * n(1)) /\ ~(c(2) * n(3) < c(3) * n(2))
    BY <1>4, <2>3
  <2>5. /\ n(1) \in Nat /\ n(2) \in Nat /\ n(3) \in Nat
        /\ c(1) \in Nat /\ c(2) \in Nat /\ c(3) \in Nat
    BY <1>2
  <2>6. n(2) > 0
    <3>1. n(2) >= MinPerBin
      BY <1>3, <2>1
    <3>2. QED BY <2>5, <3>1, ScoringAssumption
  <2>7. c(1) * n(3) >= c(3) * n(1)
    <3>1. c(1) * n(2) >= c(2) * n(1) /\ c(2) * n(3) >= c(3) * n(2)
      BY <2>4, <2>5
    <3>2. QED BY <2>5, <2>6, <3>1, RatesOrdered
  <2>8. ~(c(1) * n(3) < c(3) * n(1))
    BY <2>5, <2>7
  <2>9. QED BY <1>4, <2>1, <2>8
<1>9. QED BY <1>7, <1>8

(* A score is quoted only when it was earned (eval/metrics.py, gates.py,     *)
(* calibration.py): every finding and truth is counted once, nothing that    *)
(* fits is left over, nothing was invented, the floor is reached and the     *)
(* labels are in order, for any suites, families, tolerance and thresholds.  *)
THEOREM ScoresAreAlwaysEarned == ScoringSpec => []ScoreIsEarned
<1>1. ScoreInv => ScoreIsEarned
  <2> SUFFICES ASSUME ScoreInv PROVE ScoreIsEarned
    OBVIOUS
  <2>1. EverythingCharged /\ NoMatchLeftOver
    BY DEF ScoreInv
  <2>2. QuotedIsEarned
    <3> SUFFICES ASSUME overall = "quoted" PROVE QuotedIsEarned
      BY DEF QuotedIsEarned
    <3>1. gates # None /\ gates = {} /\ GatesKnown
      BY DEF ScoreInv
    <3>2. NothingInvented /\ FloorReached
      BY <3>1 DEF GatesKnown
    <3>3. QED BY <3>2 DEF NothingInvented, FloorReached, QuotedIsEarned
  <2>3. QuotedLabelsOrdered
    <3> SUFFICES ASSUME overall = "quoted" PROVE QuotedLabelsOrdered
      BY DEF QuotedLabelsOrdered
    <3>1. curve = Bins(suite) /\ ~ Miscalibrated(curve) /\ suite \in Suites
      BY DEF ScoreInv, ScoreTypes
    <3>2. \A label \in Range(Confidence) :
            curve[label].count \in Nat /\ curve[label].correct \in Nat
      BY <3>1, BinsAre
    <3>3. ASSUME NEW i \in DOMAIN Confidence, NEW j \in DOMAIN Confidence,
                 i < j, Enough(curve, i), Enough(curve, j)
          PROVE  ~ LessAccurate(curve[Confidence[j]], curve[Confidence[i]])
      BY <3>1, <3>2, <3>3, LabelsOrdered
    <3>4. QED BY <3>3 DEF QuotedLabelsOrdered
  <2>4. QED BY <2>1, <2>2, <2>3 DEF ScoreIsEarned
<1>2. QED BY <1>1, ScoringInitInv, ScoringNextInv, PTL DEF ScoringSpec

-----------------------------------------------------------------------------
(* The maintainability set. *)

(* A list of findings that a case may report: no two have one id.           *)
IsReport(list) ==
    /\ list \in Seq(Range(list))
    /\ \A f \in Range(list) : IsRankable(f)
    /\ \A i, j \in DOMAIN list : list[i].id = list[j].id => i = j

(* What stands at a place of a list is one of its values.                   *)
LEMMA RangeIs ==
  ASSUME NEW f, NEW i \in DOMAIN f
  PROVE  f[i] \in Range(f)
  BY DEF Range

(* A value of a list stands at some place of it.                            *)
LEMMA InRange ==
  ASSUME NEW f, NEW x \in Range(f)
  PROVE  \E i \in DOMAIN f : f[i] = x
  BY DEF Range

(* The place of a value is where it stands.                                 *)
LEMMA PlaceIs ==
  ASSUME NEW order, NEW value \in Range(order)
  PROVE  PlaceIn(order, value) \in DOMAIN order /\ order[PlaceIn(order, value)] = value
<1>1. \E i \in DOMAIN order : order[i] = value
  BY InRange
<1>2. QED BY <1>1 DEF PlaceIn

(* The places of the values a finding is given are numbers.                 *)
LEMMA PlacesAreNumbers ==
  /\ \A v \in {"critical", "high", "medium", "low"} : PlaceIn(Severe, v) \in 1..4
  /\ \A v \in Range(Sure) : PlaceIn(Sure, v) \in Int
  /\ \A v \in Range(Reached) : PlaceIn(Reached, v) \in Int
  /\ \A v \in {"local", "function", "cross_module"} : PlaceIn(Effort, v) \in Int
<1>1. /\ DOMAIN Severe = 1..4 /\ DOMAIN Sure = 1..3 /\ DOMAIN Reached = 1..3
      /\ DOMAIN Effort = 1..3
  BY DEF Severe, Sure, Reached, Effort
<1>2. {"critical", "high", "medium", "low"} \subseteq Range(Severe)
  <2>1. /\ Severe[1] = "critical" /\ Severe[2] = "high" /\ Severe[3] = "medium"
        /\ Severe[4] = "low"
    BY DEF Severe
  <2>2. 1 \in DOMAIN Severe /\ 2 \in DOMAIN Severe /\ 3 \in DOMAIN Severe /\ 4 \in DOMAIN Severe
    BY <1>1
  <2>3. QED BY <2>1, <2>2, RangeIs
<1>3. {"local", "function", "cross_module"} \subseteq Range(Effort)
  <2>1. Effort[1] = "local" /\ Effort[2] = "function" /\ Effort[3] = "cross_module"
    BY DEF Effort
  <2>2. 1 \in DOMAIN Effort /\ 2 \in DOMAIN Effort /\ 3 \in DOMAIN Effort
    BY <1>1
  <2>3. QED BY <2>1, <2>2, RangeIs
<1>4. \A v \in {"critical", "high", "medium", "low"} : PlaceIn(Severe, v) \in 1..4
  <2>1. SUFFICES ASSUME NEW v \in {"critical", "high", "medium", "low"}
                 PROVE  PlaceIn(Severe, v) \in 1..4
    OBVIOUS
  <2>2. v \in Range(Severe)
    BY <1>2
  <2>3. QED BY <1>1, <2>2, PlaceIs
<1>5. \A v \in Range(Sure) : PlaceIn(Sure, v) \in 1..3
  BY <1>1, PlaceIs
<1>6. \A v \in Range(Reached) : PlaceIn(Reached, v) \in 1..3
  BY <1>1, PlaceIs
<1>7. \A v \in {"local", "function", "cross_module"} : PlaceIn(Effort, v) \in 1..3
  <2>1. SUFFICES ASSUME NEW v \in {"local", "function", "cross_module"}
                 PROVE  PlaceIn(Effort, v) \in 1..3
    OBVIOUS
  <2>2. v \in Range(Effort)
    BY <1>3
  <2>3. QED BY <1>1, <2>2, PlaceIs
<1>8. QED BY <1>4, <1>5, <1>6, <1>7

(* Severity is a weakness's own, or the ceiling of its impact when that is  *)
(* further down.                                                            *)
LEMMA SeverityIs ==
  ASSUME NEW f, IsRankable(f)
  PROVE  /\ PlaceIn(Severe, FamilySeverity(f.family)) \in 1..4
         /\ PlaceIn(Severe, SeverityOf(f)) \in 1..4
         /\ PlaceIn(Severe, FamilySeverity(f.family)) <= PlaceIn(Severe, SeverityOf(f))
<1>1. FamilySeverity(f.family) \in {"critical", "high", "medium", "low"}
  BY DEF FamilySeverity, IsRankable
<1>2. ImpactCeiling(f.impact) \in {"critical", "high", "medium", "low"}
  BY DEF ImpactCeiling, IsRankable
<1>3. /\ PlaceIn(Severe, FamilySeverity(f.family)) \in 1..4
      /\ PlaceIn(Severe, ImpactCeiling(f.impact)) \in 1..4
  BY <1>1, <1>2, PlacesAreNumbers
<1>4. CASE PlaceIn(Severe, FamilySeverity(f.family)) >= PlaceIn(Severe, ImpactCeiling(f.impact))
  BY <1>3, <1>4 DEF SeverityOf
<1>5. CASE ~(PlaceIn(Severe, FamilySeverity(f.family)) >= PlaceIn(Severe, ImpactCeiling(f.impact)))
  BY <1>3, <1>5 DEF SeverityOf
<1>6. QED BY <1>4, <1>5

(* The six values a finding is ranked by.                                   *)
LEMMA KeyIs ==
  ASSUME NEW f, IsRankable(f)
  PROVE  /\ RankKey(f) \in [1..6 -> Int]
         /\ RankKey(f)[1] = PlaceIn(Severe, SeverityOf(f))
         /\ RankKey(f)[2] = PlaceIn(Sure, f.confidence)
         /\ RankKey(f)[3] = PlaceIn(Reached, f.reach)
         /\ RankKey(f)[4] = 0 - Agreement(f)
         /\ RankKey(f)[5] = PlaceIn(Effort, EffortOf(f))
         /\ RankKey(f)[6] = f.id
<1> DEFINE a == PlaceIn(Severe, SeverityOf(f))
           b == PlaceIn(Sure, f.confidence)
           c == PlaceIn(Reached, f.reach)
           d == 0 - Agreement(f)
           e == PlaceIn(Effort, EffortOf(f))
<1>1. a \in Int
  BY SeverityIs
<1>2. b \in Int /\ c \in Int
  BY PlacesAreNumbers DEF IsRankable
<1>3. d \in Int
  <2> DEFINE mine == {t \in f.tools : t[1] \in AnalyzerProducers}
             names == {t[2] : t \in mine}
             name == [t \in mine |-> t[2]]
  <2>1. IsFiniteSet(mine)
    <3>1. IsFiniteSet(f.tools) /\ mine \subseteq f.tools
      BY DEF IsRankable
    <3>2. QED BY <3>1, CountRest
  <2>2. name \in [mine -> names] /\ \A z \in names : \E t \in mine : name[t] = z
    OBVIOUS
  <2> HIDE DEF name
  <2>3. IsFiniteSet(names)
    BY <2>1, <2>2, CountImage
  <2>4. Cardinality(names) \in Nat
    BY <2>3, FS_CardinalityType
  <2>5. Agreement(f) = Cardinality(names)
    BY DEF Agreement
  <2>6. QED BY <2>4, <2>5
<1>4. e \in Int
  <2>1. EffortOf(f) \in {"local", "function", "cross_module"}
    BY DEF EffortOf
  <2>2. QED BY <2>1, PlacesAreNumbers
<1>5. f.id \in Int
  BY DEF IsRankable
<1> DEFINE five == <<a, b, c, d, e>>
           last == f.id
<1>6. RankKey(f) = Append(five, last) /\ last \in Int
  BY <1>5 DEF RankKey, RankInputs
<1> HIDE DEF a, b, c, d, e, last
<1>7. Len(five) = 5 /\ five[1] = a /\ five[2] = b /\ five[3] = c /\ five[4] = d /\ five[5] = e
  OBVIOUS
<1>8. five \in Seq(Int)
  BY <1>1, <1>2, <1>3, <1>4
<1> DEFINE key == Append(five, last)
<1> HIDE DEF five
<1>9. /\ key \in Seq(Int) /\ Len(key) = Len(five) + 1 /\ key[Len(five) + 1] = last
      /\ \A i \in 1..Len(five) : key[i] = five[i]
  BY <1>6, <1>8, OneMore
<1> HIDE DEF key
<1>10. /\ key \in [1..6 -> Int]
       /\ key[1] = five[1] /\ key[2] = five[2] /\ key[3] = five[3]
       /\ key[4] = five[4] /\ key[5] = five[5] /\ key[6] = last
  <2>1. key \in Seq(Int) /\ Len(key) = 6 /\ key[6] = last
    BY <1>7, <1>9
  <2>2. key \in [1..6 -> Int]
    BY <2>1, LenProperties
  <2>3. \A i \in 1..5 : key[i] = five[i]
    BY <1>7, <1>9
  <2>4. QED BY <2>1, <2>2, <2>3
<1>11. RankKey(f) = key
  BY <1>6 DEF key
<1>12. /\ RankKey(f) \in [1..6 -> Int]
       /\ RankKey(f)[1] = a /\ RankKey(f)[2] = b /\ RankKey(f)[3] = c
       /\ RankKey(f)[4] = d /\ RankKey(f)[5] = e /\ RankKey(f)[6] = last
  BY <1>7, <1>10, <1>11
<1>13. QED BY <1>12 DEF a, b, c, d, e, last

(* Keys are ordered like words: by the first value in which they differ.    *)
LEMMA KeysOrdered ==
  ASSUME NEW K, K = [1..6 -> Int]
  PROVE  /\ \A p \in K : ~Before(p, p)
         /\ \A p, q, r \in K : Before(p, q) /\ Before(q, r) => Before(p, r)
         /\ \A p, q \in K : p # q => Before(p, q) \/ Before(q, p)
<1>1. ASSUME NEW p \in K PROVE ~Before(p, p)
  BY DEF Before
<1>2. ASSUME NEW p \in K, NEW q \in K, NEW r \in K, Before(p, q), Before(q, r)
      PROVE  Before(p, r)
  <2>1. DOMAIN p = 1..6 /\ DOMAIN q = 1..6
    OBVIOUS
  <2>2. PICK i \in 1..6 : p[i] < q[i] /\ \A j \in 1..(i - 1) : p[j] = q[j]
    BY <1>2, <2>1 DEF Before
  <2>3. PICK k \in 1..6 : q[k] < r[k] /\ \A j \in 1..(k - 1) : q[j] = r[j]
    BY <1>2, <2>1 DEF Before
  <2>4. CASE i <= k
    <3>1. p[i] < r[i]
      BY <2>2, <2>3, <2>4
    <3>2. \A j \in 1..(i - 1) : p[j] = r[j]
      BY <2>2, <2>3, <2>4
    <3>3. QED BY <2>1, <3>1, <3>2 DEF Before
  <2>5. CASE k < i
    <3>1. p[k] < r[k]
      BY <2>2, <2>3, <2>5
    <3>2. \A j \in 1..(k - 1) : p[j] = r[j]
      BY <2>2, <2>3, <2>5
    <3>3. QED BY <2>1, <3>1, <3>2 DEF Before
  <2>6. QED BY <2>4, <2>5
<1>3. ASSUME NEW p \in K, NEW q \in K, p # q PROVE Before(p, q) \/ Before(q, p)
  <2> DEFINE differ == {i \in 1..6 : p[i] # q[i]}
  <2>1. differ \in SUBSET Nat /\ differ # {}
    BY <1>3
  <2> HIDE DEF differ
  <2>2. PICK i \in differ : \A j \in differ : i <= j
    BY <2>1, LeastNumber
  <2>3. i \in 1..6 /\ p[i] # q[i] /\ \A j \in 1..(i - 1) : p[j] = q[j]
    BY <2>2 DEF differ
  <2>4. DOMAIN p = 1..6 /\ DOMAIN q = 1..6 /\ p[i] \in Int /\ q[i] \in Int
    BY <2>3
  <2>5. CASE p[i] < q[i]
    BY <2>3, <2>4, <2>5 DEF Before
  <2>6. CASE q[i] < p[i]
    BY <2>3, <2>4, <2>6 DEF Before
  <2>7. QED BY <2>3, <2>4, <2>5, <2>6
<1>4. QED BY <1>1, <1>2, <1>3

(* The findings of a set, best first.                                       *)
Higher(S) == {gf \in S \X S : Before(RankKey(gf[1]), RankKey(gf[2]))}

Ranked(S) ==
    [place \in 1..Cardinality(S) |->
        CHOOSE f \in S : Cardinality({g \in S : <<g, f>> \in Higher(S)}) = place - 1]

(* A ranking holds the findings it is of, one at each place.                *)
LEMMA RankingIsOrder ==
  ASSUME NEW S, IsFiniteSet(S), \A f \in S : IsRankable(f),
         \A f, g \in S : f.id = g.id => f = g
  PROVE  StrictlyOrders(Higher(S), S)
<1> DEFINE K == [1..6 -> Int]
<1>1. \A f \in S : RankKey(f) \in K /\ RankKey(f)[6] = f.id
  BY KeyIs
<1>2. /\ \A p \in K : ~Before(p, p)
      /\ \A p, q, r \in K : Before(p, q) /\ Before(q, r) => Before(p, r)
      /\ \A p, q \in K : p # q => Before(p, q) \/ Before(q, p)
  BY KeysOrdered
<1>3. \A f, g \in S : f # g => RankKey(f) # RankKey(g)
  BY <1>1
<1> HIDE DEF K
<1>4. \A f, g \in S : <<f, g>> \in Higher(S) <=> Before(RankKey(f), RankKey(g))
  BY DEF Higher
<1>5. \A f \in S : <<f, f>> \notin Higher(S)
  BY <1>1, <1>2, <1>4
<1>6. \A f, g, h \in S : <<f, g>> \in Higher(S) /\ <<g, h>> \in Higher(S) => <<f, h>> \in Higher(S)
  <2>1. SUFFICES ASSUME NEW f \in S, NEW g \in S, NEW h \in S,
                        <<f, g>> \in Higher(S), <<g, h>> \in Higher(S)
                 PROVE  <<f, h>> \in Higher(S)
    OBVIOUS
  <2>2. Before(RankKey(f), RankKey(g)) /\ Before(RankKey(g), RankKey(h))
    BY <1>4, <2>1
  <2>3. Before(RankKey(f), RankKey(h))
    BY <1>1, <1>2, <2>2
  <2>4. QED BY <1>4, <2>3
<1>7. \A f, g \in S : f # g => <<f, g>> \in Higher(S) \/ <<g, f>> \in Higher(S)
  BY <1>1, <1>2, <1>3, <1>4
<1>8. QED BY <1>5, <1>6, <1>7 DEF StrictlyOrders

(* A report is a list of findings, one at each of its places.               *)
LEMMA ReportIs ==
  ASSUME NEW list, IsReport(list)
  PROVE  /\ Len(list) \in Nat /\ DOMAIN list = 1..Len(list)
         /\ IsFiniteSet(Range(list)) /\ Cardinality(Range(list)) = Len(list)
         /\ \A f, g \in Range(list) : f.id = g.id => f = g
         /\ \A i, j \in DOMAIN list : list[i] = list[j] => i = j
<1> DEFINE S == Range(list)
<1>1. list \in Seq(S)
  BY DEF IsReport
<1> HIDE DEF S
<1>2. Len(list) \in Nat /\ DOMAIN list = 1..Len(list) /\ list \in [1..Len(list) -> S]
  BY <1>1
<1>3. \A i, j \in DOMAIN list : list[i] = list[j] => i = j
  BY DEF IsReport
<1>4. \A f \in S : \E i \in DOMAIN list : list[i] = f
  BY InRange DEF S
<1>5. IsFiniteSet(1..Len(list)) /\ Cardinality(1..Len(list)) = Len(list)
  BY <1>2, CountUpTo
<1> DEFINE D == 1..Len(list)
<1>6. /\ IsFiniteSet(D) /\ list \in [D -> S] /\ \A x, y \in D : list[x] = list[y] => x = y
      /\ \A z \in S : \E x \in D : list[x] = z
  BY <1>2, <1>3, <1>4, <1>5
<1> HIDE DEF D
<1>7. IsFiniteSet(S) /\ Cardinality(S) = Cardinality(D)
  BY <1>6, CountSame
<1>8. \A f, g \in S : f.id = g.id => f = g
  <2>1. SUFFICES ASSUME NEW f \in S, NEW g \in S, f.id = g.id PROVE f = g
    OBVIOUS
  <2>2. PICK i \in DOMAIN list : list[i] = f
    BY <1>4
  <2>3. PICK j \in DOMAIN list : list[j] = g
    BY <1>4
  <2>4. i = j
    BY <2>1, <2>2, <2>3 DEF IsReport
  <2>5. QED BY <2>2, <2>3, <2>4
<1>9. QED BY <1>2, <1>3, <1>5, <1>7, <1>8 DEF S, D

(* How many come before a finding does not depend on how they are listed.   *)
LEMMA AheadOf ==
  ASSUME NEW list, IsReport(list), NEW i \in DOMAIN list, NEW S, S = Range(list),
         NEW higher, higher = {j \in DOMAIN list :
                               \/ Before(RankKey(list[j]), RankKey(list[i]))
                               \/ RankKey(list[j]) = RankKey(list[i]) /\ j < i}
  PROVE  Cardinality(higher) = Cardinality({g \in S : <<g, list[i]>> \in Higher(S)})
<1> DEFINE above == {g \in S : <<g, list[i]>> \in Higher(S)}
           rank == [j \in higher |-> list[j]]
<1>1. /\ Len(list) \in Nat /\ DOMAIN list = 1..Len(list) /\ IsFiniteSet(S)
      /\ \A f, g \in S : f.id = g.id => f = g
      /\ \A x, y \in DOMAIN list : list[x] = list[y] => x = y
  BY ReportIs
<1>2. \A j \in DOMAIN list : list[j] \in S /\ IsRankable(list[j])
  BY RangeIs DEF IsReport
<1>3. \A j \in DOMAIN list : RankKey(list[j])[6] = list[j].id
  BY <1>2, KeyIs
<1>4. \A j \in DOMAIN list : RankKey(list[j]) = RankKey(list[i]) => j = i
  <2>1. SUFFICES ASSUME NEW j \in DOMAIN list, RankKey(list[j]) = RankKey(list[i]) PROVE j = i
    OBVIOUS
  <2>2. list[j].id = list[i].id
    BY <1>3, <2>1
  <2>3. QED BY <1>1, <1>2, <2>2
<1>5. higher = {j \in DOMAIN list : Before(RankKey(list[j]), RankKey(list[i]))}
  BY <1>1, <1>4
<1>6. \A j \in DOMAIN list : j \in higher <=> list[j] \in above
  BY <1>2, <1>5 DEF Higher
<1>7. rank \in [higher -> above] /\ \A x, y \in higher : rank[x] = rank[y] => x = y
  BY <1>1, <1>5, <1>6
<1>8. \A z \in above : \E x \in higher : rank[x] = z
  <2>1. SUFFICES ASSUME NEW z \in above PROVE \E x \in higher : rank[x] = z
    OBVIOUS
  <2>2. PICK x \in DOMAIN list : list[x] = z
    BY InRange
  <2>3. x \in higher
    BY <1>6, <2>2
  <2>4. QED BY <2>2, <2>3
<1>9. IsFiniteSet(higher)
  <2>1. higher \subseteq 1..Len(list) /\ IsFiniteSet(1..Len(list))
    BY <1>1, <1>5, CountUpTo
  <2>2. QED BY <2>1, CountRest
<1> HIDE DEF above, rank
<1>10. Cardinality(above) = Cardinality(higher)
  BY <1>7, <1>8, <1>9, CountSame
<1>11. QED BY <1>10 DEF above

(* A ranking is the ranking of the set of findings.                         *)
LEMMA RankingOfSet ==
  ASSUME NEW list, IsReport(list), NEW S, S = Range(list)
  PROVE  RankFindings(list) = Ranked(S)
<1> DEFINE n == Len(list)
           less == Higher(S)
           before(f) == {g \in S : <<g, f>> \in less}
           rank == [f \in S |-> Cardinality(before(f)) + 1]
           Ahead(i) == {j \in DOMAIN list :
                          \/ Before(RankKey(list[j]), RankKey(list[i]))
                          \/ RankKey(list[j]) = RankKey(list[i]) /\ j < i}
           shownAt(place) == CHOOSE i \in DOMAIN list : Cardinality(Ahead(i)) = place - 1
           best(place) == CHOOSE f \in S : Cardinality(before(f)) = place - 1
<1>1. /\ n \in Nat /\ DOMAIN list = 1..n /\ IsFiniteSet(S) /\ Cardinality(S) = n
      /\ \A f, g \in S : f.id = g.id => f = g
  BY ReportIs
<1>2. \A f \in S : IsRankable(f)
  BY DEF IsReport
<1>3. StrictlyOrders(less, S)
  BY <1>1, <1>2, RankingIsOrder
<1>4. \A i \in DOMAIN list : list[i] \in S /\ Cardinality(Ahead(i)) = Cardinality(before(list[i]))
  BY AheadOf, RangeIs
<1>5. RankFindings(list) = [place \in DOMAIN list |-> list[shownAt(place)]]
  <2> DEFINE keys == [i \in DOMAIN list |-> RankKey(list[i])]
             A(i) == {j \in DOMAIN list : Before(keys[j], keys[i]) \/ (keys[j] = keys[i] /\ j < i)}
  <2>1. \A i \in DOMAIN list : A(i) = Ahead(i)
    BY Zenon
  <2>2. RankFindings(list) =
          [place \in DOMAIN list |->
             list[CHOOSE i \in DOMAIN list : Cardinality(A(i)) = place - 1]]
    BY DEF RankFindings
  <2> HIDE DEF A, Ahead
  <2>3. QED BY <2>1, <2>2
<1>6. Ranked(S) = [place \in 1..n |-> best(place)]
  BY <1>1 DEF Ranked
<1> HIDE DEF Ahead, less
<1>7. /\ rank \in [S -> 1..Cardinality(S)]
      /\ \A x, y \in S : rank[x] = rank[y] => x = y
      /\ \A i \in 1..Cardinality(S) : \E x \in S : rank[x] = i
      /\ \A x \in S : Cardinality(before(x)) \in Nat /\ rank[x] = Cardinality(before(x)) + 1
  <2>1. rank = [x \in S |-> Cardinality({y \in S : <<y, x>> \in less}) + 1]
    OBVIOUS
  <2> HIDE DEF rank
  <2>2. /\ rank \in [S -> 1..Cardinality(S)]
        /\ \A x, y \in S : rank[x] = rank[y] => x = y
        /\ \A i \in 1..Cardinality(S) : \E x \in S : rank[x] = i
        /\ \A x \in S : /\ Cardinality({y \in S : <<y, x>> \in less}) \in Nat
                         /\ rank[x] = Cardinality({y \in S : <<y, x>> \in less}) + 1
    BY <1>1, <1>3, <2>1, OrderedPlaces
  <2>3. QED BY <2>2
<1> HIDE DEF n, rank, before
<1>8. ASSUME NEW place \in 1..n PROVE list[shownAt(place)] = best(place)
  <2>1. PICK f \in S : rank[f] = place
    BY <1>1, <1>7, <1>8
  <2>2. Cardinality(before(f)) = place - 1
    <3>1. Cardinality(before(f)) \in Nat /\ rank[f] = Cardinality(before(f)) + 1
      BY <1>7
    <3>2. QED BY <2>1, <3>1
  <2>3. best(place) \in S /\ Cardinality(before(best(place))) = place - 1
    BY <2>2
  <2>4. PICK i \in DOMAIN list : list[i] = f
    BY InRange
  <2>5. Cardinality(Ahead(i)) = place - 1
    BY <1>4, <2>2, <2>4
  <2>6. shownAt(place) \in DOMAIN list /\ Cardinality(Ahead(shownAt(place))) = place - 1
    BY <2>5
  <2> DEFINE a == list[shownAt(place)]
             b == best(place)
  <2>7. a \in S /\ Cardinality(before(a)) = place - 1
    BY <1>4, <2>6
  <2>8. b \in S /\ Cardinality(before(b)) = place - 1
    BY <2>3
  <2> HIDE DEF a, b
  <2>9. rank[a] = rank[b]
    BY <1>7, <2>7, <2>8
  <2>10. a = b
    BY <1>7, <2>7, <2>8, <2>9
  <2>11. QED BY <2>10 DEF a, b
<1> HIDE DEF shownAt, best
<1>9. QED BY <1>1, <1>5, <1>6, <1>8

(* An order of a list holds what the list holds.                            *)
LEMMA OrderOfReport ==
  ASSUME NEW list, IsReport(list), NEW order \in Orders(list)
  PROVE  IsReport(order) /\ Range(order) = Range(list)
<1> DEFINE D == DOMAIN list
<1>1. PICK p \in [D -> D] : IsInjective(p) /\ order = [i \in D |-> list[p[i]]]
  BY DEF Orders
<1>2. Len(list) \in Nat /\ D = 1..Len(list)
  BY ReportIs
<1>3. IsFiniteSet(D) /\ \A x, y \in D : p[x] = p[y] => x = y
  BY <1>1, <1>2, CountUpTo DEF IsInjective
<1> HIDE DEF D
<1>4. \A z \in D : \E x \in D : p[x] = z
  BY <1>3, CountInto
<1>5. DOMAIN order = D /\ \A i \in D : p[i] \in D /\ order[i] = list[p[i]]
  BY <1>1
<1>6. Range(order) = Range(list)
  <2>1. ASSUME NEW f \in Range(order) PROVE f \in Range(list)
    <3>1. PICK i \in D : order[i] = f
      BY <1>5, InRange
    <3>2. p[i] \in DOMAIN list /\ list[p[i]] = f
      BY <1>5, <3>1 DEF D
    <3>3. QED BY <3>2, RangeIs
  <2>2. ASSUME NEW f \in Range(list) PROVE f \in Range(order)
    <3>1. PICK z \in D : list[z] = f
      BY InRange DEF D
    <3>2. PICK x \in D : p[x] = z
      BY <1>4
    <3>3. x \in DOMAIN order /\ order[x] = f
      BY <1>5, <3>1, <3>2
    <3>4. QED BY <3>3, RangeIs
  <2>3. QED BY <2>1, <2>2
<1>7. order \in Seq(Range(order))
  <2>1. \A i \in 1..Len(list) : order[i] \in Range(order)
    BY <1>2, <1>5, RangeIs
  <2>2. order \in [1..Len(list) -> Range(order)]
    BY <1>1, <1>2, <2>1
  <2>3. QED BY <1>2, <2>2, SeqDef
<1>8. \A i, j \in DOMAIN order : order[i].id = order[j].id => i = j
  <2>1. SUFFICES ASSUME NEW i \in D, NEW j \in D, order[i].id = order[j].id PROVE i = j
    BY <1>5
  <2>2. p[i] = p[j]
    BY <1>5, <2>1 DEF IsReport, D
  <2>3. QED BY <1>3, <2>2
<1>9. \A f \in Range(order) : IsRankable(f)
  BY <1>6 DEF IsReport
<1>10. QED BY <1>6, <1>7, <1>8, <1>9 DEF IsReport

(* A report is ranked alike in whatever order it came (ranking.py           *)
(* rank_key): the ranking is of the set of its findings.                    *)
LEMMA RankedAlike ==
  ASSUME NEW list, IsReport(list), NEW order \in Orders(list)
  PROVE  RankFindings(order) = RankFindings(list)
<1>1. IsReport(order) /\ Range(order) = Range(list)
  BY OrderOfReport
<1>2. RankFindings(order) = Ranked(Range(order)) /\ RankFindings(list) = Ranked(Range(list))
  BY <1>1, RankingOfSet
<1>3. QED BY <1>1, <1>2

(* What is shown was reported.                                              *)
LEMMA ShownIsReported ==
  ASSUME NEW list, IsReport(list), NEW f \in Range(RankFindings(list))
  PROVE  f \in Range(list)
<1> DEFINE S == Range(list)
           less == Higher(S)
           before(g) == {h \in S : <<h, g>> \in less}
           rank == [g \in S |-> Cardinality(before(g)) + 1]
           best(place) == CHOOSE g \in S : Cardinality(before(g)) = place - 1
<1>1. /\ IsFiniteSet(S) /\ Cardinality(S) \in Nat
      /\ \A g, h \in S : g.id = h.id => g = h
  BY ReportIs
<1>2. StrictlyOrders(less, S)
  BY <1>1, RankingIsOrder DEF IsReport
<1>3. RankFindings(list) = [place \in 1..Cardinality(S) |-> best(place)]
  BY RankingOfSet DEF Ranked
<1> HIDE DEF S, less
<1>4. /\ \A i \in 1..Cardinality(S) : \E x \in S : rank[x] = i
      /\ \A x \in S : Cardinality(before(x)) \in Nat /\ rank[x] = Cardinality(before(x)) + 1
  <2>1. rank = [x \in S |-> Cardinality({y \in S : <<y, x>> \in less}) + 1]
    OBVIOUS
  <2> HIDE DEF rank
  <2>2. /\ \A i \in 1..Cardinality(S) : \E x \in S : rank[x] = i
        /\ \A x \in S : /\ Cardinality({y \in S : <<y, x>> \in less}) \in Nat
                         /\ rank[x] = Cardinality({y \in S : <<y, x>> \in less}) + 1
    BY <1>1, <1>2, <2>1, OrderedPlaces
  <2>3. QED BY <2>2
<1> HIDE DEF rank, before
<1>5. ASSUME NEW place \in 1..Cardinality(S) PROVE best(place) \in S
  <2>1. PICK g \in S : rank[g] = place
    BY <1>4
  <2>2. Cardinality(before(g)) = place - 1
    BY <1>4, <2>1
  <2>3. QED BY <2>2
<1> HIDE DEF best
<1>6. PICK place \in 1..Cardinality(S) : best(place) = f
  BY <1>3, InRange
<1>7. QED BY <1>5, <1>6 DEF S

(* What a model adds to a finding changes its impact and its witnesses, and *)
(* none of the witnesses counts.                                            *)
LEMMA HeardKey ==
  ASSUME NEW f, IsRankable(f), NEW kind \in ImpactKinds
  PROVE  LET h == Heard(f, kind)
         IN  /\ IsRankable(h) /\ h.family = f.family
             /\ \A i \in 2..6 : RankKey(h)[i] = RankKey(f)[i]
<1> DEFINE new == {<<"llm", "model">>, <<"index", "clang">>}
           g == [f EXCEPT !.impact = kind]
           h == [g EXCEPT !.tools = @ \cup new]
<1>1. /\ g.id = f.id /\ g.family = f.family /\ g.impact = kind /\ g.confidence = f.confidence
      /\ g.reach = f.reach /\ g.tools = f.tools /\ g.regions = f.regions
      /\ g \in [id : {f.id}, family : {f.family}, impact : {kind}, confidence : {f.confidence},
                reach : {f.reach}, tools : {f.tools}, regions : {f.regions}]
  BY DEF IsRankable
<1>2. h = Heard(f, kind)
  BY DEF Heard
<1> HIDE DEF g, new
<1>3. /\ h.id = f.id /\ h.family = f.family /\ h.impact = kind /\ h.confidence = f.confidence
      /\ h.reach = f.reach /\ h.tools = f.tools \cup new /\ h.regions = f.regions
      /\ h \in [id : {f.id}, family : {f.family}, impact : {kind}, confidence : {f.confidence},
                reach : {f.reach}, tools : {f.tools \cup new}, regions : {f.regions}]
  BY <1>1
<1> HIDE DEF h
<1>4. IsFiniteSet(f.tools \cup new)
  <2>1. IsFiniteSet(f.tools)
    BY DEF IsRankable
  <2>2. IsFiniteSet(f.tools \cup {<<"llm", "model">>})
    BY <2>1, FS_AddElement
  <2>3. IsFiniteSet((f.tools \cup {<<"llm", "model">>}) \cup {<<"index", "clang">>})
    BY <2>2, FS_AddElement
  <2>4. f.tools \cup new = (f.tools \cup {<<"llm", "model">>}) \cup {<<"index", "clang">>}
    BY DEF new
  <2>5. QED BY <2>3, <2>4
<1>5. IsRankable(h)
  <2>1. kind \in {"code_execution", "memory_corruption", "information_disclosure",
                  "denial_of_service", "resource_exhaustion", "undefined_behavior",
                  "incorrect_result"}
    BY DEF ImpactKinds
  <2>2. h \in [id : {h.id}, family : {h.family}, impact : {h.impact},
               confidence : {h.confidence}, reach : {h.reach}, tools : {h.tools},
               regions : {h.regions}]
    BY <1>3
  <2>3. QED BY <1>3, <1>4, <2>1, <2>2 DEF IsRankable
<1>6. Agreement(h) = Agreement(f)
  <2>1. "llm" \notin AnalyzerProducers /\ "index" \notin AnalyzerProducers
    BY MaintainabilityAssumption
  <2>2. \A t \in new : t[1] \notin AnalyzerProducers
    BY <2>1 DEF new
  <2>3. {t \in h.tools : t[1] \in AnalyzerProducers} = {t \in f.tools : t[1] \in AnalyzerProducers}
    BY <1>3, <2>2
  <2>4. QED BY <2>3 DEF Agreement
<1>7. EffortOf(h) = EffortOf(f)
  BY <1>3 DEF EffortOf
<1>8. /\ RankKey(h)[2] = RankKey(f)[2] /\ RankKey(h)[3] = RankKey(f)[3]
      /\ RankKey(h)[4] = RankKey(f)[4] /\ RankKey(h)[5] = RankKey(f)[5]
      /\ RankKey(h)[6] = RankKey(f)[6]
  <2>1. /\ RankKey(f)[2] = PlaceIn(Sure, f.confidence) /\ RankKey(f)[3] = PlaceIn(Reached, f.reach)
        /\ RankKey(f)[4] = 0 - Agreement(f) /\ RankKey(f)[5] = PlaceIn(Effort, EffortOf(f))
        /\ RankKey(f)[6] = f.id
    BY KeyIs
  <2>2. /\ RankKey(h)[2] = PlaceIn(Sure, h.confidence) /\ RankKey(h)[3] = PlaceIn(Reached, h.reach)
        /\ RankKey(h)[4] = 0 - Agreement(h) /\ RankKey(h)[5] = PlaceIn(Effort, EffortOf(h))
        /\ RankKey(h)[6] = h.id
    BY <1>5, KeyIs
  <2>3. QED BY <1>3, <1>6, <1>7, <2>1, <2>2
<1>9. \A i \in 2..6 : i \in {2, 3, 4, 5, 6}
  OBVIOUS
<1>10. QED BY <1>2, <1>3, <1>5, <1>8, <1>9

(* So it stands behind whatever its weakness alone stood behind.            *)
LEMMA HeardStandsNoHigher ==
  ASSUME NEW f, IsRankable(f), NEW other, IsRankable(other), NEW kind \in ImpactKinds,
         Before(RankKey(other), KeyOfWeakness(f))
  PROVE  Before(RankKey(other), RankKey(Heard(f, kind)))
<1> DEFINE h == Heard(f, kind)
           o == RankKey(other)
           w == KeyOfWeakness(f)
           k == RankKey(h)
<1>1. IsRankable(h) /\ h.family = f.family /\ \A i \in 2..6 : k[i] = RankKey(f)[i]
  BY HeardKey
<1>2. o \in [1..6 -> Int] /\ k \in [1..6 -> Int] /\ RankKey(f) \in [1..6 -> Int]
  BY <1>1, KeyIs
<1>3. /\ w \in [1..6 -> Int] /\ w[1] = PlaceIn(Severe, FamilySeverity(f.family))
      /\ \A i \in 2..6 : w[i] = k[i]
  <2>1. PlaceIn(Severe, FamilySeverity(f.family)) \in Int
    BY SeverityIs
  <2>2. QED BY <1>1, <1>2, <2>1 DEF KeyOfWeakness
<1>4. w[1] <= k[1]
  <2>1. /\ k[1] = PlaceIn(Severe, SeverityOf(h))
        /\ PlaceIn(Severe, FamilySeverity(h.family)) <= PlaceIn(Severe, SeverityOf(h))
    BY <1>1, KeyIs, SeverityIs
  <2>2. QED BY <1>1, <1>3, <2>1
<1>5. Before(o, w)
  OBVIOUS
<1> HIDE DEF h, o, w, k
<1>6. PICK i \in 1..6 : o[i] < w[i] /\ \A j \in 1..(i - 1) : o[j] = w[j]
  <2>1. DOMAIN o = 1..6
    BY <1>2
  <2>2. QED BY <1>5, <2>1 DEF Before
<1>7. Before(o, k)
  <2>1. CASE o[1] < k[1]
    <3>1. 1 \in DOMAIN o /\ \A j \in 1..(1 - 1) : o[j] = k[j]
      BY <1>2
    <3>2. QED BY <2>1, <3>1 DEF Before
  <2>2. CASE ~(o[1] < k[1])
    <3>1. i \in 2..6 /\ o[1] = w[1] /\ w[1] = k[1]
      <4>1. o[1] \in Int /\ w[1] \in Int /\ k[1] \in Int
        BY <1>2, <1>3
      <4>2. i # 1
        BY <1>4, <1>6, <2>2, <4>1
      <4>3. 1 \in 1..(i - 1)
        BY <1>6, <4>2
      <4>4. o[1] = w[1]
        BY <1>6, <4>3
      <4>5. QED BY <1>4, <1>6, <2>2, <4>1, <4>2, <4>4
    <3>2. i \in DOMAIN o /\ o[i] < k[i]
      BY <1>2, <1>3, <1>6, <3>1
    <3>3. \A j \in 1..(i - 1) : o[j] = k[j]
      BY <1>3, <1>6, <3>1
    <3>4. QED BY <3>2, <3>3 DEF Before
  <2>3. QED BY <2>1, <2>2
<1>8. QED BY <1>7 DEF o, k, h

(* A total is that of all keys but one, and the number of that one.         *)
LEMMA TotalButOne ==
  ASSUME NEW S, IsFiniteSet(S), NEW d \in [S -> Nat], NEW x \in S,
         NEW e, e = [y \in S \ {x} |-> d[y]]
  PROVE  IsFiniteSet(S \ {x}) /\ e \in [S \ {x} -> Nat] /\ Total(e) \in Nat
         /\ Total(d) = Total(e) + d[x]
<1> DEFINE R == S \ {x}
<1>1. R \subseteq S /\ S = R \cup {x} /\ x \notin R
  OBVIOUS
<1>2. IsFiniteSet(R)
  BY <1>1, CountRest
<1>3. e \in [R -> Nat] /\ \A y \in R : d[y] = e[y]
  OBVIOUS
<1> HIDE DEF R
<1>4. Total(d) = Total(e) + d[x]
  BY <1>1, <1>2, <1>3, TotalMore
<1>5. Total(e) \in Nat
  BY <1>2, <1>3, TotalIs
<1>6. QED BY <1>2, <1>3, <1>4, <1>5 DEF R

(* Two dictionaries that differ at one key, and two that differ at two.     *)
LEMMA TotalOneChange ==
  ASSUME NEW S, IsFiniteSet(S), NEW d \in [S -> Nat], NEW c \in [S -> Nat], NEW x \in S,
         \A y \in S : y # x => c[y] = d[y]
  PROVE  Total(c) + d[x] = Total(d) + c[x] /\ Total(c) \in Nat /\ Total(d) \in Nat
<1> DEFINE e == [y \in S \ {x} |-> d[y]]
<1>1. e = [y \in S \ {x} |-> c[y]]
  OBVIOUS
<1> HIDE DEF e
<1>2. Total(c) = Total(e) + c[x] /\ Total(e) \in Nat
  BY <1>1, TotalButOne
<1>3. Total(d) = Total(e) + d[x]
  BY TotalButOne DEF e
<1>4. c[x] \in Nat /\ d[x] \in Nat
  OBVIOUS
<1>5. QED BY <1>2, <1>3, <1>4

(* A sum in which two terms are other than in a second one differs by those *)
(* two.                                                                     *)
LEMMA TotalTwoChanges ==
  ASSUME NEW S, IsFiniteSet(S), NEW d \in [S -> Nat], NEW c \in [S -> Nat], NEW x \in S, NEW z \in S,
         x # z, \A y \in S : y # x /\ y # z => c[y] = d[y]
  PROVE  /\ Total(c) + (d[x] + d[z]) = Total(d) + (c[x] + c[z])
         /\ Total(c) \in Nat /\ Total(d) \in Nat
<1> DEFINE m == [y \in S |-> IF y = x THEN c[x] ELSE d[y]]
<1>1. /\ m \in [S -> Nat] /\ m[x] = c[x] /\ m[z] = d[z]
      /\ \A y \in S : y # x => m[y] = d[y]
      /\ \A y \in S : y # z => c[y] = m[y]
  OBVIOUS
<1> HIDE DEF m
<1>2. Total(m) + d[x] = Total(d) + m[x] /\ Total(m) \in Nat /\ Total(d) \in Nat
  BY <1>1, TotalOneChange
<1>3. Total(c) + m[z] = Total(m) + c[z] /\ Total(c) \in Nat
  BY <1>1, TotalOneChange
<1>4. c[x] \in Nat /\ d[x] \in Nat /\ c[z] \in Nat /\ d[z] \in Nat
  OBVIOUS
<1>5. QED BY <1>1, <1>2, <1>3, <1>4

(* The more relevant one is worth more further up.                          *)
LEMMA WorthMoreFirst ==
  ASSUME NEW a \in Nat, NEW b \in Nat, NEW c \in Nat, NEW d \in Nat, a <= b, d <= c
  PROVE  /\ a * c + b * d <= b * c + a * d
         /\ a < b /\ d < c => a * c + b * d < b * c + a * d
<1> DEFINE x == b - a
           y == c - d
<1>1. x \in Nat /\ y \in Nat /\ b = a + x /\ c = d + y
  OBVIOUS
<1>2. x * y \in Nat /\ (x > 0 /\ y > 0 => x * y > 0)
  BY <1>1
<1>3. a < b /\ d < c => x > 0 /\ y > 0
  OBVIOUS
<1> HIDE DEF x, y
<1>4. b * c + a * d = a * c + b * d + x * y
  BY <1>1
<1>5. a * c + b * d \in Nat
  OBVIOUS
<1>6. QED BY <1>2, <1>3, <1>4, <1>5

(* What the first places of a list are worth.                               *)
WorthOf(relevance) == [i \in {k \in DOMAIN relevance : k <= Cut} |-> relevance[i] * Discounts[i]]

(* A place above the cut has a discount that is a positive number.          *)
LEMMA DiscountIs ==
  ASSUME NEW i \in Nat \ {0}, i <= Cut
  PROVE  /\ Discounts[i] \in Nat /\ Discounts[i] > 0
         /\ \A j \in 1..Cut : i < j => Discounts[j] < Discounts[i]
<1>1. /\ Cut \in Nat /\ Discounts \in Seq(Nat \ {0}) /\ Cut <= Len(Discounts)
      /\ \A x, y \in 1..Cut : x < y => Discounts[y] < Discounts[x]
  BY MaintainabilityAssumption
<1>2. i \in 1..Len(Discounts) /\ i \in 1..Cut
  BY <1>1
<1>3. Discounts[i] \in Nat \ {0}
  BY <1>1, <1>2
<1>4. QED BY <1>1, <1>2, <1>3

(* What a ranking gains is the sum, over its places above the cut, of what  *)
(* each is worth.                                                           *)
LEMMA GainIs ==
  ASSUME NEW n \in Nat, NEW r \in [1..n -> Nat], NEW S, S = {k \in 1..n : k <= Cut}
  PROVE  /\ IsFiniteSet(S) /\ WorthOf(r) \in [S -> Nat]
         /\ \A i \in S : WorthOf(r)[i] = r[i] * Discounts[i]
         /\ Gain(FirstOf(r)) = Total(WorthOf(r)) /\ Gain(FirstOf(r)) \in Nat
<1>1. S \subseteq 1..n /\ IsFiniteSet(1..n)
  BY CountUpTo
<1>2. IsFiniteSet(S)
  BY <1>1, CountRest
<1>3. DOMAIN r = 1..n
  OBVIOUS
<1>4. \A i \in S : r[i] * Discounts[i] \in Nat
  <2>1. SUFFICES ASSUME NEW i \in S PROVE r[i] * Discounts[i] \in Nat
    OBVIOUS
  <2>2. i \in Nat \ {0} /\ i <= Cut /\ r[i] \in Nat
    OBVIOUS
  <2>3. Discounts[i] \in Nat
    BY <2>2, DiscountIs
  <2> DEFINE a == r[i]
             b == Discounts[i]
  <2>4. a \in Nat /\ b \in Nat
    BY <2>2, <2>3
  <2> HIDE DEF a, b
  <2>5. a * b \in Nat
    BY <2>4
  <2>6. QED BY <2>5 DEF a, b
<1>5. WorthOf(r) = [i \in S |-> r[i] * Discounts[i]]
  BY <1>3 DEF WorthOf
<1>6. WorthOf(r) \in [S -> Nat] /\ \A i \in S : WorthOf(r)[i] = r[i] * Discounts[i]
  BY <1>4, <1>5
<1>7. Gain(FirstOf(r)) = Total(WorthOf(r))
  <2> DEFINE first == FirstOf(r)
  <2>1. DOMAIN first = S /\ \A i \in S : first[i] = r[i]
    BY <1>3 DEF FirstOf
  <2> HIDE DEF first
  <2>2. [i \in DOMAIN first |-> first[i] * Discounts[i]] = [i \in S |-> r[i] * Discounts[i]]
    BY <2>1
  <2>3. QED BY <1>5, <2>2 DEF Gain, first
<1>8. Total(WorthOf(r)) \in Nat
  BY <1>2, <1>6, TotalIs
<1>9. QED BY <1>2, <1>6, <1>7, <1>8

(* Two places exchanged so that the more relevant comes first.              *)
IsSwap(n, r, i, j, t) ==
    /\ n \in Nat /\ r \in [1..n -> Nat] /\ t \in [1..n -> Nat]
    /\ i \in 1..n /\ j \in 1..n /\ i < j
    /\ r[i] <= r[j] /\ t[i] = r[j] /\ t[j] = r[i]
    /\ \A k \in 1..n : k # i /\ k # j => t[k] = r[k]

(* It gains, and gains strictly when the first of them counts.              *)
LEMMA SwapGains ==
  ASSUME NEW n, NEW r, NEW i, NEW j, NEW t, IsSwap(n, r, i, j, t)
  PROVE  /\ Gain(FirstOf(r)) <= Gain(FirstOf(t))
         /\ i <= Cut /\ r[i] < r[j] => Gain(FirstOf(r)) < Gain(FirstOf(t))
<1> DEFINE S == {k \in 1..n : k <= Cut}
           f == WorthOf(r)
           g == WorthOf(t)
           before == Gain(FirstOf(r))
           after == Gain(FirstOf(t))
<1>1. /\ n \in Nat /\ r \in [1..n -> Nat] /\ t \in [1..n -> Nat]
      /\ i \in 1..n /\ j \in 1..n /\ i < j
      /\ r[i] <= r[j] /\ t[i] = r[j] /\ t[j] = r[i]
      /\ \A k \in 1..n : k # i /\ k # j => t[k] = r[k]
  BY DEF IsSwap
<1>2. /\ IsFiniteSet(S) /\ f \in [S -> Nat] /\ \A k \in S : f[k] = r[k] * Discounts[k]
      /\ before = Total(f) /\ before \in Nat
  BY <1>1, GainIs
<1>3. /\ g \in [S -> Nat] /\ \A k \in S : g[k] = t[k] * Discounts[k]
      /\ after = Total(g) /\ after \in Nat
  BY <1>1, GainIs
<1>4. Cut \in Nat
  BY MaintainabilityAssumption
<1>5. \A k \in 1..n : k \in S <=> k <= Cut
  OBVIOUS
<1>6. r[i] \in Nat /\ r[j] \in Nat /\ r[i] <= r[j] /\ i \in Nat \ {0} /\ j \in Nat \ {0} /\ i < j
  BY <1>1
<1> HIDE DEF S, f, g, before, after
<1>7. \A k \in S : k # i /\ k # j => g[k] = f[k]
  <2>1. S \subseteq 1..n
    BY DEF S
  <2>2. QED BY <1>1, <1>2, <1>3, <2>1
<1>8. CASE ~(i <= Cut)
  <2>1. i \notin S /\ j \notin S
    BY <1>1, <1>4, <1>5, <1>6, <1>8
  <2>2. \A k \in S : g[k] = f[k]
    BY <1>7, <2>1
  <2>3. g = f
    BY <1>2, <1>3, <2>2
  <2>4. before = after
    BY <1>2, <1>3, <2>3
  <2>5. QED BY <1>2, <1>8, <2>4 DEF before, after
<1>9. CASE i <= Cut /\ ~(j <= Cut)
  <2>1. i \in S /\ j \notin S
    BY <1>1, <1>5, <1>9
  <2>2. \A k \in S : k # i => g[k] = f[k]
    BY <1>7, <2>1
  <2>3. after + f[i] = before + g[i]
    <3>1. /\ IsFiniteSet(S) /\ f \in [S -> Nat] /\ g \in [S -> Nat] /\ i \in S
          /\ \A y \in S : y # i => g[y] = f[y]
      BY <1>2, <1>3, <2>1, <2>2
    <3>2. Total(g) + f[i] = Total(f) + g[i]
      BY <3>1, TotalOneChange
    <3>3. QED BY <1>2, <1>3, <3>2
  <2> DEFINE a == r[i]
             b == r[j]
             c == Discounts[i]
             d == 0
  <2>4. c \in Nat /\ c > 0 /\ i \in Nat \ {0}
    BY <1>6, <1>9, DiscountIs
  <2>5. f[i] = a * c /\ g[i] = b * c
    BY <1>1, <1>2, <1>3, <2>1
  <2>6. a \in Nat /\ b \in Nat /\ a <= b
    BY <1>6
  <2> HIDE DEF a, b, c
  <2>7. /\ a * c + b * d <= b * c + a * d
        /\ a < b => a * c + b * d < b * c + a * d
    BY <2>4, <2>6, WorthMoreFirst
  <2>8. a * c \in Nat /\ b * c \in Nat /\ b * d = 0 /\ a * d = 0
    BY <2>4, <2>6
  <2>9. a * c <= b * c /\ (a < b => a * c < b * c)
    BY <2>7, <2>8
  <2>10. before <= after /\ (a < b => before < after)
    BY <1>2, <1>3, <2>3, <2>5, <2>8, <2>9
  <2>11. QED BY <2>10, <1>9 DEF a, b, before, after
<1>10. CASE i <= Cut /\ j <= Cut
  <2>1. i \in S /\ j \in S /\ i # j
    BY <1>1, <1>5, <1>6, <1>10
  <2>2. after + (f[i] + f[j]) = before + (g[i] + g[j])
    <3>1. /\ IsFiniteSet(S) /\ f \in [S -> Nat] /\ g \in [S -> Nat] /\ i \in S /\ j \in S /\ i # j
          /\ \A y \in S : y # i /\ y # j => g[y] = f[y]
      BY <1>2, <1>3, <1>7, <2>1
    <3>2. Total(g) + (f[i] + f[j]) = Total(f) + (g[i] + g[j])
      BY <3>1, TotalTwoChanges
    <3>3. QED BY <1>2, <1>3, <3>2
  <2> DEFINE a == r[i]
             b == r[j]
             c == Discounts[i]
             d == Discounts[j]
  <2>3. i \in Nat \ {0} /\ j \in Nat \ {0} /\ j \in 1..Cut
    BY <1>4, <1>6, <1>10
  <2>4. c \in Nat /\ d \in Nat /\ d < c
    BY <1>6, <1>10, <2>3, DiscountIs
  <2>5. f[i] = a * c /\ f[j] = b * d /\ g[i] = b * c /\ g[j] = a * d
    BY <1>1, <1>2, <1>3, <2>1
  <2>6. a \in Nat /\ b \in Nat /\ a <= b
    BY <1>6
  <2> HIDE DEF a, b, c, d
  <2>7. /\ a * c + b * d <= b * c + a * d
        /\ a < b => a * c + b * d < b * c + a * d
    BY <2>4, <2>6, WorthMoreFirst
  <2>8. a * c \in Nat /\ b * c \in Nat /\ b * d \in Nat /\ a * d \in Nat
    BY <2>4, <2>6
  <2> DEFINE less == a * c + b * d
             more == b * c + a * d
  <2>9. before <= after /\ (a < b => before < after)
    <3>1. f[i] + f[j] = less /\ g[i] + g[j] = more /\ less \in Nat /\ more \in Nat
      BY <2>5, <2>8
    <3>2. less <= more /\ (a < b => less < more)
      BY <2>7
    <3>3. before \in Nat /\ after \in Nat
      BY <1>2, <1>3
    <3> HIDE DEF less, more
    <3>4. after + less = before + more
      BY <2>2, <3>1
    <3>5. QED BY <3>1, <3>2, <3>3, <3>4
  <2>10. QED BY <2>9, <1>10 DEF a, b, before, after
<1>11. QED BY <1>8, <1>9, <1>10

(* A list in another order, and a list sorted.                              *)
Reorders(n, q) == q \in [1..n -> 1..n] /\ \A i, j \in 1..n : q[i] = q[j] => i = j

Reordered(n, s, q) == [i \in 1..n |-> s[q[i]]]

Falls(n, s) == s \in [1..n -> Nat] /\ \A i, j \in 1..n : i < j => s[i] >= s[j]

(* Every place is taken by an order of finitely many places.                *)
LEMMA ReordersOnto ==
  ASSUME NEW n \in Nat, NEW q, Reorders(n, q)
  PROVE  \A k \in 1..n : \E i \in 1..n : q[i] = k
<1> DEFINE D == 1..n
<1>1. IsFiniteSet(D)
  BY CountUpTo
<1>2. q \in [D -> D] /\ \A i, j \in D : q[i] = q[j] => i = j
  BY DEF Reorders
<1> HIDE DEF D
<1>3. \A k \in D : \E i \in D : q[i] = k
  BY <1>1, <1>2, CountInto
<1>4. QED BY <1>3 DEF D

(* Every list can be sorted.                                                *)
LEMMA CanBeSorted ==
  ASSUME NEW n \in Nat, NEW r \in [1..n -> Nat]
  PROVE  \E p : Reorders(n, p) /\ Falls(n, Reordered(n, r, p))
<1> DEFINE S == 1..n
           less == {xy \in S \X S : \/ r[xy[1]] > r[xy[2]]
                                    \/ r[xy[1]] = r[xy[2]] /\ xy[1] < xy[2]}
           place == [x \in S |-> Cardinality({y \in S : <<y, x>> \in less}) + 1]
           p == [k \in S |-> CHOOSE x \in S : place[x] = k]
<1>1. IsFiniteSet(S) /\ Cardinality(S) = n
  BY CountUpTo
<1>2. /\ S \subseteq Nat /\ \A x \in S : r[x] \in Nat
      /\ \A x, y \in S : <<x, y>> \in less <=> r[x] > r[y] \/ (r[x] = r[y] /\ x < y)
  OBVIOUS
<1>3. StrictlyOrders(less, S)
  <2> HIDE DEF less, S
  <2>1. \A x \in S : <<x, x>> \notin less
    BY <1>2
  <2>2. \A x, y, z \in S : <<x, y>> \in less /\ <<y, z>> \in less => <<x, z>> \in less
    <3>1. SUFFICES ASSUME NEW x \in S, NEW y \in S, NEW z \in S, <<x, y>> \in less, <<y, z>> \in less
                   PROVE  <<x, z>> \in less
      OBVIOUS
    <3>2. r[x] \in Nat /\ r[y] \in Nat /\ r[z] \in Nat /\ x \in Nat /\ y \in Nat /\ z \in Nat
      BY <1>2
    <3>3. /\ r[x] > r[y] \/ (r[x] = r[y] /\ x < y)
          /\ r[y] > r[z] \/ (r[y] = r[z] /\ y < z)
      BY <1>2, <3>1
    <3>4. r[x] > r[z] \/ (r[x] = r[z] /\ x < z)
      BY <3>2, <3>3
    <3>5. QED BY <1>2, <3>4
  <2>3. \A x, y \in S : x # y => <<x, y>> \in less \/ <<y, x>> \in less
    <3>1. SUFFICES ASSUME NEW x \in S, NEW y \in S, x # y
                   PROVE  <<x, y>> \in less \/ <<y, x>> \in less
      OBVIOUS
    <3>2. r[x] \in Nat /\ r[y] \in Nat /\ x \in Nat /\ y \in Nat
      BY <1>2
    <3>3. \/ r[x] > r[y] \/ (r[x] = r[y] /\ x < y)
          \/ r[y] > r[x] \/ (r[y] = r[x] /\ y < x)
      BY <3>1, <3>2
    <3>4. QED BY <1>2, <3>3
  <2>4. QED BY <2>1, <2>2, <2>3 DEF StrictlyOrders
<1> HIDE DEF S, less
<1>4. place = [x \in S |-> Cardinality({y \in S : <<y, x>> \in less}) + 1]
  OBVIOUS
<1> HIDE DEF place
<1>5. /\ place \in [S -> 1..Cardinality(S)]
      /\ \A x, y \in S : <<x, y>> \in less => place[x] < place[y]
      /\ \A i \in 1..Cardinality(S) : \E x \in S : place[x] = i
  <2>1. IsFiniteSet(S)
    BY <1>1
  <2>2. QED BY <1>3, <1>4, <2>1, OrderedPlaces
<1>6. \A k \in S : p[k] \in S /\ place[p[k]] = k
  <2>1. S = 1..Cardinality(S)
    BY <1>1 DEF S
  <2>2. \A k \in S : \E x \in S : place[x] = k
    BY <1>5, <2>1
  <2>3. QED BY <2>2
<1>7. p = [k \in S |-> p[k]]
  OBVIOUS
<1> HIDE DEF p
<1>8. Reorders(n, p)
  <2>1. p \in [S -> S]
    BY <1>6, <1>7
  <2>2. \A i, j \in S : p[i] = p[j] => i = j
    BY <1>6
  <2>3. QED BY <2>1, <2>2 DEF Reorders, S
<1>9. ASSUME NEW i \in S, NEW j \in S, i < j PROVE r[p[i]] >= r[p[j]]
  <2>1. p[i] \in S /\ p[j] \in S /\ place[p[i]] = i /\ place[p[j]] = j
    BY <1>6
  <2>2. i \in Nat /\ j \in Nat
    BY <1>2
  <2>3. p[i] # p[j]
    BY <1>9, <2>1, <2>2
  <2>4. <<p[j], p[i]>> \notin less
    <3>1. ASSUME <<p[j], p[i]>> \in less PROVE FALSE
      <4>1. place[p[j]] < place[p[i]]
        BY <1>5, <2>1, <3>1
      <4>2. j < i
        BY <2>1, <4>1
      <4>3. QED BY <1>9, <2>2, <4>2
    <3>2. QED BY <3>1
  <2>5. <<p[i], p[j]>> \in less
    BY <1>3, <2>1, <2>3, <2>4 DEF StrictlyOrders
  <2>6. r[p[i]] > r[p[j]] \/ r[p[i]] = r[p[j]]
    BY <1>2, <2>1, <2>5
  <2>7. r[p[i]] \in Nat /\ r[p[j]] \in Nat
    BY <1>2, <2>1
  <2>8. QED BY <2>6, <2>7
<1>10. Falls(n, Reordered(n, r, p))
  <2> DEFINE s == Reordered(n, r, p)
  <2>1. s = [i \in S |-> r[p[i]]]
    BY DEF Reordered, S
  <2> HIDE DEF s
  <2>2. s \in [S -> Nat]
    BY <1>2, <1>6, <2>1
  <2>3. \A i, j \in S : i < j => s[i] >= s[j]
    BY <1>9, <2>1
  <2>4. QED BY <2>2, <2>3 DEF Falls, S, s
<1>11. QED BY <1>8, <1>10

(* The ideal order is sorted, and the given one an order of it.             *)
LEMMA DescendingIs ==
  ASSUME NEW n \in Nat, NEW r \in [1..n -> Nat], NEW s, s = Descending(r)
  PROVE  Falls(n, s) /\ \E q : Reorders(n, q) /\ r = Reordered(n, s, q)
<1>1. DOMAIN r = 1..n
  OBVIOUS
<1>2. \A order : order \in Orders(r) <=> \E p : Reorders(n, p) /\ order = Reordered(n, r, p)
  <2>1. Orders(r) = {[i \in 1..n |-> r[p[i]]] : p \in {q \in [1..n -> 1..n] : IsInjective(q)}}
    BY <1>1 DEF Orders
  <2>2. \A q \in [1..n -> 1..n] : IsInjective(q) <=> \A i, j \in 1..n : q[i] = q[j] => i = j
    BY DEF IsInjective
  <2>3. \A p : p \in {q \in [1..n -> 1..n] : IsInjective(q)} <=> Reorders(n, p)
    BY <2>2 DEF Reorders
  <2>4. Orders(r) = {Reordered(n, r, p) : p \in {q \in [1..n -> 1..n] : IsInjective(q)}}
    BY <2>1 DEF Reordered
  <2>5. QED BY <2>3, <2>4
<1>3. \E order \in Orders(r) : \A i, j \in DOMAIN r : i < j => order[i] >= order[j]
  <2>1. PICK p : Reorders(n, p) /\ Falls(n, Reordered(n, r, p))
    BY CanBeSorted
  <2>2. Reordered(n, r, p) \in Orders(r)
    BY <1>2, <2>1
  <2>3. \A i, j \in DOMAIN r : i < j => Reordered(n, r, p)[i] >= Reordered(n, r, p)[j]
    BY <1>1, <2>1 DEF Falls
  <2>4. QED BY <2>2, <2>3
<1>4. s \in Orders(r) /\ \A i, j \in 1..n : i < j => s[i] >= s[j]
  BY <1>1, <1>3 DEF Descending
<1>5. PICK p : Reorders(n, p) /\ s = Reordered(n, r, p)
  BY <1>2, <1>4
<1>6. s \in [1..n -> Nat] /\ \A i \in 1..n : s[i] = r[p[i]]
  BY <1>5 DEF Reorders, Reordered
<1>7. Falls(n, s)
  BY <1>4, <1>6 DEF Falls
<1> DEFINE q == [k \in 1..n |-> CHOOSE i \in 1..n : p[i] = k]
<1>8. \A k \in 1..n : \E i \in 1..n : p[i] = k
  BY <1>5, ReordersOnto
<1>9. q \in [1..n -> 1..n] /\ \A k \in 1..n : p[q[k]] = k
  BY <1>8
<1> HIDE DEF q
<1>10. Reorders(n, q)
  BY <1>9 DEF Reorders
<1>11. r = Reordered(n, s, q)
  <2>1. \A k \in 1..n : r[k] = s[q[k]]
    BY <1>6, <1>9
  <2>2. Reordered(n, s, q) = [k \in 1..n |-> s[q[k]]]
    BY DEF Reordered
  <2>3. QED BY <2>1, <2>2
<1>12. QED BY <1>7, <1>10, <1>11

(* One more place put right.                                                *)
LEMMA OnePlaceRight ==
  ASSUME NEW n \in Nat, NEW s, Falls(n, s), NEW m \in 1..n, NEW q, Reorders(n, q),
         \A i \in 1..(m - 1) : q[i] = i
  PROVE  \E p : /\ Reorders(n, p) /\ \A i \in 1..m : p[i] = i
                /\ Gain(FirstOf(Reordered(n, s, q))) <= Gain(FirstOf(Reordered(n, s, p)))
<1> DEFINE t == Reordered(n, s, q)
<1>1. q \in [1..n -> 1..n] /\ \A i, j \in 1..n : q[i] = q[j] => i = j
  BY DEF Reorders
<1>2. s \in [1..n -> Nat] /\ \A i, j \in 1..n : i < j => s[i] >= s[j]
  BY DEF Falls
<1>3. t \in [1..n -> Nat] /\ \A i \in 1..n : t[i] = s[q[i]]
  BY <1>1, <1>2 DEF Reordered
<1> HIDE DEF t
<1>4. CASE q[m] = m
  <2>1. \A i \in 1..m : q[i] = i
    <3>1. \A i \in 1..m : i \in 1..(m - 1) \/ i = m
      OBVIOUS
    <3>2. QED BY <1>4, <3>1
  <2>2. Gain(FirstOf(t)) <= Gain(FirstOf(t))
    <3>1. Gain(FirstOf(t)) \in Nat
      BY <1>3, GainIs
    <3>2. QED BY <3>1
  <2>3. QED BY <2>1, <2>2 DEF t
<1>5. CASE q[m] # m
  <2>1. PICK j \in 1..n : q[j] = m
    BY ReordersOnto
  <2>2. m < j
    <3>1. j # m
      BY <1>5, <2>1
    <3>2. j \notin 1..(m - 1)
      BY <2>1, <3>1
    <3>3. QED BY <3>1, <3>2
  <2>3. m < q[m]
    <3>1. q[m] \in 1..n
      BY <1>1
    <3>2. q[m] \notin 1..(m - 1)
      <4>1. ASSUME q[m] \in 1..(m - 1) PROVE FALSE
        <5>1. q[q[m]] = q[m]
          BY <4>1
        <5>2. q[m] = m
          BY <1>1, <3>1, <5>1
        <5>3. QED BY <1>5, <5>2
      <4>2. QED BY <4>1
    <3>3. QED BY <1>5, <3>1, <3>2
  <2> DEFINE p == [k \in 1..n |-> IF k = m THEN m ELSE IF k = j THEN q[m] ELSE q[k]]
             u == Reordered(n, s, p)
  <2>4. /\ p \in [1..n -> 1..n] /\ p[m] = m /\ p[j] = q[m]
        /\ \A k \in 1..n : k # m /\ k # j => p[k] = q[k]
    BY <1>1, <2>2
  <2> HIDE DEF p
  <2>5. \A a, b \in 1..n : p[a] = p[b] => a = b
    <3>1. SUFFICES ASSUME NEW a \in 1..n, NEW b \in 1..n, a # b PROVE p[a] # p[b]
      OBVIOUS
    <3> DEFINE old(k) == IF k = m THEN j ELSE IF k = j THEN m ELSE k
    <3>2. \A k \in 1..n : old(k) \in 1..n /\ p[k] = q[old(k)]
      BY <2>1, <2>4
    <3>3. old(a) # old(b)
      BY <2>2, <3>1
    <3>4. old(a) \in 1..n /\ old(b) \in 1..n /\ p[a] = q[old(a)] /\ p[b] = q[old(b)]
      BY <3>2
    <3> HIDE DEF old
    <3>5. QED BY <1>1, <3>3, <3>4
  <2>6. \A i \in 1..m : p[i] = i
    <3>1. SUFFICES ASSUME NEW i \in 1..m PROVE p[i] = i
      OBVIOUS
    <3>2. CASE i = m
      BY <2>4, <3>2
    <3>3. CASE i \in 1..(m - 1)
      <4>1. i \in 1..n /\ i # m /\ i # j
        BY <2>2, <3>3
      <4>2. QED BY <2>4, <3>3, <4>1
    <3>4. QED BY <3>2, <3>3
  <2>7. u \in [1..n -> Nat] /\ \A i \in 1..n : u[i] = s[p[i]]
    BY <1>2, <2>4 DEF Reordered
  <2> HIDE DEF u
  <2>8. IsSwap(n, t, m, j, u)
    <3>1. t[m] = s[q[m]] /\ t[j] = s[m] /\ u[m] = s[m] /\ u[j] = s[q[m]]
      BY <1>3, <2>1, <2>4, <2>7
    <3>2. s[q[m]] <= s[m]
      <4>1. q[m] \in 1..n /\ m \in 1..n
        BY <1>1
      <4>2. s[m] >= s[q[m]]
        BY <1>2, <2>3, <4>1
      <4>3. s[m] \in Nat /\ s[q[m]] \in Nat
        BY <1>2, <4>1
      <4>4. QED BY <4>2, <4>3
    <3>3. \A k \in 1..n : k # m /\ k # j => u[k] = t[k]
      <4>1. SUFFICES ASSUME NEW k \in 1..n, k # m, k # j PROVE u[k] = t[k]
        OBVIOUS
      <4>2. p[k] = q[k]
        BY <2>4, <4>1
      <4>3. u[k] = s[p[k]] /\ t[k] = s[q[k]]
        BY <1>3, <2>7
      <4>4. QED BY <4>2, <4>3
    <3>4. QED BY <1>3, <2>2, <2>7, <3>1, <3>2, <3>3 DEF IsSwap
  <2>9. Gain(FirstOf(t)) <= Gain(FirstOf(u))
    BY <2>8, SwapGains
  <2>10. Reorders(n, p)
    BY <2>4, <2>5 DEF Reorders
  <2>11. QED BY <2>6, <2>9, <2>10 DEF t, u
<1>6. QED BY <1>4, <1>5

(* No order gains more than the sorted one.                                 *)
LEMMA IdealIsMost ==
  ASSUME NEW n \in Nat, NEW s, Falls(n, s), NEW q, Reorders(n, q)
  PROVE  Gain(FirstOf(Reordered(n, s, q))) <= Gain(FirstOf(s))
<1> DEFINE gain(p) == Gain(FirstOf(Reordered(n, s, p)))
           arranged == {m \in 0..n : \E p : /\ Reorders(n, p) /\ \A i \in 1..m : p[i] = i
                                         /\ gain(q) <= gain(p)}
<1>1. \A p : Reorders(n, p) => gain(p) \in Nat
  <2>1. SUFFICES ASSUME NEW p, Reorders(n, p) PROVE gain(p) \in Nat
    OBVIOUS
  <2>2. Reordered(n, s, p) \in [1..n -> Nat]
    BY <2>1 DEF Reorders, Reordered, Falls
  <2>3. QED BY <2>2, GainIs
<1>2. 0 \in arranged
  <2>1. gain(q) \in Nat
    BY <1>1
  <2>2. gain(q) <= gain(q)
    <3> HIDE DEF gain
    <3>1. QED BY <2>1
  <2>3. QED BY <2>2
<1>3. ASSUME NEW m \in 1..n, m - 1 \in arranged PROVE m \in arranged
  <2>1. PICK p : /\ Reorders(n, p) /\ \A i \in 1..(m - 1) : p[i] = i
                 /\ gain(q) <= gain(p)
    BY <1>3
  <2>2. PICK b : /\ Reorders(n, b) /\ \A i \in 1..m : b[i] = i
                 /\ gain(p) <= gain(b)
    BY <2>1, OnePlaceRight
  <2>3. gain(q) \in Nat /\ gain(p) \in Nat /\ gain(b) \in Nat
    BY <1>1, <2>1, <2>2
  <2>4. gain(q) <= gain(b)
    <3> HIDE DEF gain
    <3>1. QED BY <2>1, <2>2, <2>3
  <2>5. QED BY <2>2, <2>4
<1> HIDE DEF arranged
<1>4. \A m \in 0..n : m \in arranged
  BY <1>2, <1>3, UpTo
<1>5. n \in arranged
  BY <1>4
<1>6. PICK p : Reorders(n, p) /\ (\A i \in 1..n : p[i] = i) /\ gain(q) <= gain(p)
  BY <1>5 DEF arranged
<1>7. Reordered(n, s, p) = s
  BY <1>6 DEF Reordered, Falls
<1>8. QED BY <1>6, <1>7

(* Full marks leave nothing more relevant below the cut.                    *)
LEMMA FullGainIsSorted ==
  ASSUME NEW r \in Seq(Nat), Whole(Ndcg(r)),
         NEW i \in DOMAIN r, NEW j \in DOMAIN r, i < j, i <= Cut
  PROVE  r[i] >= r[j]
<1> DEFINE n == Len(r)
           s == Descending(r)
           mine == Gain(FirstOf(r))
           ideal == Gain(FirstOf(s))
<1>1. n \in Nat /\ r \in [1..n -> Nat] /\ DOMAIN r = 1..n
  BY LenProperties
<1> HIDE DEF n
<1>2. Falls(n, s) /\ \E q : Reorders(n, q) /\ r = Reordered(n, s, q)
  BY <1>1, DescendingIs
<1>3. mine \in Nat /\ ideal \in Nat
  <2>1. s \in [1..n -> Nat]
    BY <1>2 DEF Falls
  <2> HIDE DEF s
  <2>2. QED BY <1>1, <2>1, GainIs
<1>4. ideal <= mine
  <2>1. Ndcg(r) = IF ideal = 0 THEN <<1, 1>> ELSE <<mine, ideal>>
    BY DEF Ndcg, IdealGain
  <2> HIDE DEF ideal, mine
  <2>2. CASE ideal = 0
    BY <1>3, <2>2
  <2>3. CASE ideal # 0
    <3>1. Ndcg(r) = <<mine, ideal>>
      BY <2>1, <2>3
    <3>2. mine = ideal
      BY <3>1 DEF Whole
    <3>3. QED BY <1>3, <3>2
  <2>4. QED BY <2>2, <2>3
<1>5. ASSUME r[i] < r[j] PROVE FALSE
  <2> DEFINE t == [k \in 1..n |-> IF k = i THEN r[j] ELSE IF k = j THEN r[i] ELSE r[k]]
             yours == Gain(FirstOf(t))
  <2>1. IsSwap(n, r, i, j, t)
    <3>1. /\ t \in [1..n -> Nat] /\ t[i] = r[j] /\ t[j] = r[i]
          /\ \A k \in 1..n : k # i /\ k # j => t[k] = r[k]
      BY <1>1
    <3>2. r[i] \in Nat /\ r[j] \in Nat /\ r[i] <= r[j]
      BY <1>1, <1>5
    <3> HIDE DEF t
    <3>3. QED BY <1>1, <3>1, <3>2 DEF IsSwap
  <2>2. PICK q : Reorders(n, q) /\ r = Reordered(n, s, q)
    BY <1>2
  <2> DEFINE p == [k \in 1..n |-> IF k = i THEN q[j] ELSE IF k = j THEN q[i] ELSE q[k]]
  <2>3. q \in [1..n -> 1..n] /\ \A a, b \in 1..n : q[a] = q[b] => a = b
    BY <2>2 DEF Reorders
  <2>4. p \in [1..n -> 1..n]
    BY <1>1, <2>3
  <2>5. \A a, b \in 1..n : p[a] = p[b] => a = b
    <3>1. SUFFICES ASSUME NEW a \in 1..n, NEW b \in 1..n, a # b PROVE p[a] # p[b]
      OBVIOUS
    <3> DEFINE old(k) == IF k = i THEN j ELSE IF k = j THEN i ELSE k
    <3>2. \A k \in 1..n : old(k) \in 1..n /\ p[k] = q[old(k)]
      BY <1>1
    <3>3. old(a) # old(b)
      BY <3>1
    <3>4. old(a) \in 1..n /\ old(b) \in 1..n /\ p[a] = q[old(a)] /\ p[b] = q[old(b)]
      BY <3>2
    <3> HIDE DEF old, p
    <3>5. QED BY <2>3, <3>3, <3>4
  <2>6. Reorders(n, p)
    BY <2>4, <2>5 DEF Reorders
  <2>7. t = Reordered(n, s, p)
    <3> HIDE DEF s
    <3>1. \A k \in 1..n : r[k] = s[q[k]]
      BY <2>2 DEF Reordered
    <3>2. \A k \in 1..n : t[k] = s[p[k]]
      BY <1>1, <3>1
    <3>3. t = [k \in 1..n |-> t[k]]
      OBVIOUS
    <3> HIDE DEF t, p
    <3>4. QED BY <3>2, <3>3 DEF Reordered
  <2> HIDE DEF t, p, s
  <2>8. yours <= ideal
    BY <1>1, <1>2, <2>6, <2>7, IdealIsMost
  <2>9. mine < yours
    BY <1>5, <2>1, SwapGains
  <2>10. t \in [1..n -> Nat]
    BY <2>1 DEF IsSwap
  <2>11. yours \in Nat
    BY <1>1, <2>10, GainIs
  <2> HIDE DEF mine, yours, ideal
  <2>12. QED BY <1>3, <1>4, <2>8, <2>9, <2>11
<1>6. r[i] \in Nat /\ r[j] \in Nat
  BY <1>1
<1>7. QED BY <1>5, <1>6

(* Two finite sets overlap fully just when they are one.                    *)
LEMMA FullOverlap ==
  ASSUME NEW E, NEW A, IsFiniteSet(E), IsFiniteSet(A)
  PROVE  2 * Cardinality(E \cap A) = Cardinality(E) + Cardinality(A) <=> E = A
<1> DEFINE C == E \cap A
           L == E \ C
           R == A \ C
<1>1. C \subseteq E /\ C \subseteq A
  OBVIOUS
<1>2. E = A <=> L = {} /\ R = {}
  OBVIOUS
<1>3. /\ IsFiniteSet(L) /\ Cardinality(C) \in Nat /\ Cardinality(L) \in Nat
      /\ Cardinality(E) = Cardinality(C) + Cardinality(L)
  <2> HIDE DEF C
  <2>1. QED BY <1>1, CountRest
<1>4. /\ IsFiniteSet(R) /\ Cardinality(R) \in Nat
      /\ Cardinality(A) = Cardinality(C) + Cardinality(R)
  <2> HIDE DEF C
  <2>1. QED BY <1>1, CountRest
<1> HIDE DEF C, L, R
<1>5. (L = {} <=> Cardinality(L) = 0) /\ (R = {} <=> Cardinality(R) = 0)
  BY <1>3, <1>4, FS_EmptySet
<1>6. 2 * Cardinality(C) = Cardinality(E) + Cardinality(A)
        <=> Cardinality(L) = 0 /\ Cardinality(R) = 0
  BY <1>3, <1>4
<1>7. 2 * Cardinality(C) = Cardinality(E) + Cardinality(A) <=> E = A
  BY <1>2, <1>5, <1>6, Zenon
<1>8. QED BY <1>7 DEF C

(* The labelled answers, and the fractions of two sets of answers.          *)
AnswersOf(set) ==
    [case \in {label.case : label \in set} |-> (CHOOSE label \in set : label.case = case).category]

FractionOf(expected, actual, c) ==
    <<2 * Cardinality(CasesOf(expected, c) \cap CasesOf(actual, c)),
      Cardinality(CasesOf(expected, c)) + Cardinality(CasesOf(actual, c))>>

FractionsOf(expected, actual) ==
    [c \in {x \in Categories : CasesOf(expected, x) # {} \/ CasesOf(actual, x) # {}} |->
        FractionOf(expected, actual, c)]

IsAnswers(f) == IsFiniteSet(DOMAIN f) /\ f \in [DOMAIN f -> Categories]

(* A category has full marks exactly when the cases predicted as it are     *)
(* those labelled as it (maintainability.py macro_f1).                      *)
LEMMA WholeMeansSame ==
  ASSUME NEW e, NEW a, IsAnswers(e), IsAnswers(a), NEW c
  PROVE  Whole(FractionOf(e, a, c)) <=> CasesOf(e, c) = CasesOf(a, c)
<1> DEFINE E == CasesOf(e, c)
           A == CasesOf(a, c)
<1>1. E \subseteq DOMAIN e /\ A \subseteq DOMAIN a
  BY DEF CasesOf
<1>2. IsFiniteSet(DOMAIN e) /\ IsFiniteSet(DOMAIN a)
  BY DEF IsAnswers
<1>3. IsFiniteSet(E) /\ IsFiniteSet(A)
  <2> HIDE DEF E, A
  <2>1. QED BY <1>1, <1>2, CountRest
<1>4. Whole(FractionOf(e, a, c)) <=> 2 * Cardinality(E \cap A) = Cardinality(E) + Cardinality(A)
  <2>1. /\ FractionOf(e, a, c)[1] = 2 * Cardinality(E \cap A)
        /\ FractionOf(e, a, c)[2] = Cardinality(E) + Cardinality(A)
    BY DEF FractionOf
  <2>2. QED BY <2>1 DEF Whole
<1> HIDE DEF E, A
<1>5. 2 * Cardinality(E \cap A) = Cardinality(E) + Cardinality(A) <=> E = A
  BY <1>3, FullOverlap
<1>6. QED BY <1>4, <1>5, Zenon DEF E, A

(* Every category gets full marks just when the answers are the labels.     *)
LEMMA AllWholeMeansSame ==
  ASSUME NEW e, NEW a, IsAnswers(e), IsAnswers(a), NEW m, m = FractionsOf(e, a)
  PROVE  (\A c \in DOMAIN m : Whole(m[c])) <=> a = e
<1>1. /\ DOMAIN m = {x \in Categories : CasesOf(e, x) # {} \/ CasesOf(a, x) # {}}
      /\ \A c \in DOMAIN m : m[c] = FractionOf(e, a, c)
  BY DEF FractionsOf
<1>2. \A c : Whole(FractionOf(e, a, c)) <=> CasesOf(e, c) = CasesOf(a, c)
  BY WholeMeansSame
<1>3. ASSUME a = e PROVE \A c \in DOMAIN m : Whole(m[c])
  <2>1. \A c : CasesOf(e, c) = CasesOf(a, c)
    BY <1>3
  <2>2. QED BY <1>1, <1>2, <2>1
<1>4. ASSUME \A c \in DOMAIN m : Whole(m[c]) PROVE a = e
  <2>1. ASSUME NEW c \in Categories PROVE CasesOf(e, c) = CasesOf(a, c)
    <3>1. CASE c \in DOMAIN m
      <4>1. Whole(FractionOf(e, a, c))
        BY <1>1, <1>4, <3>1
      <4>2. QED BY <1>2, <4>1
    <3>2. CASE c \notin DOMAIN m
      BY <1>1, <3>2
    <3>3. QED BY <3>1, <3>2
  <2>2. \A x \in DOMAIN e : x \in CasesOf(e, e[x]) /\ e[x] \in Categories
    BY DEF CasesOf, IsAnswers
  <2>3. \A x \in DOMAIN a : x \in CasesOf(a, a[x]) /\ a[x] \in Categories
    BY DEF CasesOf, IsAnswers
  <2>4. \A x \in DOMAIN e : x \in DOMAIN a /\ a[x] = e[x]
    <3>1. \A x \in DOMAIN e : x \in CasesOf(a, e[x])
      BY <2>1, <2>2
    <3>2. QED BY <3>1 DEF CasesOf
  <2>5. \A x \in DOMAIN a : x \in DOMAIN e
    <3>1. \A x \in DOMAIN a : x \in CasesOf(e, a[x])
      BY <2>1, <2>3
    <3>2. QED BY <3>1 DEF CasesOf
  <2>6. DOMAIN a = DOMAIN e
    BY <2>4, <2>5
  <2>7. e = [x \in DOMAIN e |-> e[x]] /\ a = [x \in DOMAIN a |-> a[x]]
    BY DEF IsAnswers
  <2>8. QED BY <2>4, <2>6, <2>7
<1>5. QED BY <1>3, <1>4

(* Labels are answers.                                                      *)
LEMMA LabelsAreAnswers ==
  ASSUME NEW set, IsFiniteSet(set), \A label \in set : label.category \in Categories
  PROVE  IsAnswers(AnswersOf(set))
<1> DEFINE cases == {label.case : label \in set}
           caseOf == [label \in set |-> label.case]
           given == AnswersOf(set)
<1>1. caseOf \in [set -> cases] /\ \A z \in cases : \E label \in set : caseOf[label] = z
  OBVIOUS
<1>2. IsFiniteSet(cases)
  <2> HIDE DEF caseOf, cases
  <2>1. QED BY <1>1, CountImage
<1>3. given = [case \in cases |-> (CHOOSE label \in set : label.case = case).category]
  BY DEF AnswersOf
<1>4. \A case \in cases : (CHOOSE label \in set : label.case = case).category \in Categories
  <2>1. SUFFICES ASSUME NEW case \in cases
                 PROVE  (CHOOSE label \in set : label.case = case).category \in Categories
    OBVIOUS
  <2>2. \E label \in set : label.case = case
    OBVIOUS
  <2> DEFINE chosen == CHOOSE label \in set : label.case = case
  <2>3. chosen \in set
    BY <2>2
  <2> HIDE DEF chosen
  <2>4. chosen.category \in Categories
    BY <2>3
  <2>5. QED BY <2>4 DEF chosen
<1> HIDE DEF given, cases
<1>5. DOMAIN given = cases /\ given \in [cases -> Categories]
  BY <1>3, <1>4
<1>6. QED BY <1>2, <1>5 DEF IsAnswers, given

(* Each category the predictor has is predicted from some finding.          *)
LEMMA ReachableCategories ==
  ASSUME NEW c \in Categories \ Uncoverable
  PROVE  c \in Reachable
<1> DEFINE P(x, spans) == PredictCategory([family |-> x, regions |-> spans])
           two == {<<"a.c", 1>>, <<"b.c", 1>>}
           one == {<<"a.c", 1>>, <<"a.c", 2>>}
<1>1. c \in {"complexity", "ownership_ambiguity", "coupling"}
  BY DEF Categories, Uncoverable
<1>2. \A u, v : u # v => Cardinality({u, v}) = 2
  <2>1. SUFFICES ASSUME NEW u, NEW v, u # v PROVE Cardinality({u, v}) = 2
    OBVIOUS
  <2>2. IsFiniteSet({u}) /\ Cardinality({u}) = 1
    BY FS_Singleton
  <2>3. Cardinality({u} \cup {v}) = 2
    BY <2>1, <2>2, FS_AddElement
  <2>4. {u} \cup {v} = {u, v}
    OBVIOUS
  <2>5. QED BY <2>3, <2>4
<1>3. P("lifetime", {}) = "ownership_ambiguity"
  <2>1. [family |-> "lifetime", regions |-> {}].family = "lifetime"
    OBVIOUS
  <2>2. QED BY <2>1 DEF PredictCategory
<1>4. P("bounds", two) = "coupling"
  <2> DEFINE f == [family |-> "bounds", regions |-> two]
  <2>1. {r[1] : r \in two} = {"a.c", "b.c"}
    OBVIOUS
  <2>2. Cardinality({r[1] : r \in two}) = 2
    <3>1. "a.c" # "b.c"
      OBVIOUS
    <3>2. Cardinality({"a.c", "b.c"}) = 2
      BY <1>2, <3>1
    <3>3. QED BY <2>1, <3>2
  <2>3. f.family = "bounds" /\ f.regions = two
    OBVIOUS
  <2>4. EffortOf(f) = "cross_module"
    <3> HIDE DEF f
    <3>1. QED BY <2>2, <2>3 DEF EffortOf
  <2> HIDE DEF two
  <2>5. PredictCategory(f) = "coupling"
    <3> HIDE DEF f
    <3>1. QED BY <2>3, <2>4 DEF PredictCategory
  <2>6. QED BY <2>5
<1>5. P("bounds", one) = "complexity"
  <2> DEFINE f == [family |-> "bounds", regions |-> one]
  <2>1. {r[1] : r \in one} = {"a.c"}
    OBVIOUS
  <2>2. Cardinality({r[1] : r \in one}) = 1
    BY <2>1, FS_Singleton
  <2>3. Cardinality(one) = 2
    <3>1. <<"a.c", 1>> # <<"a.c", 2>>
      OBVIOUS
    <3>2. QED BY <1>2, <3>1
  <2>4. f.family = "bounds" /\ f.regions = one
    OBVIOUS
  <2>5. EffortOf(f) = "function"
    <3> HIDE DEF f, one
    <3>1. QED BY <2>2, <2>3, <2>4 DEF EffortOf
  <2> HIDE DEF one
  <2>6. PredictCategory(f) = "complexity"
    <3> HIDE DEF f
    <3>1. QED BY <2>4, <2>5 DEF PredictCategory
  <2>7. QED BY <2>6
<1>6. two \in Spans /\ one \in Spans /\ {} \in Spans
  <2>1. \A file \in {"a.c", "b.c"}, line \in {1, 2} :
          <<file, line>> \in {<<name, place>> : name \in {"a.c", "b.c"}, place \in {1, 2}}
    OBVIOUS
  <2>2. QED BY <2>1 DEF Spans
<1>7. \A x \in {"lifetime", "bounds"} : \A spans \in Spans : P(x, spans) \in Reachable
  BY DEF Reachable
<1> HIDE DEF P, one, two
<1>8. QED BY <1>1, <1>3, <1>4, <1>5, <1>6, <1>7

(* What is shown, predicted and scored is of what was read.                 *)
RankedKnown ==
    shown # << >> =>
        /\ labels # NoScore
        /\ shown = [case \in LabelledCases |-> RankFindings(reported[case])]
        /\ predicted \in [DOMAIN predicted -> Categories]
        /\ DOMAIN predicted \subseteq LabelledCases
        /\ uncovered = Uncovered(labels, predicted)

ScoreKnown ==
    score # NoScore =>
        /\ shown # << >>
        /\ score.perCategory = FractionsOf(AnswersOf(labels), predicted)
        /\ score.averaged => uncovered = {}
        /\ score.ndcg = Ndcg(judged)

(* The inductive invariant of the maintainability set.                      *)
MaintainInv ==
    /\ reported \in [LabelledCases -> FindingLists]
    /\ labels # NoScore => labels \in LabelSets
    /\ judged \in Judgements
    /\ RankedKnown
    /\ ScoreKnown

(* The labelled answers of the state are those of its labels.               *)
LEMMA LabelledAnswers == LabelledAs = AnswersOf(labels)
  BY DEF LabelledAs, AnswersOf

(* Nothing is ranked or scored before the labels have been read.            *)
LEMMA MaintainInitInv == MaintainInit => MaintainInv
<1>1. SUFFICES ASSUME MaintainInit PROVE MaintainInv
  OBVIOUS
<1>2. /\ reported \in [LabelledCases -> FindingLists] /\ judged \in Judgements
      /\ shown = << >> /\ score = NoScore
  BY <1>1 DEF MaintainInit
<1>3. labels # NoScore => labels \in LabelSets
  <2>1. PICK set \in LabelSets : labels = LoadLabels(set)
    BY <1>1 DEF MaintainInit
  <2>2. labels = set \/ labels = NoScore
    BY <2>1 DEF LoadLabels
  <2>3. QED BY <2>2
<1>4. QED BY <1>2, <1>3 DEF MaintainInv, RankedKnown, ScoreKnown

(* The prediction for a finding is a category or an abstention.             *)
LEMMA PredictsCategory ==
  ASSUME NEW f
  PROVE  PredictCategory(f) \in Categories \cup {Unmapped}
  BY DEF PredictCategory, Categories

(* Predicting keeps it: what is shown is the ranking of what was reported.  *)
LEMMA PredictInv == MaintainInv /\ PredictCategories => MaintainInv'
<1>1. SUFFICES ASSUME MaintainInv, PredictCategories PROVE MaintainInv'
  OBVIOUS
<1> DEFINE ranked == [case \in DOMAIN reported |-> RankFindings(reported[case])]
           guess(case) == IF shown'[case] = <<>> THEN Unmapped
                           ELSE PredictCategory(shown'[case][1])
           sure == {c \in DOMAIN reported : guess(c) # Unmapped}
<1>2. /\ labels # NoScore /\ shown = << >> /\ shown' = ranked
      /\ predicted' = [case \in sure |-> guess(case)]
      /\ uncovered' = Uncovered(labels, predicted')
      /\ reported' = reported /\ labels' = labels /\ judged' = judged /\ score' = score
  BY <1>1 DEF PredictCategories
<1>3. DOMAIN reported = LabelledCases
  BY <1>1 DEF MaintainInv
<1>4. score = NoScore
  BY <1>1, <1>2 DEF MaintainInv, ScoreKnown
<1>5. \A case \in sure : guess(case) \in Categories
  <2>1. SUFFICES ASSUME NEW case \in sure PROVE guess(case) \in Categories
    OBVIOUS
  <2>2. guess(case) # Unmapped
    OBVIOUS
  <2>3. guess(case) = PredictCategory(shown'[case][1])
    BY <2>2
  <2>4. PredictCategory(shown'[case][1]) \in Categories \cup {Unmapped}
    BY PredictsCategory
  <2> HIDE DEF guess
  <2>5. QED BY <2>2, <2>3, <2>4
<1>6. sure \subseteq LabelledCases
  BY <1>3
<1> HIDE DEF guess, sure
<1>7. predicted' \in [DOMAIN predicted' -> Categories] /\ DOMAIN predicted' \subseteq LabelledCases
  BY <1>2, <1>5, <1>6
<1>8. RankedKnown'
  <2>1. shown' = [case \in LabelledCases |-> RankFindings(reported'[case])]
    BY <1>2, <1>3
  <2>2. uncovered' = Uncovered(labels', predicted')
    BY <1>2
  <2>3. QED BY <1>2, <1>7, <2>1, <2>2 DEF RankedKnown
<1>9. ScoreKnown'
  BY <1>2, <1>4 DEF ScoreKnown
<1>10. QED BY <1>1, <1>2, <1>8, <1>9 DEF MaintainInv

(* Scoring keeps it: the scores are of the labels, the predictions and the  *)
(* judgements that were read.                                               *)
LEMMA ScoreMaintainInv == MaintainInv /\ ScoreMaintainability => MaintainInv'
<1>1. SUFFICES ASSUME MaintainInv, ScoreMaintainability PROVE MaintainInv'
  OBVIOUS
<1>2. /\ shown # << >> /\ reported' = reported /\ labels' = labels /\ judged' = judged
      /\ shown' = shown /\ predicted' = predicted /\ uncovered' = uncovered
  BY <1>1 DEF ScoreMaintainability
<1>3. RankedKnown'
  BY <1>1, <1>2 DEF MaintainInv, RankedKnown
<1> DEFINE fractions == [c \in ScoredCategories |-> F1(c)]
           mean == uncovered = {}
           gained == Ndcg(judged)
           agreed == Cardinality({label \in labels : label.agreed})
           count == Cardinality(labels)
<1>4. score' = [perCategory |-> fractions, averaged |-> mean, ndcg |-> gained,
                agreed |-> agreed, cases |-> count]
  BY <1>1, Zenon DEF ScoreMaintainability
<1>5. fractions = FractionsOf(AnswersOf(labels), predicted)
  <2>1. LabelledAs = AnswersOf(labels)
    BY LabelledAnswers
  <2>2. ScoredCategories = {x \in Categories : \/ CasesOf(AnswersOf(labels), x) # {}
                                               \/ CasesOf(predicted, x) # {}}
    BY <2>1 DEF ScoredCategories
  <2>3. \A c : F1(c) = FractionOf(AnswersOf(labels), predicted, c)
    BY <2>1, Zenon DEF F1, FractionOf
  <2>4. QED BY <2>2, <2>3 DEF FractionsOf
<1> HIDE DEF fractions, gained, agreed, count
<1>6. score'.perCategory = fractions /\ score'.ndcg = gained /\ (score'.averaged <=> mean)
  BY <1>4
<1>7. ScoreKnown'
  BY <1>2, <1>5, <1>6 DEF ScoreKnown, gained
<1>8. QED BY <1>1, <1>2, <1>3, <1>7 DEF MaintainInv

(* Every step of a scoring of the set keeps it.                             *)
LEMMA MaintainStepInv == MaintainInv /\ [MaintainNext]_maintainVars => MaintainInv'
<1>1. SUFFICES ASSUME MaintainInv, [MaintainNext]_maintainVars PROVE MaintainInv'
  OBVIOUS
<1>2. CASE PredictCategories
  BY <1>1, <1>2, PredictInv
<1>3. CASE ScoreMaintainability
  BY <1>1, <1>3, ScoreMaintainInv
<1>4. CASE UNCHANGED maintainVars
  BY <1>1, <1>4 DEF MaintainInv, RankedKnown, ScoreKnown, maintainVars
<1>5. QED BY <1>1, <1>2, <1>3, <1>4 DEF MaintainNext

(* What a case reports is a report.                                         *)
LEMMA ReportedLists ==
  ASSUME MaintainInv, NEW case \in LabelledCases
  PROVE  IsReport(reported[case])
<1>1. reported[case] \in FindingLists
  BY DEF MaintainInv
<1>2. QED BY <1>1, MaintainabilityAssumption DEF IsReport

(* Whatever order the findings came in, the ranking shown is theirs.        *)
LEMMA OrderOfTheFindings == MaintainInv => OrderIsOfTheFindings
<1>1. SUFFICES ASSUME MaintainInv, NEW case \in DOMAIN shown, NEW order \in Orders(reported[case])
               PROVE  RankFindings(order) = shown[case]
  BY DEF OrderIsOfTheFindings
<1>2. shown # << >>
  BY <1>1
<1>3. case \in LabelledCases /\ shown[case] = RankFindings(reported[case])
  BY <1>1, <1>2 DEF MaintainInv, RankedKnown
<1>4. IsReport(reported[case])
  BY <1>1, <1>3, ReportedLists
<1>5. QED BY <1>3, <1>4, RankedAlike

(* A finding told of by the model stands no higher than its weakness alone  *)
(* would put it.                                                            *)
LEMMA NothingLifted == MaintainInv => ModelLiftsNothing
<1>1. SUFFICES ASSUME MaintainInv, NEW case \in DOMAIN shown,
                      NEW f \in Range(shown[case]), NEW other \in Range(shown[case]),
                      Before(RankKey(other), KeyOfWeakness(f)), NEW kind \in ImpactKinds
               PROVE  Before(RankKey(other), RankKey(Heard(f, kind)))
  BY DEF ModelLiftsNothing
<1>2. shown # << >>
  BY <1>1
<1>3. case \in LabelledCases /\ shown[case] = RankFindings(reported[case])
  BY <1>1, <1>2 DEF MaintainInv, RankedKnown
<1>4. IsReport(reported[case])
  BY <1>1, <1>3, ReportedLists
<1>5. f \in Range(reported[case]) /\ other \in Range(reported[case])
  BY <1>3, <1>4, ShownIsReported
<1>6. IsRankable(f) /\ IsRankable(other)
  BY <1>4, <1>5 DEF IsReport
<1>7. QED BY <1>1, <1>6, HeardStandsNoHigher

(* What a score was made from: finitely many labels, each with a category,  *)
(* and answers for the labelled cases.                                      *)
LEMMA LabelsKnown ==
  ASSUME MaintainInv, score # NoScore
  PROVE  /\ IsFiniteSet(labels) /\ \A label \in labels : label.category \in Categories
         /\ IsAnswers(AnswersOf(labels)) /\ IsAnswers(predicted)
         /\ uncovered = Uncovered(labels, predicted)
<1>1. shown # << >> /\ labels # NoScore
  BY DEF MaintainInv, ScoreKnown, RankedKnown
<1>2. labels \in LabelSets
  BY <1>1 DEF MaintainInv
<1>3. IsFiniteSet(labels) /\ \A label \in labels : label.category \in Categories
  BY <1>2, MaintainabilityAssumption
<1>4. IsAnswers(AnswersOf(labels))
  BY <1>3, LabelsAreAnswers
<1>5. /\ predicted \in [DOMAIN predicted -> Categories] /\ DOMAIN predicted \subseteq LabelledCases
      /\ uncovered = Uncovered(labels, predicted)
  BY <1>1 DEF MaintainInv, RankedKnown
<1>6. IsFiniteSet(DOMAIN predicted)
  BY <1>5, CountRest, MaintainabilityAssumption
<1>7. QED BY <1>3, <1>4, <1>5, <1>6 DEF IsAnswers

(* Full marks in every category are those of exactly the labelled answers.  *)
LEMMA FullMarksExact == MaintainInv => FullMarksMeanExact
<1>1. SUFFICES ASSUME MaintainInv, score # NoScore
               PROVE  (\A c \in DOMAIN score.perCategory : Whole(score.perCategory[c]))
                        <=> predicted = LabelledAs
  BY DEF FullMarksMeanExact
<1>2. IsAnswers(AnswersOf(labels)) /\ IsAnswers(predicted)
  BY <1>1, LabelsKnown
<1>3. score.perCategory = FractionsOf(AnswersOf(labels), predicted)
  BY <1>1 DEF MaintainInv, ScoreKnown
<1>4. (\A c \in DOMAIN score.perCategory : Whole(score.perCategory[c]))
        <=> predicted = AnswersOf(labels)
  BY <1>2, <1>3, AllWholeMeansSame
<1>5. QED BY <1>4, LabelledAnswers

(* An average is of labels whose categories some finding is predicted as.   *)
LEMMA AveragedReachable == MaintainInv => AveragedIfReachable
<1>1. SUFFICES ASSUME MaintainInv, score # NoScore, score.averaged, NEW label \in labels
               PROVE  label.category \in Reachable
  BY Zenon DEF AveragedIfReachable
<1>2. uncovered = {}
  BY <1>1 DEF MaintainInv, ScoreKnown
<1>3. label.category \in Categories /\ uncovered = {l.category : l \in labels} \cap Uncoverable
  BY <1>1, LabelsKnown DEF Uncovered
<1>4. label.category \in Categories \ Uncoverable
  BY <1>2, <1>3
<1>5. QED BY <1>4, ReachableCategories, Zenon

(* A perfect ranking has nothing below the cut more relevant than something *)
(* above it.                                                                *)
LEMMA NothingBuried == MaintainInv => BuriedIsNotPerfect
<1>1. SUFFICES ASSUME MaintainInv, score # NoScore, Whole(score.ndcg),
                      NEW i \in DOMAIN judged, NEW j \in DOMAIN judged, i < j, i <= Cut
               PROVE  judged[i] >= judged[j]
  BY DEF BuriedIsNotPerfect
<1>2. score.ndcg = Ndcg(judged) /\ judged \in Judgements
  BY <1>1 DEF MaintainInv, ScoreKnown
<1>3. judged \in Seq(Nat)
  BY <1>2, MaintainabilityAssumption
<1>4. Whole(Ndcg(judged))
  BY <1>1, <1>2
<1>5. QED BY <1>1, <1>3, <1>4, FullGainIsSorted

(* In every state what is shown, predicted and scored (maintainability.py)  *)
(* is made from the labels, findings and judgements that were read.         *)
THEOREM MaintainInvariant == MaintainSpec => []MaintainInv
<1>1. MaintainInit => MaintainInv
  BY MaintainInitInv
<1>2. MaintainInv /\ [MaintainNext]_maintainVars => MaintainInv'
  BY MaintainStepInv
<1>3. QED BY <1>1, <1>2, PTL DEF MaintainSpec

(* A place in the ranking and a score for it are earned (ranking.py,        *)
(* maintainability.py): the order is of the findings and not of how they    *)
(* came, nothing a model says lifts its finding, full marks mean the        *)
(* labelled answers, an average is of categories that can be reached, and   *)
(* nothing more relevant lies below the cut of a perfect ranking.           *)
THEOREM RankingAlwaysEarned == MaintainSpec => []RankingIsEarned
<1>1. MaintainInv => RankingIsEarned
  BY OrderOfTheFindings, NothingLifted, FullMarksExact, AveragedReachable, NothingBuried
     DEF RankingIsEarned
<1>2. QED BY <1>1, MaintainInvariant, PTL
=============================================================================
