------------------------------ MODULE KeyedData ------------------------------
(* Dictionaries and filtered lists as functions whose every value is written   *)
(* out (the operators :> and @@ of TLC, and SelectSeq, are not defined for the *)
(* proof system).                                                              *)
EXTENDS Integers, Sequences, FiniteSets

(* d[x] = v *)
Put(d, x, v) == [y \in DOMAIN d \cup {x} |-> IF y = x THEN v ELSE d[y]]

(* d.update(new) *)
Over(new, d) == [y \in DOMAIN new \cup DOMAIN d |-> IF y \in DOMAIN new THEN new[y] ELSE d[y]]

(* What the numbers of a dictionary add up to: a set with so many of each key. *)
Total(d) == Cardinality(UNION {{x} \X (1..d[x]) : x \in DOMAIN d})

(* The members of a sequence at some places, in order. *)
AtPlaces(s, places) ==
    [n \in 1..Cardinality(places) |->
        s[CHOOSE i \in places : Cardinality({j \in places : j <= i}) = n]]
=============================================================================
