------------------------- MODULE MCHistoryRetention -------------------------
(* Two interchangeable callers and two windows for HistoryRetention.         *)
EXTENDS HistoryRetention, TLC

MCMember ==
    [m \in ((DOMAIN FieldOf) \X {"num"} \X (0..Top))
            \cup ((DOMAIN FieldOf) \X {"null"} \X {0}) \cup {Foreign} |->
        [key |-> m[1], kind |-> m[2], val |-> m[3]]]

(* Of the numbers beyond Exact = 2 only 4 is a double.                       *)
MCRounded(n) == 4

AnyCaller == Permutations(Callers)
=============================================================================
