----------------------------- MODULE PayPerCall -----------------------------
(***************************************************************************)
(* What a metered endpoint promises, whatever the transport: a call is     *)
(* granted against a purchase that was made and has not been used, and     *)
(* uses it up.  Only a restart of the service forgets which purchases were *)
(* used.                                                                   *)
(***************************************************************************)
EXTENDS Naturals

CONSTANT Purchases

VARIABLES
    bought,   \* the purchases made
    used,     \* those the service remembers as used
    calls     \* how many calls each purchase has bought

vars == <<bought, used, calls>>

Init ==
    /\ bought = {}
    /\ used = {}
    /\ calls = [p \in Purchases |-> 0]

Buy(p) ==
    /\ p \notin bought
    /\ bought' = bought \union {p}
    /\ UNCHANGED <<used, calls>>

Call(p) ==
    /\ p \in bought \ used
    /\ used' = used \union {p}
    /\ calls' = [calls EXCEPT ![p] = @ + 1]
    /\ UNCHANGED bought

Forget ==
    /\ used' = {}
    /\ UNCHANGED <<bought, calls>>

Next == Forget \/ \E p \in Purchases : Buy(p) \/ Call(p)

Spec == Init /\ [][Next]_vars
=============================================================================
