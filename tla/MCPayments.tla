----------------------------- MODULE MCPayments -----------------------------
(***************************************************************************)
(* Model-checking instance of Payments, at a price of 4 where floats tell  *)
(* even amounts apart: three receipts that are accepted (one pays less     *)
(* than the price by what floats do not tell, its twin with the same nonce *)
(* an infinite amount, the third the price), and receipts each of which    *)
(* fails one step of verify and would use up the nonce n2 if the nonce     *)
(* were burnt before that step.                                            *)
(***************************************************************************)
EXTENDS Payments

CONSTANTS n1, n2

Good == [body |-> "object", signed |-> TRUE, payTo |-> "us", asset |-> "USDC",
         network |-> "xlayer", amount |-> 3, expiry |-> 0, nonce |-> n1]

Twin == [Good EXCEPT !.expiry = Never, !.amount = Infinite]

Second == [Good EXCEPT !.nonce = n2, !.expiry = 1, !.amount = 4]

MCReceipts ==
    { Good, Twin, Second,
      [Second EXCEPT !.signed = FALSE],
      [Second EXCEPT !.signed = FALSE, !.body = "unencodable"],
      [Second EXCEPT !.body = "other"],
      [Second EXCEPT !.payTo = "other"],
      [Second EXCEPT !.amount = 2],
      [Second EXCEPT !.expiry = Huge],
      [Second EXCEPT !.nonce = NoNonce] }
=============================================================================
