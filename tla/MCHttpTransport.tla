-------------------------- MODULE MCHttpTransport --------------------------
(***************************************************************************)
(* Model-checking instance of HttpTransport: the kinds of request that     *)
(* differ at one of the gates.                                             *)
(***************************************************************************)
EXTENDS HttpTransport, TLC

CONSTANTS tok, padded, blank, wrong, umlaut, n1, n2

(* "tok" is the server's token, "padded" the same token between spaces. *)
MCStrip == [t \in Tokens |-> CASE t = padded -> tok
                               [] t = blank -> NoToken
                               [] OTHER -> t]

MCPrice == "quant" :> 5 @@ "scan" :> 2

Receipt(n, e, s) ==
    [body |-> "object", signed |-> s, payTo |-> "us", asset |-> "USDC",
     network |-> "xlayer", amount |-> 2, expiry |-> e, nonce |-> n]

Paying == Receipt(n1, 0, TRUE)       \* expires when the wall clock moves on
Broken == [Receipt(n2, Never, FALSE) EXCEPT !.body = "unencodable"]

Call == [route |-> "mcp", scope |-> "http", scheme |-> "bearer",
         token |-> tok, header |-> P!Carrying(Paying), tool |-> "scan"]

MCReceipts == {Paying, Broken}

MCKinds ==
    { Call,
      [Call EXCEPT !.token = padded, !.header = P!NoHeader],
      [Call EXCEPT !.header = P!Carrying(Broken)],
      [Call EXCEPT !.token = wrong],
      [Call EXCEPT !.scheme = "other"],
      [Call EXCEPT !.token = umlaut],
      [Call EXCEPT !.scope = "websocket"],
      [Call EXCEPT !.route = "healthz"] }

PriceKinds == { Call, [Call EXCEPT !.tool = "quant"] }

ReqSymmetry == Permutations(Reqs)
=============================================================================
