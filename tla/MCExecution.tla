---------------------------- MODULE MCExecution -----------------------------
(***************************************************************************)
(* An instance of the execution client for TLC: a chain a2, a3, a4 and a   *)
(* branch b2, b3 with the same transactions, in another order in b2 and    *)
(* with the same receipts in b3.                                           *)
(***************************************************************************)
EXTENDS Execution

CONSTANTS a2, a3, a4, b2, b3, t1, t2, t3, t4, c1, c2, c3, d1, d2

Blocks == {a2, a3, a4, b2, b3}
BlockNumber == (a2 :> 2) @@ (a3 :> 3) @@ (a4 :> 4) @@ (b2 :> 2) @@ (b3 :> 3)
Transactions == (a2 :> <<t1, t2>>) @@ (a3 :> <<t3>>) @@ (a4 :> <<t4>>)
                @@ (b2 :> <<t2, t1>>) @@ (b3 :> <<t3>>)
ReceiptContents == (a2 :> <<c1, c2>>) @@ (a3 :> <<c1>>) @@ (a4 :> <<c1>>)
                   @@ (b2 :> <<c2, c3>>) @@ (b3 :> <<c1>>)
ContentLogs == (c1 :> {d1}) @@ (c2 :> {}) @@ (c3 :> {d1, d2})
Chains == {{a2, a3, a4}, {b2, b3}}

(* Behind the provider, with a gap, and with a block of either branch.     *)
SomeCaches ==
    {(2 :> a2) @@ (3 :> a3), (2 :> a2) @@ (4 :> a4), (2 :> b2) @@ (3 :> a3), 3 :> b3}

Filter(from, to, block) == [from |-> from, to |-> to, block |-> block]
SomeFilters ==
    {Filter(None, None, None), Filter(2, None, None), Filter(2, 3, None),
     Filter(None, None, a2)}

SomeReceipts ==
    [tx : {t1, t2}, block : {a2}, content : {c1, c2, c3}]
        \cup [tx : {t3}, block : {a3, a4}, content : {c1, c2}]
SomeLogs == {[tx |-> t1, data |-> d1], [tx |-> t1, data |-> d2], [tx |-> t3, data |-> d1]}
=============================================================================
