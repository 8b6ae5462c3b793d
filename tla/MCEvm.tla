------------------------------- MODULE MCEvm --------------------------------
(***************************************************************************)
(* Two branches of one number and a block of the next, for TLC.            *)
(***************************************************************************)
EXTENDS Evm, TLC

Acc(info, code, storage) == [info |-> info, code |-> code, storage |-> storage]

(* caller has neither code nor storage, target has both, plain has code    *)
(* and no storage, other both; pre is a precompile that was sent money.    *)
(* On the branch of b2, target is other code, plain has storage and other  *)
(* does not exist.                                                         *)
MCAddress == {"caller", "target", "plain", "other", "pre"}
MCState ==
    LET none == [k \in Slot |-> Zero]
        full == [k \in Slot |-> IF k = "s1" THEN "v1" ELSE Zero]
    IN  [b \in Block |->
          [a \in MCAddress |->
             CASE a = "caller" -> Acc("v1", NoCode, none)
               [] a = "target" -> Acc("v1", IF b = "b2" THEN "code2" ELSE "code1", full)
               [] a = "plain" -> Acc(Zero, "code1", IF b = "b2" THEN full ELSE none)
               [] a = "other" -> IF b = "b2" THEN EmptyAccount ELSE Acc("v1", "code2", full)
               [] a = "pre" -> Acc("v1", NoCode, none)]]

MCRoot == [b \in Block |-> b]

MCClaims == {MCState["b1"]["other"], MCState["b1"]["target"], MCState["b2"]["target"],
             EmptyAccount}

MCNumber == [b \in Block |-> IF b = "b3" THEN 2 ELSE 1]
MCProducer == [b \in Block |-> IF b = "b3" THEN "other" ELSE "caller"]

B(a) == [op |-> "basic", address |-> a]
S(a, k) == [op |-> "storage", address |-> a, slot |-> k]
H(n) == [op |-> "block_hash", number |-> n]

Req(kind, reads, exit) ==
    [kind |-> kind, from |-> "caller", to |-> "target", reads |-> reads, exit |-> exit]

Enter == <<B("caller"), B("target")>>

ReadsTarget == Req("call", Enter \o <<S("target", "s1")>>, "return")
ReadsOther == Req("estimate_gas", Enter \o <<B("other"), S("other", "s1")>>, "return")
ReadsPlain == Req("call", Enter \o <<B("plain"), S("plain", "s1")>>, "return")
ReadsHash == Req("call", Enter \o <<H(1), B("pre")>>, "return")
Reverts == Req("call", Enter, "revert")
Storage(a) == Req("get_storage_at", <<S(a, "s1")>>, "return")
Balance(a) == Req("get_account", <<B(a)>>, "return")

MCRequests == {ReadsTarget, ReadsOther, ReadsPlain, ReadsHash, Reverts,
               Storage("plain"), Storage("other"), Balance("other")}

I(a, keys) == [address |-> a, storage_keys |-> keys]
MCAccessList ==
    [r \in MCRequests |->
        CASE r = ReadsTarget -> <<I("target", {"s1"})>>
          [] r = ReadsOther -> <<I("other", {"s1"})>>
          [] r = ReadsPlain -> <<I("plain", {"s1"})>>
          [] OTHER -> <<>>]

MCAnyLists == {<<>>, <<I("other", {"s1", "s2"})>>, <<I("plain", {})>>}

(* The cache of a node, with and without the older block.                  *)
MCCaches == {2 :> "b3", (1 :> "b1") @@ (2 :> "b3")}

MCAsked == [c \in Calls |-> IF c = 1 THEN MCRequests ELSE {ReadsTarget}]
MCMaxCalls == [h \in BOOLEAN |-> IF h THEN 2 ELSE 1]
=============================================================================
