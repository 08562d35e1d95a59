---------------------------- MODULE MCAccounting ----------------------------
(***************************************************************************)
(* A small instance of Accounting: a deposit to two customers in one       *)
(* transaction, a withdrawal of the wallet with change, a miner payout to  *)
(* a customer, and a withdrawal of both back to a customer's address.      *)
(***************************************************************************)
EXTENDS Accounting

SmallKind == [x |-> "foreign", a |-> "deposit", b |-> "deposit", c |-> "change",
              y |-> "foreign", d |-> "deposit", m |-> "deposit"]

SmallTxs == {[ins |-> {"x"}, outs |-> <<"a", "b">>, payout |-> FALSE],
             [ins |-> {"a"}, outs |-> <<"y", "c">>, payout |-> FALSE],
             [ins |-> {"c", "m"}, outs |-> <<"d">>, payout |-> FALSE],
             [ins |-> {},    outs |-> <<"m">>,      payout |-> TRUE]}
=============================================================================
