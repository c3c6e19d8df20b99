------------------------------ MODULE MCPayouts ------------------------------
(* Instances of Payouts for TLC.                                             *)
EXTENDS Payouts, TLC

CONSTANTS seller, maker, wallet, wallet2, o1, w1, w2, c1, c2

AllKinds == seller :> "seller_share" @@ maker :> "manufacturer_share"
            @@ wallet :> "wallet_withdrawal" @@ wallet2 :> "wallet_withdrawal"

MCKindOf   == [p \in Payouts |-> AllKinds[p]]
MCOrderOf  == [p \in Payouts |-> IF IsWallet(p) THEN NoOrder ELSE o1]
MCRoutable == Payouts \ {wallet2}

AllManual == {"hold", "release", "clawback", "mark_paid"}

\* One withdrawal, two sweeps, deaths, all that operators may do.
Withdrawal ==
    [rows |-> {wallet}, sweeps |-> {w1, w2}, refunds |-> {}, manual |-> AllManual,
     answers |-> {"processed", "pending", "rejected"}, mortal |-> {"sweep", "request"}]

\* Two, one of which ends the run that has claimed both.
Withdrawals == [Withdrawal EXCEPT !.rows = {wallet, wallet2}, !.manual = {"hold", "release"}]

\* One share, two sweeps that a refund crosses, deaths, all that operators may do.
Share ==
    [rows |-> {seller}, sweeps |-> {w1, w2}, refunds |-> {c1}, manual |-> AllManual,
     answers |-> AllOutcomes, mortal |-> {"sweep", "refund"}]

\* The same with one sweep and two clawbacks of the same refund.
Clawbacks == [Share EXCEPT !.sweeps = {w1}, !.refunds = {c1, c2}]

\* The shares of an order: one sweep, which does not die, and a clawback that may.
Shares ==
    [rows |-> {seller, maker}, sweeps |-> {w1}, refunds |-> {c1}, manual |-> {},
     answers |-> AllOutcomes, mortal |-> {"refund"}]

AllPlans == {Withdrawal, Withdrawals, Share, Clawbacks, Shares}

\* One share and two sweeps: nobody dies, nobody interferes.
Overlap == {[Share EXCEPT !.refunds = {}, !.manual = {}, !.answers = {"processed"},
                          !.mortal = {}]}
=============================================================================
