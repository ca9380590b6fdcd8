--------------------------- MODULE MCTransactions ---------------------------
(***************************************************************************)
(* Small instances of Transactions for TLC.  Two users have registered and *)
(* have reserved part of their welcome deposits.                           *)
(***************************************************************************)
EXTENDS Transactions, TLC

CONSTANTS a1, a2, a3, a4, u1, u2, u3, h1, h2, h3, h4, p1, p2, p3, r1, r2, r3, r4, e1, e2, e3, e4

Balance(av, hd, v) == [available |-> av, held |-> hd, version |-> v]
Welcome(a, n) == [id |-> n, posting |-> [debit |-> Settlement("USD"), credit |-> a,
                                         amount |-> 3, currency |-> "USD"]]
Placed(a, p) == [account |-> a, payment |-> p, amount |-> 2, currency |-> "USD", status |-> "active"]

\* Of 3, each account has 2 reserved: a1 under h1 for p1, a2 under h2 for p2.
MCEarlier ==
    (Bal(a1) :> Balance(1, 2, 2)) @@ (Bal(a2) :> Balance(1, 2, 2)) @@
    (Bal(Settlement("USD")) :> Balance(6, 0, 2)) @@
    (Txn(WelcomeKey(u1)) :> Welcome(a1, -1)) @@ (Txn(WelcomeKey(u2)) :> Welcome(a2, 0)) @@
    (HoldKey(h1) :> Placed(a1, p1)) @@ (HoldKey(h2) :> Placed(a2, p2)) @@
    (Pay(p1) :> h1) @@ (Pay(p2) :> h2)

MCEarlierEvents == {Funds("held", h1, a1, 2, "none"), Funds("held", h2, a2, 2, "none")}

HoldFunds(r, a, p, amt) == [method |-> "HoldFunds", request |-> r, account |-> a, payment |-> p,
                            amount |-> amt, currency |-> "USD"]
CaptureFunds(r, h, amt) == [method |-> "CaptureFunds", request |-> r, hold |-> h, amount |-> amt]
ReleaseFunds(r, h) == [method |-> "ReleaseFunds", request |-> r, hold |-> h, reason |-> "compensation"]
Sweep == [method |-> "Sweep"]
UserRegistered(e, u, seed) == [method |-> "UserRegistered", event |-> e, user |-> u, seed |-> seed]
PaymentFailed(e, p) == [method |-> "PaymentFailed", event |-> e, payment |-> p]

\* Calls that meet: on the last unit of a1, on one hold (captured, released,
\* compensated, expired), on one payment, one request_id, one event, one user's
\* welcome deposit and on the merchant-payable account.  Some are refused: an
\* unknown account, more than the hold has, more than there is left.  A sweep of
\* h1 and h2 and the hold on a2 for p1 can wait for each other.  A hold for p3 may
\* be placed while its payment is compensated.
MCCall ==
    {HoldFunds(r1, a1, p3, 1), HoldFunds(r2, a1, p3, 1), HoldFunds(r2, a2, p2, 1),
     HoldFunds(r2, a2, p1, 1), HoldFunds(r2, a4, p3, 1), CaptureFunds(r3, h1, 1),
     CaptureFunds(r4, h1, 3), CaptureFunds(r4, h2, 2), ReleaseFunds(r3, h2), ReleaseFunds(r4, h1),
     Sweep, PaymentFailed(e3, p2), PaymentFailed(e4, p3), UserRegistered(e1, u3, 2),
     UserRegistered(e2, u3, 0)}

\* The ids not in use at first are interchangeable, and so are the workers.
Symmetry == Permutations(Worker) \cup Permutations({h3, h4})

MCAmount == 0 .. 3
=============================================================================
