----------------------------- MODULE MCBilling ------------------------------
(* The webhook of one subscriber, with no grants of the maintainer, for TLC. *)
EXTENDS Entitlements, TLC

CONSTANTS d1, d2, admin, null, none

MCDeliveries == {d1, d2}
MCEvents ==
    {[type |-> "activated", at |-> 0, paid |-> 1],
     [type |-> "activated", at |-> 0, paid |-> 2],
     [type |-> "lifetime", at |-> 0, paid |-> null]}

\* The subscriber's trial was used before.
SubscriberSpec == BillingInit /\ consumed = TRUE /\ [][BillingNext]_billingVars

=============================================================================
