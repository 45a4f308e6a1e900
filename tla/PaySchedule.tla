----------------------------- MODULE PaySchedule -----------------------------
(***************************************************************************)
(* What one employee's pay history promises (modules/compensation): on     *)
(* every day at most one amount is in force, and once a first amount is    *)
(* agreed there is no later day without one.  A change is dated: it        *)
(* replaces the amount over one unbroken span of days and leaves every     *)
(* other day as it was.  The latest change can be withdrawn, and what was  *)
(* in force before it runs on.                                             *)
(***************************************************************************)
EXTENDS Integers

CONSTANTS LastDay,    \* the last day looked at
          Amounts,    \* what can be agreed
          Nothing     \* no pay agreed for the day

VARIABLE pay          \* the amount in force on each day

Days == 0..LastDay

Init == pay = [d \in Days |-> Nothing]

\* No hole opens in the schedule.
Unbroken(p) == \A d \in Days : d # LastDay /\ p[d] # Nothing => p[d + 1] # Nothing

Agree == /\ \E a \in Amounts, first \in Days, last \in Days :
               pay' = [d \in Days |-> IF first <= d /\ d <= last THEN a ELSE pay[d]]
         /\ Unbroken(pay)'

Withdraw == \E first \in Days :
               pay' = [d \in Days |-> IF d < first THEN pay[d]
                                      ELSE IF first = 0 THEN Nothing ELSE pay[first - 1]]

Next == Agree \/ Withdraw

Spec == Init /\ [][Next]_pay
==============================================================================
