------------------------------ MODULE PaidMonth ------------------------------
(***************************************************************************)
(* What a month of payroll promises, without saying how it is computed.    *)
(*                                                                         *)
(* While the month is open the figures may be revised as often as anybody  *)
(* likes, and the total on its header is always the total of its payslips. *)
(* Closing the month changes no figure, needs at least one payslip, and is *)
(* the last thing that ever happens to it (modules/payroll/models.py,      *)
(* PayrollRun: "draft -> finalized, one way").                             *)
(***************************************************************************)
CONSTANTS Employees,  \* whoever may be paid
          Unpaid      \* the entry of an employee with no payslip

VARIABLES status,     \* "none", "draft" or "finalized"
          paid,       \* the figures of every employee's payslip
          total       \* the figures the header was summed from

vars == <<status, paid, total>>

Init == /\ status = "none"
        /\ paid = [e \in Employees |-> Unpaid]
        /\ total = paid

\* Any recomputation or hand correction of an open month.
Revise == /\ status # "finalized"
          /\ status' = "draft"
          /\ total' = paid'

\* What the numbers were when it closed is what was paid.
Close == /\ status = "draft"
         /\ \E e \in Employees : paid[e] # Unpaid
         /\ status' = "finalized"
         /\ UNCHANGED <<paid, total>>

Next == Revise \/ Close

Spec == Init /\ [][Next]_vars
==============================================================================
