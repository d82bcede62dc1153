---------------------------- MODULE FinancialStatus ----------------------------
(***************************************************************************)
(* What the billing of a branch (src/src/billing) derives from the charges *)
(* of a student: which charges are overdue, under which status the SQL of  *)
(* a listing finds them, and the financial status of the student.          *)
(*                                                                         *)
(* A charge is a record with the day it is due, its stored status and      *)
(* whether anything is outstanding.  Days are numbers.  Sums, the sorting  *)
(* of students and the next due date as an answer are left out.            *)
(***************************************************************************)
EXTENDS Integers

ChargeStatuses == {"PENDING", "PARTIALLY_PAID", "PAID", "OVERDUE", "CANCELED", "VOID"}
OpenChargeStatuses == {"PENDING", "PARTIALLY_PAID"}

DueSoonWindowDays == 5

OverdueCutoff(graceDays, today) == today - graceDays

IsChargeOverdue(charge, graceDays, today) ==
    /\ charge.status \notin {"CANCELED", "VOID", "PAID"}
    /\ charge.status = "OVERDUE" \/ charge.due < OverdueCutoff(graceDays, today)

EffectiveChargeStatus(charge, graceDays, today) ==
    IF IsChargeOverdue(charge, graceDays, today) THEN "OVERDUE" ELSE charge.status

\* Mutant of ChargeStatusWhere: a listing compares the stored status alone.
ChargeStatusWhereStored(charge, status, graceDays, today) == charge.status = status

\* The condition by which the database lists charges of a status.
ChargeStatusWhere(charge, status, graceDays, today) ==
    CASE status = "OVERDUE" ->
             \/ charge.status = "OVERDUE"
             \/ /\ charge.status \in OpenChargeStatuses
                /\ charge.due < OverdueCutoff(graceDays, today)
      [] status \in OpenChargeStatuses ->
             /\ charge.status = status
             /\ charge.due >= OverdueCutoff(graceDays, today)
      [] OTHER -> charge.status = status

ChargeDaysOverdue(charge, graceDays, today) ==
    IF today > charge.due + graceDays THEN today - (charge.due + graceDays) ELSE 0

Overdue(charges, graceDays, today) ==
    {c \in charges : c.owes /\ EffectiveChargeStatus(c, graceDays, today) = "OVERDUE"}

\* Mutant of AttendanceRestricted: every charge has to be overdue.
AttendanceRestrictedEvery(charges, policy, today) ==
    /\ policy.restrictAttendance
    /\ charges # {}
    /\ Overdue(charges, policy.graceDays, today) = charges

AttendanceRestricted(charges, policy, today) ==
    policy.restrictAttendance /\ Overdue(charges, policy.graceDays, today) # {}

\* Mutant of StudentFinancialStatus: a frozen membership hides what is overdue.
StudentFinancialStatusFrozen(membership, charges, policy, restrictApp, today) ==
    LET overdue == Overdue(charges, policy.graceDays, today) # {}
    IN  CASE membership = "FROZEN" -> "FROZEN"
          [] membership # "FROZEN" /\ overdue ->
                 IF policy.restrictAttendance \/ restrictApp THEN "RESTRICTED" ELSE "OVERDUE"
          [] OTHER -> IF \E c \in charges : c.owes /\ c.due <= today + DueSoonWindowDays
                      THEN "DUE_SOON" ELSE "CURRENT"

\* A student owes within the window if what is due next is due within it.
StudentFinancialStatus(membership, charges, policy, restrictApp, today) ==
    LET overdue == Overdue(charges, policy.graceDays, today) # {}
    IN  CASE overdue ->
                 IF policy.restrictAttendance \/ restrictApp THEN "RESTRICTED" ELSE "OVERDUE"
          [] ~overdue /\ membership = "FROZEN" -> "FROZEN"
          [] OTHER -> IF \E c \in charges : c.owes /\ c.due <= today + DueSoonWindowDays
                      THEN "DUE_SOON" ELSE "CURRENT"
=============================================================================
