--------------------------- MODULE EnergyAccount ---------------------------
(***************************************************************************)
(* What every energy ledger of the project promises: an account is opened  *)
(* at zero, and from then on it only grows, one posting at a time, each    *)
(* posting on one side.  Nothing else may touch it: a rejected cycle, a    *)
(* query or a failed reinitialisation is a stuttering step.                *)
(***************************************************************************)
EXTENDS Integers

VARIABLES
    charged,      \* energy posted on the charging side
    discharged,   \* energy posted on the discharging side
    entries       \* postings since the account was opened

account == <<charged, discharged, entries>>

Open ==
    /\ charged = 0
    /\ discharged = 0
    /\ entries = 0

Reopen ==
    /\ charged' = 0
    /\ discharged' = 0
    /\ entries' = 0

Post ==
    /\ entries' = entries + 1
    /\ charged' >= charged
    /\ discharged' >= discharged
    /\ charged' = charged \/ discharged' = discharged

Next == Reopen \/ Post

Spec == Open /\ [][Next]_account
=============================================================================
