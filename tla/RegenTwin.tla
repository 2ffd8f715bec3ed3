----------------------------- MODULE RegenTwin -----------------------------
(***************************************************************************)
(* Two regenerative braking managers fed by the same caller: one receives  *)
(* every sample, the other only those the first one does not reject.  What *)
(* a rejected sample may do to a manager is what may make the two differ.  *)
(***************************************************************************)
EXTENDS RegenManager

VARIABLES cMembrane, cTorque, cSinceEvent, cStability, cReport

clean == INSTANCE RegenManager WITH
            regenMembrane <- cMembrane, torque <- cTorque, sinceEvent <- cSinceEvent,
            stability <- cStability, report <- cReport

second == <<cMembrane, cTorque, cSinceEvent, cStability, cReport>>

TwinInit == RegenInit /\ clean!RegenInit

TwinNext ==
    \E s \in Samples :
        /\ Compute(s)
        /\ \/ report'.end = "rejected" /\ UNCHANGED second
           \/ report'.end # "rejected" /\ clean!Compute(s)

TwinSpec == TwinInit /\ [][TwinNext]_<<regenVars, second>>

\* Rejected samples only ever lower the torque: they leave no trace in the
\* membrane, the event timer or the recovery, and the manager that received
\* them never allows more than the one that did not.
RejectionOnlyLowers ==
    /\ regenMembrane = cMembrane /\ sinceEvent = cSinceEvent /\ stability = cStability
    /\ torque <= cTorque
=============================================================================
