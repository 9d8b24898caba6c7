---------------------------- MODULE MCContinuity ----------------------------
(* What the security programme of the provider keeps: keys and certificates,   *)
(* incidents and evidence, backups and recovery plans, vendors, and the        *)
(* registers of assets and of the network.  Each with a small instance; a      *)
(* history is about one of them.                                               *)
EXTENDS KeyLifecycle, Incidents, Recovery, Vendors, Registers

CONSTANTS a1, a2

MCEnvironments ==
    {{"keys"}, {"keys", "writes", "reads", "crash"}, {"certificates"},
     {"incidents", "status", "items"}, {"incidents", "assign", "pta", "unstaffed", "writes"},
     {"incidents", "assign"}, {"incidents", "items", "escalate", "writes", "crash", "reads"},
     {"incidents", "status", "sla"}, {"incidents", "indicators", "items", "overlap"},
     {"incidents", "status", "escalate", "overlap"},
     {"custody"}, {"custody", "writes", "reads"}, {"custody", "overlap"},
     {"activities", "writes", "crash"},
     {"cases", "writes", "crash"}, {"cases", "overlap"},
     {"backups", "completions"}, {"backups", "completions", "crash"},
     {"backups", "completions", "writes", "reads"}, {"backups", "expiry"},
     {"plans"}, {"plans", "writes", "crash"}, {"tests"}, {"tests", "writes"},
     {"failovers", "writes", "crash", "reads"},
     {"vendors", "status", "contracts", "writes"}, {"vendors", "status", "access"},
     {"vendors", "status", "access", "reports", "crash"},
     {"vendors", "status", "access", "reports", "overlap"},
     {"vendors", "assessments"}, {"vendors", "assessments", "writes", "crash"},
     {"vendors", "assessments", "findings"}, {"vendors", "assessments", "reads", "overlap"},
     {"vendors", "certifications"},
     {"assets", "overlap"}, {"assets", "scores"}, {"rules"}, {"rules", "reads"},
     {"rules", "overlap", "writes", "crash"}, {"attacks"}}

vars == <<keyVars, incidentVars, recoveryVars, vendorVars, registersVars, allowed>>
Init == /\ allowed \in Environments
        /\ KeyInit /\ IncidentInit /\ RecoveryInit /\ VendorInit /\ RegistersInit
Next == /\ \/ KeyNext /\ UNCHANGED <<incidentVars, recoveryVars, vendorVars, registersVars>>
           \/ IncidentNext /\ UNCHANGED <<keyVars, recoveryVars, vendorVars, registersVars>>
           \/ RecoveryNext /\ UNCHANGED <<keyVars, incidentVars, vendorVars, registersVars>>
           \/ VendorNext /\ UNCHANGED <<keyVars, incidentVars, recoveryVars, registersVars>>
           \/ RegistersNext /\ UNCHANGED <<keyVars, incidentVars, recoveryVars, vendorVars>>
        /\ UNCHANGED allowed
Spec == Init /\ [][Next]_vars /\ KeyFairness /\ RecoveryFairness /\ RegistersFairness

\* The types of all components.
TypeOK == KeyTypeOK /\ IncidentTypeOK /\ RecoveryTypeOK /\ VendorTypeOK /\ RegistersTypeOK

\* Incidents: where requests of one kind do not overlap, the timeline and the custody tell the
\* truth and nothing that was added is lost; an urgent incident has a commander.
IncidentSafety == TimelineIsComplete /\ UrgentIsCommanded /\ NothingAddedIsLost /\ CustodyIsTrue

\* Recovery and keys: what is shown of backups, plans, tests and failovers is what
\* happened, and a version of a key opens what it sealed.
RecoverySafety == /\ CurrentPointIsLatest /\ RunsAreCounted /\ ActivePlanIsActivated
                  /\ LastTestIsShown /\ FailoverIsTold /\ VersionsTellMaterials

\* Vendors and registers: approval and suspension of a vendor hold, and the registers agree
\* with their histories.
RegisterSafety == /\ OnlyTheApprovedAct /\ SuspensionEndsAccess
                  /\ ClassificationIsCurrent /\ RuleHistoryIsComplete

\* Over time: incidents and assessments move along their transitions, and the recurring jobs
\* reach everything - keys that are due and keys destroyed, backups past their time, scores.
WorkMovesOn == /\ IncidentsMoveOn /\ AssessmentsMoveOn
               /\ DueIsRotated /\ DestroyedIsForgotten /\ ExpiredIsMarked /\ ScoreFollows
=============================================================================
