------------------------------ MODULE Registers -----------------------------
(***************************************************************************)
(* The register of assets (ctdisr/assets) and the one of network security  *)
(* (ctdisr/network-security): one asset with its classifications and       *)
(* vulnerabilities, one firewall rule with its history, one attack.  Flags *)
(* "assets" (with "scores"), "rules", "attacks": what a history is about;  *)
(* "overlap": changes of one row may overlap; "writes", "reads", "crash".  *)
(***************************************************************************)
EXTENDS Histories, Integers, FiniteSets

CONSTANTS
    Vulnerabilities,   \* rows of asset_vulnerabilities
    Severe,            \* those whose severity is CRITICAL or HIGH
    RegisterCalls,     \* requests to the two services
    MaxVersions        \* bound: versions of a rule, classifications of an asset

ASSUME RegistersAssumption ==
    /\ MaxVersions \in Nat \ {0} /\ IsFiniteSet(Vulnerabilities) /\ Severe \subseteq Vulnerabilities
    /\ None \notin {"ACTIVE", "DECOMMISSIONED", "asset", "reclassify", "update", "delete"}

VARIABLES
    asset,          \* the row of assets
    ranked,         \* asset_classifications with effective_until null, counted by class
    ranks,          \* rows of asset_classifications ever inserted
    vulnerability,  \* asset_vulnerabilities
    rule,           \* the row of firewall_rules
    ruleHistory,    \* firewall_rule_history: what its last row says, and whether one is missing
    attack,         \* the row of ddos_attacks
    blacklisted,    \* rows of ddos_blacklist for one address
    regCall         \* requests under way

assetVars == <<asset, ranked, ranks, vulnerability>>
networkVars == <<rule, ruleHistory, attack, blacklisted>>
registerRows == <<assetVars, networkVars>>
registersVars == <<registerRows, regCall>>

AssetClassification == {"CRITICAL", "PUBLIC"}   \* two of the four
VulnerabilityStatus == {"OPEN", "PATCHED"}
Asset == [status : {"ACTIVE", "DECOMMISSIONED", None},
          class : AssetClassification \cup {None}, score : 0..100]
FirewallRule == [active : BOOLEAN, version : 0..MaxVersions]
DdosAttackStatus == {"ongoing", "mitigated", "ended"}
RegisterCall == [pc : {"idle", "read", "end", "insert", "patch", "save", "write", "history"},
                 kind : {"asset", "reclassify", "update", "delete", None},
                 class : AssetClassification \cup {None}, old : 0..MaxVersions,
                 new : 0..MaxVersions]
IdleRegisterCall == [pc |-> "idle", kind |-> None, class |-> None, old |-> 0, new |-> 0]

RegistersInit ==
    /\ asset = [status |-> None, class |-> None, score |-> 0]
    /\ ranked = [l \in AssetClassification |-> 0] /\ ranks = 0
    /\ vulnerability = [v \in Vulnerabilities |-> None]
    /\ rule = [active |-> FALSE, version |-> 0]
    /\ ruleHistory = [last |-> 0, gap |-> FALSE]
    /\ attack = [status |-> None, over |-> FALSE] /\ blacklisted = {}
    /\ regCall = [c \in RegisterCalls |-> IdleRegisterCall]

RegWritesFail == May("writes")
RegAt(c, pc) == regCall' = [regCall EXCEPT ![c].pc = pc]
RegEnds(c) == regCall' = [regCall EXCEPT ![c] = IdleRegisterCall]
BeginReg(c, kind, class, pc) ==
    /\ regCall[c].pc = "idle" /\ c = CHOOSE d \in RegisterCalls : regCall[d].pc = "idle"
    /\ May("overlap") \/ \A d \in RegisterCalls : regCall[d].pc = "idle"
    /\ regCall' = [regCall EXCEPT ![c] = [IdleRegisterCall EXCEPT
          !.kind = kind, !.class = class, !.pc = pc]]
    /\ UNCHANGED registerRows

-----------------------------------------------------------------------------
(* Assets.                                                                 *)

\* The insert leaves no row of asset_classifications.
CreateAsset(class) ==
    /\ asset.status = None
    /\ asset' = [asset EXCEPT !.status = "ACTIVE", !.class = class]
    /\ UNCHANGED <<ranked, ranks, vulnerability, networkVars, regCall>>
DecommissionAsset ==
    /\ asset.status # None /\ asset' = [asset EXCEPT !.status = "DECOMMISSIONED"]
    /\ UNCHANGED <<ranked, ranks, vulnerability, networkVars, regCall>>

\* The three requests of reclassifyAsset, in this order; whether one was refused is not
\* looked at.  Mutated form: the new row is inserted before the others end.
InsertedFirst == [insert |-> "end", end |-> "patch"]
ReclassifySteps == [end |-> "insert", insert |-> "patch"]
FirstStep == CHOOSE s \in DOMAIN ReclassifySteps :
                \A t \in DOMAIN ReclassifySteps : ReclassifySteps[t] # s
UpdateAsset(c, class) == asset.status # None /\ BeginReg(c, "asset", class, "read")
ReclassifyAsset(c, class) == asset.status # None /\ BeginReg(c, "reclassify", class, FirstStep)
\* An update reclassifies an asset that is of another class as read.
GetAssetById(c) ==
    /\ regCall[c].pc = "read" /\ regCall[c].kind = "asset"
    /\ RegAt(c, IF regCall[c].class # asset.class THEN FirstStep ELSE "save")
    /\ UNCHANGED registerRows
Reclassifying(c, pc) == regCall[c].kind \in {"asset", "reclassify"} /\ regCall[c].pc = pc
EndClassifications(c) ==
    /\ Reclassifying(c, "end")
    /\ ranked' = [l \in AssetClassification |-> 0] \/ (RegWritesFail /\ UNCHANGED ranked)
    /\ RegAt(c, ReclassifySteps["end"]) /\ UNCHANGED <<asset, ranks, vulnerability, networkVars>>
InsertClassification(c) ==
    /\ Reclassifying(c, "insert") /\ ranks < MaxVersions
    /\ \/ ranked' = [ranked EXCEPT ![regCall[c].class] = @ + 1] /\ ranks' = ranks + 1
       \/ RegWritesFail /\ UNCHANGED <<ranked, ranks>>
    /\ RegAt(c, ReclassifySteps["insert"]) /\ UNCHANGED <<asset, vulnerability, networkVars>>
ClassifyAsset(c) ==
    /\ Reclassifying(c, "patch")
    /\ \/ asset' = [asset EXCEPT !.class = regCall[c].class]
       \/ RegWritesFail /\ UNCHANGED asset
    /\ (IF regCall[c].kind = "asset" THEN RegAt(c, "save") ELSE RegEnds(c))
    /\ UNCHANGED <<ranked, ranks, vulnerability, networkVars>>
\* The other columns of updateAsset.
SaveAsset(c) == Reclassifying(c, "save") /\ RegEnds(c) /\ UNCHANGED registerRows

AddVulnerability(v) ==
    /\ asset.status # None /\ vulnerability[v] = None
    /\ vulnerability' = [vulnerability EXCEPT ![v] = "OPEN"]
    /\ UNCHANGED <<asset, ranked, ranks, networkVars, regCall>>
UpdateVulnerabilityStatus(v, s) ==
    /\ vulnerability[v] \notin {s, None} /\ vulnerability' = [vulnerability EXCEPT ![v] = s]
    /\ UNCHANGED <<asset, ranked, ranks, networkVars, regCall>>

\* calculate_asset_risk_score, of an asset that handles neither PII nor LI data.
Least(a, b) == IF a < b THEN a ELSE b
OpenVulnerabilities == {v \in Vulnerabilities : vulnerability[v] = "OPEN"}
RiskScore == Least(100, (IF asset.class = "CRITICAL" THEN 40 ELSE 10)
                          + Least(20, 2 * Cardinality(OpenVulnerabilities))
                          + Least(20, 5 * Cardinality(OpenVulnerabilities \cap Severe)))
\* The nightly update_all_asset_risk_scores.  Mutated form: of assets without a score.
ScoredNow == asset.status = "ACTIVE" /\ asset.score = 0
Scored == asset.status = "ACTIVE"
RecalculateRiskScores ==
    /\ Scored /\ asset.score # RiskScore /\ asset' = [asset EXCEPT !.score = RiskScore]
    /\ UNCHANGED <<ranked, ranks, vulnerability, networkVars, regCall>>

-----------------------------------------------------------------------------
(* Firewall rules, attacks and blocked addresses.                          *)

\* What is told of a change: the version before it, as read.
Told(old, new) == [last |-> new, gap |-> ruleHistory.gap \/ old # ruleHistory.last]
\* The error of recordFirewallRuleHistory is not looked at.
CreateFirewallRule ==
    /\ rule.version = 0 /\ rule' = [active |-> TRUE, version |-> 1]
    /\ ruleHistory' = Told(0, 1) \/ (RegWritesFail /\ UNCHANGED ruleHistory)
    /\ UNCHANGED <<assetVars, attack, blacklisted, regCall>>
\* A deleted rule can still be changed.
ChangeFirewallRule(c, kind) == rule.version # 0 /\ BeginReg(c, kind, None, "read")
\* The error of the read is not looked at: the change goes on with no old values.
GetFirewallRule(c) ==
    /\ regCall[c].pc = "read" /\ regCall[c].kind \in {"update", "delete"}
    /\ \E old \in {rule.version} \cup (IF May("reads") THEN {0} ELSE {}) :
          regCall' = [regCall EXCEPT ![c].pc = "write", ![c].old = old]
    /\ UNCHANGED registerRows
UpdateFirewallRule(c) ==
    /\ regCall[c].pc = "write" /\ rule.version < MaxVersions
    /\ \/ /\ rule' = IF regCall[c].kind = "delete" THEN [rule EXCEPT !.active = FALSE]
                     ELSE [rule EXCEPT !.version = @ + 1]
          /\ regCall' = [regCall EXCEPT ![c].pc = "history", ![c].new = rule'.version]
       \/ RegWritesFail /\ RegEnds(c) /\ UNCHANGED rule
    /\ UNCHANGED <<assetVars, ruleHistory, attack, blacklisted>>
\* Mutated form: an update is told by the new version alone.
OldOfNew(call) == call.new
OldValues(call) == call.old
RecordFirewallRuleHistory(c) ==
    /\ regCall[c].pc = "history"
    /\ ruleHistory' = Told(OldValues(regCall[c]), regCall[c].new)
         \/ (RegWritesFail /\ UNCHANGED ruleHistory)
    /\ RegEnds(c) /\ UNCHANGED <<assetVars, rule, attack, blacklisted>>

\* attack_end is set by every status but ongoing, and never cleared.
RecordDdosAttack ==
    /\ attack.status = None /\ attack' = [status |-> "ongoing", over |-> FALSE]
    /\ UNCHANGED <<assetVars, rule, ruleHistory, blacklisted, regCall>>
UpdateDdosAttackStatus(s) ==
    /\ attack.status # None
    /\ attack' = [status |-> s, over |-> attack.over \/ s # "ongoing"]
    /\ UNCHANGED <<assetVars, rule, ruleHistory, blacklisted, regCall>>
\* An entry is permanent, or has a time, or neither.
AddToBlacklist(e) ==
    /\ blacklisted' = blacklisted \cup {e}
    /\ UNCHANGED <<assetVars, rule, ruleHistory, attack, regCall>>
RemoveFromBlacklist ==
    /\ blacklisted' = {} /\ UNCHANGED <<assetVars, rule, ruleHistory, attack, regCall>>

RegisterBackendDies ==
    /\ May("crash") /\ \E c \in RegisterCalls : regCall[c].pc # "idle"
    /\ regCall' = [c \in RegisterCalls |-> IdleRegisterCall] /\ UNCHANGED registerRows

RegisterStep(c) ==
    \/ GetAssetById(c) \/ EndClassifications(c) \/ InsertClassification(c) \/ ClassifyAsset(c)
    \/ SaveAsset(c) \/ GetFirewallRule(c) \/ UpdateFirewallRule(c)
    \/ RecordFirewallRuleHistory(c)

RegistersNext ==
    \/ /\ May("assets")
       /\ \/ \E l \in AssetClassification :
                \/ CreateAsset(l)
                \/ \E c \in RegisterCalls : UpdateAsset(c, l) \/ ReclassifyAsset(c, l)
    \/ /\ May("scores")
       /\ \/ DecommissionAsset \/ RecalculateRiskScores
          \/ \E v \in Vulnerabilities :
                \/ AddVulnerability(v)
                \/ \E s \in VulnerabilityStatus : UpdateVulnerabilityStatus(v, s)
    \/ /\ May("rules")
       /\ \/ CreateFirewallRule
          \/ \E c \in RegisterCalls, kind \in {"update", "delete"} : ChangeFirewallRule(c, kind)
    \/ /\ May("attacks")
       /\ \/ RecordDdosAttack \/ RemoveFromBlacklist
          \/ \E s \in DdosAttackStatus : UpdateDdosAttackStatus(s)
          \/ \E e \in {"permanent", "timed", "neither"} : AddToBlacklist(e)
    \/ RegisterBackendDies
    \/ \E c \in RegisterCalls : RegisterStep(c)

\* The nightly job recurs.
RegistersFairness == WF_registersVars(May("scores") /\ RecalculateRiskScores)

-----------------------------------------------------------------------------
(* Properties.                                                             *)

RegistersTypeOK ==
    /\ asset \in Asset /\ ranked \in [AssetClassification -> 0..MaxVersions]
    /\ ranks \in 0..MaxVersions
    /\ vulnerability \in [Vulnerabilities -> VulnerabilityStatus \cup {None}]
    /\ rule \in FirewallRule /\ ruleHistory \in [last : 0..MaxVersions, gap : BOOLEAN]
    /\ attack \in [status : DdosAttackStatus \cup {None}, over : BOOLEAN]
    /\ blacklisted \subseteq {"permanent", "timed", "neither"}
    /\ regCall \in [RegisterCalls -> RegisterCall]

RegisterIsQuiet == \A c \in RegisterCalls : regCall[c].pc = "idle"

\* Once reclassified, an asset has a current classification whenever no request is under
\* way, however reclassifications overlap; where they do not, it has one, its own class
\* (reclassifyAsset ends, inserts and updates in separate requests).
ClassificationIsCurrent ==
    ~RegWritesFail /\ ~May("crash") /\ RegisterIsQuiet /\ ranks > 0 =>
        /\ \E l \in AssetClassification : ranked[l] > 0
        /\ ~May("overlap") => \A l \in AssetClassification :
                                ranked[l] = IF l = asset.class THEN 1 ELSE 0

\* Where changes of a rule do not overlap and no request fails, its history tells every
\* version, each after the one before, deleted or not (recordFirewallRuleHistory).
RuleHistoryIsComplete ==
    ~RegWritesFail /\ ~May("reads") /\ ~May("crash") /\ ~May("overlap") =>
        /\ ~ruleHistory.gap
        /\ RegisterIsQuiet => ruleHistory.last = rule.version

\* However its class and its vulnerabilities change, an asset that stays active gets the
\* score that follows from them, again and again (recalculateRiskScores).
ScoreFollows ==
    May("assets") /\ May("scores") =>
        []<>(asset.status = "ACTIVE" => asset.score = RiskScore)
=============================================================================
