-------------------------- MODULE ContinuityProofs --------------------------
(***************************************************************************)
(* Theorems about MCContinuity for any number of keys, incidents, pieces   *)
(* of evidence, cases, backups, plans, vendors' permissions, findings and  *)
(* requests.                                                               *)
(***************************************************************************)
EXTENDS MCContinuity, FiniteSetTheorems, SequenceTheorems, TLAPS

-----------------------------------------------------------------------------
(* The registers: an asset between two classifications, and a history one step behind its rule.  *)

\* What a request is for, and what it may rely on: rows that were there stay.
RegisterForm(k) ==
    /\ k.pc \in {"end", "insert", "patch", "save"} => k.kind \in {"asset", "reclassify"}
    /\ k.pc \in {"write", "history"} => k.kind \in {"update", "delete"}
    /\ k.kind \in {"asset", "reclassify"} => k.class \in AssetClassification /\ asset.status # None
    /\ k.kind \in {"update", "delete"} => rule.version # 0
OneChange == ~May("overlap") =>
    \A c, d \in RegisterCalls : regCall[c].pc # "idle" /\ regCall[d].pc # "idle" => c = d
\* Between its end and the next insert an asset has no current classification; then it has that
\* of the request, and, once the request has written it, its own.
HasOwn(class) == \A l \in AssetClassification : ranked[l] = IF l = class THEN 1 ELSE 0
Classified ==
    ~RegWritesFail /\ ~May("crash") =>
       /\ ranks > 0 => \/ \E l \in AssetClassification : ranked[l] > 0
                       \/ \E c \in RegisterCalls : regCall[c].pc = "insert"
       /\ ~May("overlap") =>
             /\ \A c \in RegisterCalls : regCall[c].pc = "insert" =>
                   \A l \in AssetClassification : ranked[l] = 0
             /\ \A c \in RegisterCalls : regCall[c].pc = "patch" => HasOwn(regCall[c].class)
             /\ ranks > 0 /\ (\A c \in RegisterCalls : regCall[c].pc \notin {"insert", "patch"}) =>
                   HasOwn(asset.class)
\* The history lags behind the rule only while a request is about to write it.
HistoryTells ==
    ~RegWritesFail /\ ~May("reads") /\ ~May("crash") /\ ~May("overlap") =>
       /\ ~ruleHistory.gap
       /\ \A c \in RegisterCalls :
             /\ regCall[c].pc = "write" => regCall[c].old = rule.version
             /\ regCall[c].pc = "history" => /\ regCall[c].old = ruleHistory.last
                                             /\ regCall[c].new = rule.version
       /\ (\A c \in RegisterCalls : regCall[c].pc # "history") => ruleHistory.last = rule.version

RegistersInv ==
    /\ RegistersTypeOK /\ (\A l \in AssetClassification : ranked[l] <= ranks)
    /\ ranks > 0 => asset.status # None
    /\ \A c \in RegisterCalls : RegisterForm(regCall[c])
    /\ OneChange /\ Classified /\ HistoryTells

\* The invariant of the registers implies what the run checks of them.
LEMMA RegistersSafe == RegistersInv => ClassificationIsCurrent /\ RuleHistoryIsComplete
BY DEF RegistersInv, Classified, HistoryTells, HasOwn, ClassificationIsCurrent, RuleHistoryIsComplete,
       RegisterIsQuiet, RegistersTypeOK

\* At the start the registers are empty.
LEMMA RegistersInitHolds == RegistersInit => RegistersInv
<1> SUFFICES ASSUME RegistersInit PROVE RegistersInv
  OBVIOUS
<1>1. MaxVersions \in Nat \ {0} /\ None \notin {"ACTIVE", "DECOMMISSIONED", "asset", "reclassify", "update", "delete"}
  BY RegistersAssumption
<1>2. /\ IdleRegisterCall \in RegisterCall /\ IdleRegisterCall.pc = "idle" /\ IdleRegisterCall.kind = None
  BY <1>1 DEF IdleRegisterCall, RegisterCall
<1>3. \A c \in RegisterCalls : regCall[c] = IdleRegisterCall
  BY DEF RegistersInit
<1>4. RegistersTypeOK
  BY <1>1, <1>2 DEF RegistersInit, RegistersTypeOK, Asset, AssetClassification, FirewallRule
<1>5. \A c \in RegisterCalls : RegisterForm(regCall[c])
  BY <1>1, <1>2, <1>3 DEF RegisterForm
<1>6. OneChange /\ Classified /\ HistoryTells
  BY <1>2, <1>3 DEF OneChange, Classified, HistoryTells, RegistersInit
<1> QED
  BY <1>4, <1>5, <1>6 DEF RegistersInv, RegistersInit

\* The steps of a reclassification, in their order.
LEMMA Steps == FirstStep = "end" /\ ReclassifySteps["end"] = "insert" /\ ReclassifySteps["insert"] = "patch"
<1>1. DOMAIN ReclassifySteps = {"end", "insert"}
  BY DEF ReclassifySteps
<1>2. ReclassifySteps["end"] = "insert" /\ ReclassifySteps["insert"] = "patch"
  BY DEF ReclassifySteps
<1>3. \A s \in DOMAIN ReclassifySteps :
         (\A t \in DOMAIN ReclassifySteps : ReclassifySteps[t] # s) <=> s = "end"
  BY <1>1, <1>2
<1> QED
  BY <1>1, <1>2, <1>3 DEF FirstStep

\* A request as it begins, goes on and ends.
LEMMA RegisterForms ==
    ASSUME RegistersInv, NEW c \in RegisterCalls
    PROVE  /\ regCall[c] \in RegisterCall /\ regCall \in [RegisterCalls -> RegisterCall]
           /\ IdleRegisterCall \in RegisterCall /\ IdleRegisterCall.pc = "idle" /\ RegisterForm(IdleRegisterCall)
           /\ \A pc \in {"end", "insert", "patch", "save"} :
                 LET g == [regCall[c] EXCEPT !.pc = pc] IN
                 /\ g \in RegisterCall /\ g.pc = pc /\ g.class = regCall[c].class /\ g.kind = regCall[c].kind
                 /\ regCall[c].kind \in {"asset", "reclassify"} => RegisterForm(g)
<1>1. regCall[c] \in RegisterCall /\ regCall \in [RegisterCalls -> RegisterCall] /\ RegisterForm(regCall[c])
  BY DEF RegistersInv, RegistersTypeOK
<1>2. IdleRegisterCall \in RegisterCall /\ IdleRegisterCall.pc = "idle" /\ IdleRegisterCall.kind = None
  BY RegistersAssumption DEF IdleRegisterCall, RegisterCall
<1>3. RegisterForm(IdleRegisterCall)
  BY <1>2, RegistersAssumption DEF RegisterForm
<1>4. ASSUME NEW pc \in {"end", "insert", "patch", "save"}
      PROVE  LET g == [regCall[c] EXCEPT !.pc = pc] IN
                 /\ g \in RegisterCall /\ g.pc = pc /\ g.class = regCall[c].class /\ g.kind = regCall[c].kind
                 /\ regCall[c].kind \in {"asset", "reclassify"} => RegisterForm(g)
  <2> DEFINE g == [regCall[c] EXCEPT !.pc = pc]
  <2>1. g \in RegisterCall /\ g.pc = pc /\ g.class = regCall[c].class /\ g.kind = regCall[c].kind
    BY <1>1 DEF RegisterCall
  <2> HIDE DEF g
  <2>2. regCall[c].kind \in {"asset", "reclassify"} => RegisterForm(g)
    BY <1>1, <2>1, RegistersAssumption DEF RegisterForm
  <2> QED
    BY <2>1, <2>2 DEF g
<1> QED
  BY <1>1, <1>2, <1>3, <1>4

\* One request moves; if the tables stay, what is known of the others stays.
LEMMA RequestTurns ==
    ASSUME RegistersInv, UNCHANGED <<allowed, asset, ranked, ranks, vulnerability, rule, ruleHistory, attack, blacklisted>>,
           NEW c \in RegisterCalls, NEW g \in RegisterCall, regCall' = [regCall EXCEPT ![c] = g],
           RegisterForm(g), regCall[c].pc \notin {"insert", "patch", "history"},
           g.pc \notin {"insert", "patch", "history"}, g.pc = "write" => g.old = rule.version \/ May("reads"),
           g.pc = "idle" \/ regCall[c].pc # "idle" \/ May("overlap") \/ \A d \in RegisterCalls : regCall[d].pc = "idle"
    PROVE  RegistersInv'
<1>0. /\ regCall \in [RegisterCalls -> RegisterCall]
      /\ regCall'[c] = g /\ \A d \in RegisterCalls \ {c} : regCall'[d] = regCall[d]
  BY DEF RegistersInv, RegistersTypeOK
<1>1. RegistersTypeOK'
  BY DEF RegistersInv, RegistersTypeOK
<1>2. ASSUME NEW d \in RegisterCalls PROVE RegisterForm(regCall[d])'
  <2>1. \A k : RegisterForm(k) => RegisterForm(k)'
    BY DEF RegisterForm
  <2>2. RegisterForm(regCall'[d])
    BY <1>0 DEF RegistersInv
  <2> QED
    BY <2>1, <2>2
<1>3. OneChange'
  BY <1>0 DEF RegistersInv, OneChange, May
<1>4. Classified'
  <2> SUFFICES ASSUME ~RegWritesFail, ~May("crash") PROVE Classified'
    BY DEF Classified, RegWritesFail, May
  <2>0. Classified
    BY DEF RegistersInv
  <2>1. \A d \in RegisterCalls : /\ regCall'[d].pc = "insert" <=> regCall[d].pc = "insert"
                                 /\ regCall'[d].pc = "patch" <=> regCall[d].pc = "patch"
                                 /\ regCall'[d].pc = "patch" => regCall'[d].class = regCall[d].class
    BY <1>0
  <2> QED
    BY <2>0, <2>1 DEF Classified, HasOwn, RegWritesFail, May
<1>5. HistoryTells'
  <2>1. \A d \in RegisterCalls : /\ regCall'[d].pc = "history" <=> regCall[d].pc = "history"
                                 /\ regCall'[d].pc = "history" => regCall'[d] = regCall[d]
                                 /\ regCall'[d].pc = "write" => \/ d = c /\ (g.old = rule.version \/ May("reads"))
                                                                \/ regCall'[d] = regCall[d]
    BY <1>0
  <2> QED
    BY <1>0, <2>1 DEF RegistersInv, HistoryTells, RegWritesFail, May
<1> QED
  BY <1>1, <1>2, <1>3, <1>4, <1>5 DEF RegistersInv

\* No request moves, and classifications and rules stay.
LEMMA RegisterRests ==
    ASSUME RegistersInv, UNCHANGED <<allowed, ranked, ranks, rule, ruleHistory, regCall>>,
           asset' \in Asset, asset.status # None => asset'.status # None,
           asset'.class = asset.class \/ ranks = 0,
           vulnerability' \in [Vulnerabilities -> VulnerabilityStatus \cup {None}],
           attack' \in [status : DdosAttackStatus \cup {None}, over : BOOLEAN],
           blacklisted' \subseteq {"permanent", "timed", "neither"}
    PROVE  RegistersInv'
<1>1. RegistersTypeOK' /\ (ranks > 0 => asset'.status # None)
  BY DEF RegistersInv, RegistersTypeOK
<1>2. ASSUME NEW d \in RegisterCalls PROVE RegisterForm(regCall[d])'
  <2>1. \A k : RegisterForm(k) => RegisterForm(k)'
    BY DEF RegisterForm
  <2>2. RegisterForm(regCall'[d])
    BY DEF RegistersInv
  <2> QED
    BY <2>1, <2>2
<1>3. OneChange' /\ HistoryTells'
  BY DEF RegistersInv, OneChange, HistoryTells, RegWritesFail, May
<1>4. Classified'
  BY RegistersAssumption DEF RegistersInv, RegistersTypeOK, Classified, HasOwn, RegWritesFail, May
<1> QED
  BY <1>1, <1>2, <1>3, <1>4 DEF RegistersInv

\* Creating and decommissioning assets, vulnerabilities and the risk scores keep it.
LEMMA AssetsKeep ==
    ASSUME RegistersInv, UNCHANGED allowed,
           \/ \E l \in AssetClassification : CreateAsset(l)
           \/ DecommissionAsset \/ RecalculateRiskScores
           \/ \E v \in Vulnerabilities :
                 AddVulnerability(v) \/ \E s \in VulnerabilityStatus : UpdateVulnerabilityStatus(v, s)
    PROVE  RegistersInv'
<1>0. /\ asset \in Asset /\ ranks \in Nat /\ (ranks > 0 => asset.status # None)
      /\ vulnerability \in [Vulnerabilities -> VulnerabilityStatus \cup {None}]
      /\ attack \in [status : DdosAttackStatus \cup {None}, over : BOOLEAN]
      /\ blacklisted \subseteq {"permanent", "timed", "neither"}
      /\ None \notin {"ACTIVE", "DECOMMISSIONED"} /\ IsFiniteSet(Vulnerabilities)
  BY RegistersAssumption DEF RegistersInv, RegistersTypeOK
<1>1. ASSUME NEW l \in AssetClassification, CreateAsset(l) PROVE RegistersInv'
  <2> DEFINE g == [asset EXCEPT !.status = "ACTIVE", !.class = l]
  <2>1. g \in Asset /\ g.status = "ACTIVE"
    BY <1>0 DEF Asset
  <2>2. /\ asset' = g /\ asset.status = None
        /\ UNCHANGED <<ranked, ranks, vulnerability, rule, ruleHistory, attack, blacklisted, regCall>>
    BY <1>1, Zenon DEF CreateAsset, networkVars
  <2>3. ranks = 0
    BY <1>0, <2>2
  <2> HIDE DEF g
  <2>4. asset' \in Asset /\ asset'.status # None
    BY <1>0, <2>1, <2>2
  <2> QED
    BY <1>0, <2>2, <2>3, <2>4, RegisterRests
<1>2. CASE DecommissionAsset
  <2>1. /\ asset' \in Asset /\ asset'.status = "DECOMMISSIONED" /\ asset'.class = asset.class
        /\ UNCHANGED <<ranked, ranks, vulnerability, rule, ruleHistory, attack, blacklisted, regCall>>
    BY <1>0, <1>2 DEF DecommissionAsset, Asset, networkVars
  <2> QED
    BY <1>0, <2>1, RegisterRests
<1>3. CASE RecalculateRiskScores
  <2>1. RiskScore \in 0..100
    <3> DEFINE n == Cardinality(OpenVulnerabilities)
               m == Cardinality(OpenVulnerabilities \cap Severe)
    <3>1. IsFiniteSet(OpenVulnerabilities) /\ IsFiniteSet(OpenVulnerabilities \cap Severe)
      BY <1>0, FS_Subset DEF OpenVulnerabilities
    <3>2. n \in Nat /\ m \in Nat
      BY <3>1, FS_CardinalityType
    <3> HIDE DEF n, m
    <3>3. RiskScore = Least(100, (IF asset.class = "CRITICAL" THEN 40 ELSE 10) + Least(20, 2 * n) + Least(20, 5 * m))
      BY DEF RiskScore, n, m
    <3>4. Least(20, 2 * n) \in 0..20 /\ Least(20, 5 * m) \in 0..20
      BY <3>2 DEF Least
    <3> QED
      BY <3>3, <3>4 DEF Least
  <2> HIDE DEF RiskScore
  <2>2. /\ asset' \in Asset /\ asset'.status = asset.status /\ asset'.class = asset.class
        /\ UNCHANGED <<ranked, ranks, vulnerability, rule, ruleHistory, attack, blacklisted, regCall>>
    BY <1>0, <1>3, <2>1 DEF RecalculateRiskScores, Asset, networkVars
  <2> QED
    BY <1>0, <2>2, RegisterRests
<1>4. ASSUME NEW v \in Vulnerabilities,
             AddVulnerability(v) \/ \E s \in VulnerabilityStatus : UpdateVulnerabilityStatus(v, s)
      PROVE  RegistersInv'
  <2>1. /\ vulnerability' \in [Vulnerabilities -> VulnerabilityStatus \cup {None}]
        /\ UNCHANGED <<asset, ranked, ranks, rule, ruleHistory, attack, blacklisted, regCall>>
    BY <1>0, <1>4 DEF AddVulnerability, UpdateVulnerabilityStatus, VulnerabilityStatus, networkVars
  <2> QED
    BY <1>0, <2>1, RegisterRests
<1> QED
  BY <1>1, <1>2, <1>3, <1>4

\* Attacks and the blacklist keep it.
LEMMA AttacksKeep ==
    ASSUME RegistersInv, UNCHANGED allowed,
           \/ RecordDdosAttack \/ RemoveFromBlacklist
           \/ \E s \in DdosAttackStatus : UpdateDdosAttackStatus(s)
           \/ \E e \in {"permanent", "timed", "neither"} : AddToBlacklist(e)
    PROVE  RegistersInv'
<1>0. /\ asset \in Asset /\ blacklisted \subseteq {"permanent", "timed", "neither"}
      /\ vulnerability \in [Vulnerabilities -> VulnerabilityStatus \cup {None}]
      /\ attack \in [status : DdosAttackStatus \cup {None}, over : BOOLEAN]
  BY DEF RegistersInv, RegistersTypeOK
<1>1. UNCHANGED <<asset, ranked, ranks, vulnerability, rule, ruleHistory, regCall>>
  BY DEF RecordDdosAttack, RemoveFromBlacklist, UpdateDdosAttackStatus, AddToBlacklist, assetVars
<1>2. attack' \in [status : DdosAttackStatus \cup {None}, over : BOOLEAN]
  <2>1. ASSUME NEW s \in DdosAttackStatus, UpdateDdosAttackStatus(s)
        PROVE  attack' \in [status : DdosAttackStatus \cup {None}, over : BOOLEAN]
    <3>1. attack' = [status |-> s, over |-> attack.over \/ s # "ongoing"]
      BY <2>1 DEF UpdateDdosAttackStatus
    <3>2. (attack.over \/ s # "ongoing") \in BOOLEAN
      OBVIOUS
    <3> QED
      BY <3>1, <3>2
  <2>2. RecordDdosAttack => attack' \in [status : DdosAttackStatus \cup {None}, over : BOOLEAN]
    BY DEF RecordDdosAttack, DdosAttackStatus
  <2>3. RemoveFromBlacklist \/ (\E e \in {"permanent", "timed", "neither"} : AddToBlacklist(e)) => attack' = attack
    BY DEF RemoveFromBlacklist, AddToBlacklist
  <2> QED
    BY <1>0, <2>1, <2>2, <2>3
<1>3. blacklisted' \subseteq {"permanent", "timed", "neither"}
  BY <1>0 DEF RecordDdosAttack, RemoveFromBlacklist, UpdateDdosAttackStatus, AddToBlacklist
<1> QED
  BY <1>0, <1>1, <1>2, <1>3, RegisterRests

\* A request about an asset or a rule begins.
LEMMA BeginRegKeeps ==
    ASSUME RegistersInv, UNCHANGED allowed, NEW c \in RegisterCalls,
           NEW kind \in {"asset", "reclassify", "update", "delete"},
           NEW class \in AssetClassification \cup {None}, NEW pc \in {"read", "end"},
           pc = "end" => kind = "reclassify",
           kind \in {"asset", "reclassify"} => class \in AssetClassification /\ asset.status # None,
           kind \in {"update", "delete"} => rule.version # 0,
           BeginReg(c, kind, class, pc)
    PROVE  RegistersInv'
<1> DEFINE g == [IdleRegisterCall EXCEPT !.kind = kind, !.class = class, !.pc = pc]
<1>0. 0 \in 0..MaxVersions
  BY RegistersAssumption
<1>1. g \in RegisterCall /\ g.pc = pc /\ g.kind = kind /\ g.class = class
  BY <1>0 DEF IdleRegisterCall, RegisterCall
<1>2. /\ regCall' = [regCall EXCEPT ![c] = g] /\ regCall[c].pc = "idle"
      /\ May("overlap") \/ \A d \in RegisterCalls : regCall[d].pc = "idle"
      /\ UNCHANGED <<asset, ranked, ranks, vulnerability, rule, ruleHistory, attack, blacklisted>>
  BY DEF BeginReg, registerRows, assetVars, networkVars
<1> HIDE DEF g
<1>3. RegisterForm(g)
  BY <1>1 DEF RegisterForm
<1> QED
  BY <1>1, <1>2, <1>3, RequestTurns

\* So does each kind of request.
LEMMA RequestsBegin ==
    ASSUME RegistersInv, UNCHANGED allowed, NEW c \in RegisterCalls,
           \/ \E l \in AssetClassification : UpdateAsset(c, l) \/ ReclassifyAsset(c, l)
           \/ \E kind \in {"update", "delete"} : ChangeFirewallRule(c, kind)
    PROVE  RegistersInv'
<1>1. ASSUME NEW l \in AssetClassification, UpdateAsset(c, l) PROVE RegistersInv'
  BY <1>1, BeginRegKeeps DEF UpdateAsset
<1>2. ASSUME NEW l \in AssetClassification, ReclassifyAsset(c, l) PROVE RegistersInv'
  BY <1>2, BeginRegKeeps, Steps DEF ReclassifyAsset
<1>3. ASSUME NEW kind \in {"update", "delete"}, ChangeFirewallRule(c, kind) PROVE RegistersInv'
  BY <1>3, BeginRegKeeps DEF ChangeFirewallRule
<1> QED
  BY <1>1, <1>2, <1>3

\* Reading an asset or a rule, and saving an asset, keep it.
LEMMA ReadsAndSavesKeep ==
    ASSUME RegistersInv, UNCHANGED allowed, NEW c \in RegisterCalls,
           GetAssetById(c) \/ SaveAsset(c) \/ GetFirewallRule(c)
    PROVE  RegistersInv'
<1>0. /\ regCall[c] \in RegisterCall /\ RegisterForm(regCall[c])
      /\ IdleRegisterCall \in RegisterCall /\ IdleRegisterCall.pc = "idle" /\ RegisterForm(IdleRegisterCall)
  BY RegisterForms DEF RegistersInv
<1>1. CASE GetAssetById(c)
  <2> DEFINE pc == IF regCall[c].class # asset.class THEN "end" ELSE "save"
             g == [regCall[c] EXCEPT !.pc = pc]
  <2>0. pc \in {"end", "save"} /\ regCall[c].pc = "read" /\ regCall[c].kind = "asset"
    BY <1>1 DEF GetAssetById
  <2>1. regCall' = [regCall EXCEPT ![c] = g]
        /\ UNCHANGED <<asset, ranked, ranks, vulnerability, rule, ruleHistory, attack, blacklisted>>
    BY <1>1, Steps DEF GetAssetById, RegAt, registerRows, assetVars, networkVars
  <2> HIDE DEF pc
  <2>2. g \in RegisterCall /\ g.pc = pc /\ RegisterForm(g)
    BY <2>0, RegisterForms
  <2> HIDE DEF g
  <2> QED
    BY <2>0, <2>1, <2>2, RequestTurns
<1>2. CASE SaveAsset(c)
  <2>1. /\ regCall' = [regCall EXCEPT ![c] = IdleRegisterCall] /\ regCall[c].pc = "save"
        /\ UNCHANGED <<asset, ranked, ranks, vulnerability, rule, ruleHistory, attack, blacklisted>>
    BY <1>2 DEF SaveAsset, Reclassifying, RegEnds, registerRows, assetVars, networkVars
  <2> QED
    BY <1>0, <2>1, RequestTurns
<1>3. CASE GetFirewallRule(c)
  <2>0. PICK old \in {rule.version} \cup (IF May("reads") THEN {0} ELSE {}) :
           regCall' = [regCall EXCEPT ![c].pc = "write", ![c].old = old]
    BY <1>3 DEF GetFirewallRule
  <2> DEFINE g == [regCall[c] EXCEPT !.pc = "write", !.old = old]
  <2>1. /\ regCall' = [regCall EXCEPT ![c] = g] /\ regCall[c].pc = "read" /\ regCall[c].kind \in {"update", "delete"}
        /\ UNCHANGED <<asset, ranked, ranks, vulnerability, rule, ruleHistory, attack, blacklisted>>
    BY <1>3, <2>0 DEF GetFirewallRule, registerRows, assetVars, networkVars
  <2>2. old \in 0..MaxVersions /\ (old = rule.version \/ May("reads"))
    BY <2>0, RegistersAssumption DEF RegistersInv, RegistersTypeOK, FirewallRule
  <2>3. g \in RegisterCall /\ g.pc = "write" /\ g.old = old /\ g.kind = regCall[c].kind /\ g.class = regCall[c].class
    BY <1>0, <2>2 DEF RegisterCall
  <2> HIDE DEF g
  <2>4. RegisterForm(g)
    BY <1>0, <2>1, <2>3 DEF RegisterForm
  <2> QED
    BY <2>1, <2>2, <2>3, <2>4, RequestTurns
<1> QED
  BY <1>1, <1>2, <1>3

\* One request moves and writes: what is left to show is what the tables it wrote say.
LEMMA RequestWrites ==
    ASSUME RegistersInv, UNCHANGED <<allowed, vulnerability, attack, blacklisted>>,
           NEW c \in RegisterCalls, NEW g \in RegisterCall, regCall' = [regCall EXCEPT ![c] = g],
           regCall[c].pc # "idle", RegisterForm(g),
           asset' \in Asset, asset.status # None => asset'.status # None,
           ranked' \in [AssetClassification -> 0..MaxVersions], ranks' \in 0..MaxVersions,
           \A l \in AssetClassification : ranked'[l] <= ranks', ranks' > 0 => asset'.status # None,
           rule' \in FirewallRule, rule.version # 0 => rule'.version # 0,
           ruleHistory' \in [last : 0..MaxVersions, gap : BOOLEAN],
           \/ Classified'
           \/ UNCHANGED <<asset, ranked, ranks>> /\ regCall[c].pc \notin {"insert", "patch"} /\ g.pc \notin {"insert", "patch"},
           \/ HistoryTells'
           \/ UNCHANGED <<rule, ruleHistory>> /\ regCall[c].pc # "history" /\ g.pc \notin {"write", "history"}
    PROVE  RegistersInv'
<1>0. /\ regCall \in [RegisterCalls -> RegisterCall]
      /\ regCall'[c] = g /\ \A d \in RegisterCalls \ {c} : regCall'[d] = regCall[d]
  BY DEF RegistersInv, RegistersTypeOK
<1>1. RegistersTypeOK'
  BY DEF RegistersInv, RegistersTypeOK
<1>2. ASSUME NEW d \in RegisterCalls PROVE RegisterForm(regCall[d])'
  <2>1. \A k : RegisterForm(k) => RegisterForm(k)'
    BY DEF RegisterForm
  <2>2. RegisterForm(regCall'[d])
    BY <1>0 DEF RegistersInv
  <2> QED
    BY <2>1, <2>2
<1>3. OneChange'
  BY <1>0 DEF RegistersInv, OneChange, May
<1>4. Classified'
  <2> SUFFICES ASSUME ~RegWritesFail, ~May("crash"), UNCHANGED <<asset, ranked, ranks>>,
                      regCall[c].pc \notin {"insert", "patch"}, g.pc \notin {"insert", "patch"}
               PROVE  Classified'
    BY DEF Classified, RegWritesFail, May
  <2>1. \A d \in RegisterCalls : /\ regCall'[d].pc = "insert" <=> regCall[d].pc = "insert"
                                 /\ regCall'[d].pc = "patch" <=> regCall[d].pc = "patch"
                                 /\ regCall'[d].pc = "patch" => regCall'[d].class = regCall[d].class
    BY <1>0
  <2> QED
    BY <2>1 DEF RegistersInv, Classified, HasOwn, RegWritesFail, May
<1>5. HistoryTells'
  <2> SUFFICES ASSUME UNCHANGED <<rule, ruleHistory>>, regCall[c].pc # "history", g.pc \notin {"write", "history"}
               PROVE  HistoryTells'
    OBVIOUS
  <2>1. \A d \in RegisterCalls : /\ regCall'[d].pc = "history" <=> regCall[d].pc = "history"
                                 /\ regCall'[d].pc \in {"write", "history"} => regCall'[d] = regCall[d]
    BY <1>0
  <2> QED
    BY <1>0, <2>1 DEF RegistersInv, HistoryTells, RegWritesFail, May
<1> QED
  BY <1>1, <1>2, <1>3, <1>4, <1>5 DEF RegistersInv

\* The three steps of a reclassification keep it.
LEMMA ReclassificationsKeep ==
    ASSUME RegistersInv, UNCHANGED allowed, NEW c \in RegisterCalls,
           EndClassifications(c) \/ InsertClassification(c) \/ ClassifyAsset(c)
    PROVE  RegistersInv'
<1>0. /\ regCall \in [RegisterCalls -> RegisterCall] /\ regCall[c] \in RegisterCall /\ RegisterForm(regCall[c])
      /\ IdleRegisterCall \in RegisterCall /\ IdleRegisterCall.pc = "idle" /\ RegisterForm(IdleRegisterCall)
      /\ asset \in Asset /\ ranked \in [AssetClassification -> 0..MaxVersions] /\ ranks \in 0..MaxVersions
      /\ \A l \in AssetClassification : ranked[l] <= ranks
      /\ ranks > 0 => asset.status # None
      /\ rule \in FirewallRule /\ ruleHistory \in [last : 0..MaxVersions, gap : BOOLEAN] /\ MaxVersions \in Nat
  BY RegisterForms, RegistersAssumption DEF RegistersInv, RegistersTypeOK
<1>1. CASE EndClassifications(c)
  <2> DEFINE g == [regCall[c] EXCEPT !.pc = "insert"]
  <2>1. /\ regCall' = [regCall EXCEPT ![c] = g] /\ regCall[c].pc = "end"
        /\ regCall[c].kind \in {"asset", "reclassify"}
        /\ UNCHANGED <<asset, ranks, vulnerability, rule, ruleHistory, attack, blacklisted>>
        /\ ranked' = [l \in AssetClassification |-> 0] \/ (RegWritesFail /\ UNCHANGED ranked)
    BY <1>1, Steps DEF EndClassifications, Reclassifying, RegAt, networkVars
  <2>2. g \in RegisterCall /\ g.pc = "insert" /\ RegisterForm(g)
    BY <2>1, RegisterForms
  <2> HIDE DEF g
  <2>3. /\ ranked' \in [AssetClassification -> 0..MaxVersions]
        /\ \A l \in AssetClassification : ranked'[l] <= ranks
    BY <1>0, <2>1
  <2>4. Classified'
    <3> SUFFICES ASSUME ~RegWritesFail PROVE Classified'
      BY DEF Classified, RegWritesFail, May
    <3>1. /\ \A l \in AssetClassification : ranked'[l] = 0
          /\ regCall'[c].pc = "insert" /\ \A d \in RegisterCalls \ {c} : regCall'[d] = regCall[d]
      BY <1>0, <2>1, <2>2
    <3>2. ~May("overlap") => \A d \in RegisterCalls \ {c} : regCall[d].pc = "idle"
      BY <2>1 DEF RegistersInv, OneChange
    <3> QED
      BY <3>1, <3>2 DEF Classified, HasOwn, May
  <2> QED
    BY <1>0, <2>1, <2>2, <2>3, <2>4, RequestWrites
<1>2. CASE InsertClassification(c)
  <2> DEFINE g == [regCall[c] EXCEPT !.pc = "patch"]
  <2>1. /\ regCall' = [regCall EXCEPT ![c] = g] /\ regCall[c].pc = "insert" /\ ranks < MaxVersions
        /\ regCall[c].kind \in {"asset", "reclassify"}
        /\ UNCHANGED <<asset, vulnerability, rule, ruleHistory, attack, blacklisted>>
        /\ \/ ranked' = [ranked EXCEPT ![regCall[c].class] = @ + 1] /\ ranks' = ranks + 1
           \/ RegWritesFail /\ UNCHANGED <<ranked, ranks>>
    BY <1>2, Steps DEF InsertClassification, Reclassifying, RegAt, networkVars
  <2>2. g \in RegisterCall /\ g.pc = "patch" /\ g.class = regCall[c].class /\ RegisterForm(g)
    BY <2>1, RegisterForms
  <2> HIDE DEF g
  <2>3. regCall[c].class \in AssetClassification /\ asset.status # None
    BY <1>0, <2>1 DEF RegisterForm
  <2>4. /\ ranked' \in [AssetClassification -> 0..MaxVersions] /\ ranks' \in 0..MaxVersions
        /\ \A l \in AssetClassification : ranked'[l] <= ranks'
    <3>1. CASE UNCHANGED <<ranked, ranks>>
      BY <1>0, <3>1
    <3>2. CASE ranked' = [ranked EXCEPT ![regCall[c].class] = @ + 1] /\ ranks' = ranks + 1
      <4>1. \A l \in AssetClassification : ranked'[l] \in {ranked[l], ranked[l] + 1}
        BY <1>0, <2>3, <3>2
      <4>2. \A l \in AssetClassification : ranked[l] \in Nat /\ ranked[l] <= ranks
        BY <1>0
      <4>3. \A l \in AssetClassification : ranked'[l] \in 0..MaxVersions /\ ranked'[l] <= ranks'
        BY <1>0, <2>1, <3>2, <4>1, <4>2
      <4>4. DOMAIN ranked' = AssetClassification /\ ranked' = [l \in AssetClassification |-> ranked'[l]]
        BY <1>0, <3>2
      <4>5. ranked' \in [AssetClassification -> 0..MaxVersions]
        BY <4>3, <4>4
      <4>6. ranks' \in 0..MaxVersions
        BY <1>0, <2>1, <3>2
      <4> QED
        BY <4>3, <4>5, <4>6
    <3> QED
      BY <2>1, <3>1, <3>2
  <2>5. Classified'
    <3> SUFFICES ASSUME ~RegWritesFail, ~May("crash") PROVE Classified'
      BY DEF Classified, RegWritesFail, May
    <3>1. /\ regCall'[c] = g /\ \A d \in RegisterCalls \ {c} : regCall'[d] = regCall[d]
      BY <1>0, <2>1
    <3>2. ~May("overlap") => \A d \in RegisterCalls \ {c} : regCall[d].pc = "idle"
      BY <2>1 DEF RegistersInv, OneChange
    <3>3. ranked'[regCall[c].class] > 0
          /\ \A l \in AssetClassification \ {regCall[c].class} : ranked'[l] = ranked[l]
      BY <1>0, <2>1, <2>3
    <3>4. ~May("overlap") => \A l \in AssetClassification : ranked[l] = 0
      BY <2>1 DEF RegistersInv, Classified
    <3>5. ~May("overlap") => \A l \in AssetClassification : ranked'[l] = IF l = regCall[c].class THEN 1 ELSE 0
      BY <1>0, <2>1, <2>3, <3>4
    <3> QED
      BY <2>2, <2>3, <3>1, <3>2, <3>3, <3>5 DEF Classified, HasOwn, May
  <2> QED
    BY <1>0, <2>1, <2>2, <2>3, <2>4, <2>5, RequestWrites
<1>3. CASE ClassifyAsset(c)
  <2> DEFINE g == IF regCall[c].kind = "asset" THEN [regCall[c] EXCEPT !.pc = "save"] ELSE IdleRegisterCall
  <2>1. /\ regCall' = [regCall EXCEPT ![c] = g] /\ regCall[c].pc = "patch"
        /\ regCall[c].kind \in {"asset", "reclassify"}
        /\ UNCHANGED <<ranked, ranks, vulnerability, rule, ruleHistory, attack, blacklisted>>
        /\ \/ asset' = [asset EXCEPT !.class = regCall[c].class]
           \/ RegWritesFail /\ UNCHANGED asset
    BY <1>3 DEF ClassifyAsset, Reclassifying, RegAt, RegEnds, networkVars
  <2>2. g \in RegisterCall /\ g.pc \in {"save", "idle"} /\ RegisterForm(g)
    <3>1. CASE regCall[c].kind = "asset"
      BY <2>1, <3>1, RegisterForms
    <3>2. CASE regCall[c].kind # "asset"
      BY <1>0, <3>2
    <3> QED
      BY <3>1, <3>2
  <2> HIDE DEF g
  <2>3. regCall[c].class \in AssetClassification
    BY <1>0, <2>1 DEF RegisterForm
  <2>4. asset' \in Asset /\ asset'.status = asset.status
    BY <1>0, <2>1, <2>3 DEF Asset
  <2>5. Classified'
    <3> SUFFICES ASSUME ~RegWritesFail, ~May("crash") PROVE Classified'
      BY DEF Classified, RegWritesFail, May
    <3>1. /\ regCall'[c] = g /\ \A d \in RegisterCalls \ {c} : regCall'[d] = regCall[d]
      BY <1>0, <2>1
    <3>2. ~May("overlap") => \A d \in RegisterCalls \ {c} : regCall[d].pc = "idle"
      BY <2>1 DEF RegistersInv, OneChange
    <3>3. asset'.class = regCall[c].class
      BY <1>0, <2>1 DEF Asset
    <3>4. ~May("overlap") => HasOwn(regCall[c].class)
      BY <2>1 DEF RegistersInv, Classified
    <3>5. ranks > 0 => \/ \E l \in AssetClassification : ranked[l] > 0
                       \/ \E d \in RegisterCalls \ {c} : regCall[d].pc = "insert"
      BY <2>1 DEF RegistersInv, Classified
    <3> QED
      BY <2>1, <2>2, <3>1, <3>2, <3>3, <3>4, <3>5 DEF Classified, HasOwn, May
  <2> QED
    BY <1>0, <2>1, <2>2, <2>4, <2>5, RequestWrites
<1> QED
  BY <1>1, <1>2, <1>3

\* What is told, and what it leaves.
LEMMA ToldForm ==
    ASSUME ruleHistory \in [last : 0..MaxVersions, gap : BOOLEAN], NEW o, NEW n \in 0..MaxVersions
    PROVE  /\ Told(o, n) \in [last : 0..MaxVersions, gap : BOOLEAN] /\ Told(o, n).last = n
           /\ ~ruleHistory.gap /\ o = ruleHistory.last => ~Told(o, n).gap
<1> DEFINE b == ruleHistory.gap \/ o # ruleHistory.last
<1>1. b \in BOOLEAN /\ (~ruleHistory.gap /\ o = ruleHistory.last => ~b)
  OBVIOUS
<1>2. Told(o, n) = [last |-> n, gap |-> b]
  BY DEF Told
<1> HIDE DEF b
<1> QED
  BY <1>1, <1>2

\* Writing a rule and its history keeps it.
LEMMA RulesKeep ==
    ASSUME RegistersInv, UNCHANGED allowed, NEW c \in RegisterCalls,
           UpdateFirewallRule(c) \/ RecordFirewallRuleHistory(c)
    PROVE  RegistersInv'
<1>0. /\ regCall \in [RegisterCalls -> RegisterCall] /\ regCall[c] \in RegisterCall /\ RegisterForm(regCall[c])
      /\ IdleRegisterCall \in RegisterCall /\ IdleRegisterCall.pc = "idle" /\ RegisterForm(IdleRegisterCall)
      /\ asset \in Asset /\ ranked \in [AssetClassification -> 0..MaxVersions] /\ ranks \in 0..MaxVersions
      /\ \A l \in AssetClassification : ranked[l] <= ranks
      /\ ranks > 0 => asset.status # None
      /\ rule \in FirewallRule /\ ruleHistory \in [last : 0..MaxVersions, gap : BOOLEAN] /\ MaxVersions \in Nat
  BY RegisterForms, RegistersAssumption DEF RegistersInv, RegistersTypeOK
<1>1. ASSUME NEW g \in RegisterCall, regCall' = [regCall EXCEPT ![c] = g], regCall[c].pc # "idle"
      PROVE  /\ regCall'[c] = g /\ \A d \in RegisterCalls \ {c} : regCall'[d] = regCall[d]
             /\ ~May("overlap") => \A d \in RegisterCalls \ {c} : regCall'[d].pc = "idle"
  <2>1. ~May("overlap") => \A d \in RegisterCalls \ {c} : regCall[d].pc = "idle"
    BY <1>1 DEF RegistersInv, OneChange
  <2> QED
    BY <1>0, <1>1, <2>1
<1>2. CASE UpdateFirewallRule(c)
  <2> DEFINE h == [regCall[c] EXCEPT !.pc = "history", !.new = rule'.version]
  <2>1. /\ regCall[c].pc = "write" /\ rule.version < MaxVersions
        /\ UNCHANGED <<asset, ranked, ranks, vulnerability, ruleHistory, attack, blacklisted>>
        /\ \/ /\ rule' = IF regCall[c].kind = "delete" THEN [rule EXCEPT !.active = FALSE]
                         ELSE [rule EXCEPT !.version = @ + 1]
              /\ regCall' = [regCall EXCEPT ![c] = h]
           \/ RegWritesFail /\ regCall' = [regCall EXCEPT ![c] = IdleRegisterCall] /\ UNCHANGED rule
    BY <1>2 DEF UpdateFirewallRule, RegEnds, assetVars
  <2>2. CASE RegWritesFail /\ regCall' = [regCall EXCEPT ![c] = IdleRegisterCall] /\ UNCHANGED rule
    <3>1. HistoryTells'
      BY <2>2 DEF HistoryTells, RegWritesFail, May
    <3> QED
      BY <1>0, <2>1, <2>2, <3>1, RequestWrites
  <2>3. CASE /\ rule' = IF regCall[c].kind = "delete" THEN [rule EXCEPT !.active = FALSE]
                        ELSE [rule EXCEPT !.version = @ + 1]
             /\ regCall' = [regCall EXCEPT ![c] = h]
    <3>1. regCall[c].kind \in {"update", "delete"} /\ rule.version # 0
      BY <1>0, <2>1 DEF RegisterForm
    <3>2. /\ rule' \in FirewallRule /\ rule'.version # 0 /\ rule'.version \in 0..MaxVersions
      <4>1. CASE regCall[c].kind = "delete"
        <5>1. rule' = [rule EXCEPT !.active = FALSE]
          BY <2>3, <4>1
        <5> QED
          BY <1>0, <3>1, <5>1, Zenon DEF FirewallRule
      <4>2. CASE regCall[c].kind # "delete"
        <5>1. rule' = [rule EXCEPT !.version = @ + 1]
          BY <2>3, <4>2
        <5>2. rule.version + 1 \in 0..MaxVersions /\ rule.version + 1 # 0
          BY <1>0, <2>1 DEF FirewallRule
        <5> QED
          BY <1>0, <5>1, <5>2 DEF FirewallRule
      <4> QED
        BY <4>1, <4>2
    <3>3. h \in RegisterCall /\ h.pc = "history" /\ h.new = rule'.version /\ h.kind = regCall[c].kind /\ h.old = regCall[c].old
      BY <1>0, <3>2 DEF RegisterCall
    <3> HIDE DEF h
    <3>4. RegisterForm(h)
      BY <3>1, <3>3, RegistersAssumption DEF RegisterForm
    <3>5. HistoryTells'
      <4> SUFFICES ASSUME ~RegWritesFail, ~May("reads"), ~May("crash"), ~May("overlap") PROVE HistoryTells'
        BY DEF HistoryTells, RegWritesFail, May
      <4>1. regCall[c].old = rule.version
        BY <2>1 DEF RegistersInv, HistoryTells
      <4>2. \A d \in RegisterCalls : regCall[d].pc # "history"
        BY <2>1 DEF RegistersInv, OneChange
      <4>3. ruleHistory.last = rule.version /\ ~ruleHistory.gap
        BY <4>2 DEF RegistersInv, HistoryTells
      <4>4. regCall'[c] = h /\ \A d \in RegisterCalls \ {c} : regCall'[d].pc = "idle"
        BY <1>1, <2>1, <2>3, <3>3
      <4> QED
        BY <2>1, <3>3, <4>1, <4>3, <4>4 DEF HistoryTells
    <3> QED
      BY <1>0, <2>1, <2>3, <3>2, <3>3, <3>4, <3>5, RequestWrites
  <2> QED
    BY <2>1, <2>2, <2>3
<1>3. CASE RecordFirewallRuleHistory(c)
  <2>1. /\ regCall[c].pc = "history" /\ regCall' = [regCall EXCEPT ![c] = IdleRegisterCall]
        /\ UNCHANGED <<asset, ranked, ranks, vulnerability, rule, attack, blacklisted>>
        /\ \/ ruleHistory' = Told(regCall[c].old, regCall[c].new)
           \/ RegWritesFail /\ UNCHANGED ruleHistory
    BY <1>3 DEF RecordFirewallRuleHistory, RegEnds, assetVars, OldValues
  <2>2. /\ regCall[c].new \in 0..MaxVersions
        /\ Told(regCall[c].old, regCall[c].new) \in [last : 0..MaxVersions, gap : BOOLEAN]
        /\ Told(regCall[c].old, regCall[c].new).last = regCall[c].new
        /\ ~ruleHistory.gap /\ regCall[c].old = ruleHistory.last => ~Told(regCall[c].old, regCall[c].new).gap
    BY <1>0, ToldForm DEF RegisterCall
  <2>3. HistoryTells'
    <3> SUFFICES ASSUME ~RegWritesFail, ~May("reads"), ~May("crash"), ~May("overlap") PROVE HistoryTells'
      BY DEF HistoryTells, RegWritesFail, May
    <3>1. regCall[c].old = ruleHistory.last /\ regCall[c].new = rule.version /\ ~ruleHistory.gap
      BY <2>1 DEF RegistersInv, HistoryTells
    <3>2. \A d \in RegisterCalls : regCall'[d].pc = "idle"
      BY <1>0, <1>1, <2>1
    <3>3. ruleHistory'.last = rule'.version /\ ~ruleHistory'.gap
      BY <2>1, <2>2, <3>1
    <3> QED
      BY <3>2, <3>3 DEF HistoryTells
  <2> QED
    BY <1>0, <2>1, <2>2, <2>3, RequestWrites
<1> QED
  BY <1>2, <1>3

\* Creating a rule writes its first version and the history of it.
LEMMA CreateFirewallRuleKeeps ==
    ASSUME RegistersInv, UNCHANGED allowed, CreateFirewallRule PROVE RegistersInv'
<1>0. /\ regCall \in [RegisterCalls -> RegisterCall] /\ 1 \in 0..MaxVersions
      /\ rule \in FirewallRule /\ ruleHistory \in [last : 0..MaxVersions, gap : BOOLEAN]
  BY RegistersAssumption DEF RegistersInv, RegistersTypeOK
<1>1. /\ rule.version = 0 /\ rule' = [active |-> TRUE, version |-> 1]
      /\ UNCHANGED <<asset, ranked, ranks, vulnerability, attack, blacklisted, regCall>>
      /\ \/ ruleHistory' = Told(0, 1)
         \/ RegWritesFail /\ UNCHANGED ruleHistory
  BY DEF CreateFirewallRule, assetVars
<1>2. rule' \in FirewallRule /\ rule'.version = 1 /\ ruleHistory' \in [last : 0..MaxVersions, gap : BOOLEAN]
  BY <1>0, <1>1, ToldForm DEF FirewallRule
<1>3. \A c \in RegisterCalls : RegisterForm(regCall[c]) /\ regCall[c].pc \notin {"write", "history"}
  BY <1>1 DEF RegistersInv, RegisterForm
<1>4. RegistersTypeOK'
  BY <1>1, <1>2 DEF RegistersInv, RegistersTypeOK
<1>5. ASSUME NEW d \in RegisterCalls PROVE RegisterForm(regCall[d])'
  <2>1. \A k : RegisterForm(k) => RegisterForm(k)'
    BY <1>1, <1>2 DEF RegisterForm
  <2> QED
    BY <1>1, <1>3, <2>1
<1>6. OneChange' /\ Classified'
  BY <1>1 DEF RegistersInv, OneChange, Classified, HasOwn, RegWritesFail, May
<1>7. HistoryTells'
  <2> SUFFICES ASSUME ~RegWritesFail, ~May("reads"), ~May("crash"), ~May("overlap") PROVE HistoryTells'
    BY DEF HistoryTells, RegWritesFail, May
  <2>1. ruleHistory.last = 0 /\ ~ruleHistory.gap
    BY <1>1, <1>3 DEF RegistersInv, HistoryTells
  <2>2. ruleHistory'.last = 1 /\ ~ruleHistory'.gap
    BY <1>0, <1>1, <2>1, ToldForm
  <2> QED
    BY <1>1, <1>2, <1>3, <2>2 DEF HistoryTells
<1> QED
  BY <1>1, <1>4, <1>5, <1>6, <1>7 DEF RegistersInv

\* The death of the backend ends the requests, where crashes are considered.
LEMMA RegisterBackendDiesKeeps ==
    ASSUME RegistersInv, UNCHANGED allowed, RegisterBackendDies PROVE RegistersInv'
<1>0. IdleRegisterCall \in RegisterCall /\ IdleRegisterCall.pc = "idle" /\ RegisterForm(IdleRegisterCall)
  <2>1. IdleRegisterCall \in RegisterCall /\ IdleRegisterCall.pc = "idle" /\ IdleRegisterCall.kind = None
    BY RegistersAssumption DEF IdleRegisterCall, RegisterCall
  <2> QED
    BY <2>1, RegistersAssumption DEF RegisterForm
<1>1. /\ \A c \in RegisterCalls : regCall'[c] = IdleRegisterCall
      /\ regCall' \in [RegisterCalls -> RegisterCall] /\ May("crash")
      /\ UNCHANGED <<asset, ranked, ranks, vulnerability, rule, ruleHistory, attack, blacklisted>>
  BY <1>0 DEF RegisterBackendDies, registerRows, assetVars, networkVars
<1>2. RegistersTypeOK'
  BY <1>1 DEF RegistersInv, RegistersTypeOK
<1>3. \A c \in RegisterCalls : RegisterForm(regCall'[c])
  BY <1>0, <1>1
<1>4. \A k : RegisterForm(k) => RegisterForm(k)'
  BY <1>1 DEF RegisterForm
<1>5. OneChange' /\ Classified' /\ HistoryTells'
  BY <1>0, <1>1 DEF OneChange, Classified, HistoryTells, May
<1> QED
  BY <1>1, <1>2, <1>3, <1>4, <1>5 DEF RegistersInv

\* Every step of the registers keeps their invariant.
LEMMA RegistersKeep ==
    ASSUME RegistersInv, UNCHANGED allowed, RegistersNext PROVE RegistersInv'
<1>1. ASSUME NEW c \in RegisterCalls, RegisterStep(c) PROVE RegistersInv'
  BY <1>1, ReadsAndSavesKeep, ReclassificationsKeep, RulesKeep DEF RegisterStep
<1>2. ASSUME NEW l \in AssetClassification, NEW c \in RegisterCalls, UpdateAsset(c, l) \/ ReclassifyAsset(c, l)
      PROVE  RegistersInv'
  BY <1>2, RequestsBegin
<1>3. ASSUME NEW kind \in {"update", "delete"}, NEW c \in RegisterCalls, ChangeFirewallRule(c, kind)
      PROVE  RegistersInv'
  BY <1>3, RequestsBegin
<1> QED
  BY <1>1, <1>2, <1>3, AssetsKeep, AttacksKeep, CreateFirewallRuleKeeps, RegisterBackendDiesKeeps DEF RegistersNext

\* So does a step that leaves them alone.
LEMMA RegistersRest == ASSUME RegistersInv, UNCHANGED allowed, UNCHANGED registersVars PROVE RegistersInv'
BY DEF RegistersInv, RegistersTypeOK, RegisterForm, OneChange, Classified, HasOwn, HistoryTells, RegWritesFail, May,
       registersVars, registerRows, assetVars, networkVars

-----------------------------------------------------------------------------
(* Vendors: what a request read and may still rely on when it writes.                            *)

AssessmentKinds == {"start", "submit", "complete", "add", "resolve"}
WasApproved == {"APPROVED", "ACTIVE", "SUSPENDED", "TERMINATED"}
\* What a request carries.
VendForm(k) ==
    /\ k.pc = "idle" <=> k.kind = None
    /\ k.pc = "then" => k.kind \in {"activate", "report"}
    /\ k.pc = "revoke" => k.kind = "report"
    /\ k.kind = "status" => k.arg \in VendorStatus
    /\ k.kind \in {"contract", "activate"} => k.on \in Contracts
    /\ k.kind = "grant" => k.on \in Permissions
    /\ k.kind \in AssessmentKinds \cup {"initiate"} => k.on \in Assessments
    /\ k.kind = "submit" => k.arg \in VendorRiskLevel
    /\ k.kind = "add" => k.arg \in Findings
    /\ k.kind \in {"add", "resolve"} /\ k.pc = "write" => k.read \in VendorRiskAssessment
\* What does not overlap, unless overlaps are considered.
Clash(k, m) ==
    \/ k.kind = "report" /\ m.kind \in {"report", "grant"}
    \/ k.kind = "grant" /\ m.kind = "report"
    \/ k.kind \in {"start", "submit"} /\ m.kind = k.kind /\ m.on = k.on
NoClash == ~May("overlap") => \A c, d \in VendorCalls : c # d => ~Clash(vendCall[c], vendCall[d])

\* What a request read and may still rely on: an approval is not taken back; no permission is
\* granted while a report is at work, nor a report made while one is granted; an assessment that
\* is to be started or submitted waits for it.
ApprovalKnown(k) ==
    ~May("reports") =>
        /\ k.kind \notin {"report"}
        /\ k.kind = "activate" => vendor.approved
        /\ k.pc = "write" /\ k.kind \in {"contract", "grant"} => vendor.approved
        /\ k.pc = "write" /\ k.kind = "status" /\ k.arg \in WasApproved \ {"APPROVED"} => vendor.approved
AccessKnown(k) ==
    ~VendorWritesFail /\ ~May("reads") /\ ~May("overlap") =>
        /\ k.kind = "report" /\ k.pc = "then" => ActivePermissions = {}
        /\ k.kind = "grant" /\ k.pc = "write" => ~vendor.cut
AssessmentKnown(k) ==
    /\ k.kind \in AssessmentKinds => assessment[k.on].status # None
    /\ ~May("overlap") =>
         /\ k.kind = "start" /\ k.pc = "write" => assessment[k.on].status = "NOT_STARTED"
         /\ k.kind = "submit" /\ k.pc = "write" => assessment[k.on].status = "IN_PROGRESS"
VendKnows(k) ==
    /\ k.pc # "idle" => vendor.status # None
    /\ ApprovalKnown(k) /\ AccessKnown(k) /\ AssessmentKnown(k)

ApprovedFirst ==
    ~May("reports") => ((vendor.status \in WasApproved \/ (\E p \in Permissions : access[p] # "none")
                            \/ (\E k \in Contracts : contract[k] # None)) => vendor.approved)
CutOff == vendor.cut =>
    /\ vendor.status # "ACTIVE"
    /\ ~VendorWritesFail /\ ~May("reads") /\ ~May("overlap") => ActivePermissions = {}

VendInv ==
    /\ VendorTypeOK /\ (\A c \in VendorCalls : VendForm(vendCall[c])) /\ NoClash
    /\ \A c \in VendorCalls : VendKnows(vendCall[c])
    /\ ApprovedFirst /\ CutOff

\* The invariant of vendors implies what the run checks of them.
LEMMA VendorsSafe == VendInv => OnlyTheApprovedAct /\ SuspensionEndsAccess
BY DEF VendInv, ApprovedFirst, CutOff, OnlyTheApprovedAct, SuspensionEndsAccess, WasApproved

\* A request that ended knows nothing and holds nothing.
LEMMA IdleVendorForm ==
    /\ IdleVendorCall \in VendorCall /\ IdleVendorCall.pc = "idle" /\ IdleVendorCall.kind = None
    /\ VendForm(IdleVendorCall) /\ VendKnows(IdleVendorCall)
<1>1. IdleVendorCall \in VendorCall /\ IdleVendorCall.pc = "idle" /\ IdleVendorCall.kind = None
  BY DEF IdleVendorCall, VendorCall
<1>2. VendForm(IdleVendorCall)
  BY <1>1, VendorAssumption DEF VendForm, AssessmentKinds
<1>3. VendKnows(IdleVendorCall)
  BY <1>1, VendorAssumption DEF VendKnows, ApprovalKnown, AccessKnown, AssessmentKnown, AssessmentKinds
<1> QED
  BY <1>1, <1>2, <1>3

\* At the start there is no vendor.
LEMMA VendorInitHolds == VendorInit => VendInv
<1> SUFFICES ASSUME VendorInit PROVE VendInv
  OBVIOUS
<1>1. \A c \in VendorCalls : vendCall[c] = IdleVendorCall
  BY DEF VendorInit
<1>2. VendorTypeOK
  BY IdleVendorForm DEF VendorInit, VendorTypeOK, VendorRow, VendorAccessPermission, VendorRiskAssessment, NoAssessment
<1>3. NoClash
  BY <1>1, IdleVendorForm, VendorAssumption DEF NoClash, Clash
<1>4. ApprovedFirst /\ CutOff
  BY VendorAssumption DEF VendorInit, ApprovedFirst, CutOff, WasApproved
<1> QED
  BY <1>1, <1>2, <1>3, <1>4, IdleVendorForm DEF VendInv

\* One request moves; the tables may change, but what the others rely on stays.
LEMMA VendorWrites ==
    ASSUME VendInv, NEW c \in VendorCalls, NEW g \in VendorCall, vendCall' = [vendCall EXCEPT ![c] = g],
           VendForm(g), g.kind = None \/ (g.kind = vendCall[c].kind /\ g.on = vendCall[c].on),
           vendor' \in VendorRow, access' \in [Permissions -> VendorAccessPermission],
           contract' \in [Contracts -> ContractStatus \cup {None}],
           assessment' \in [Assessments -> VendorRiskAssessment],
           certified' \in {"none", "added", "verified"},
           VendKnows(g)',
           \A d \in VendorCalls \ {c} : \A k : k = vendCall[d] => VendKnows(k)',
           ApprovedFirst', CutOff', UNCHANGED allowed
    PROVE  VendInv'
<1>0. /\ vendCall \in [VendorCalls -> VendorCall]
      /\ vendCall'[c] = g /\ \A d \in VendorCalls \ {c} : vendCall'[d] = vendCall[d]
  BY DEF VendInv, VendorTypeOK
<1>1. VendorTypeOK'
  BY <1>0 DEF VendorTypeOK
<1>2. ASSUME NEW d \in VendorCalls PROVE VendForm(vendCall[d])'
  <2>1. VendForm(vendCall'[d])
    BY <1>0 DEF VendInv
  <2> QED
    BY <2>1 DEF VendForm
<1>3. NoClash'
  BY <1>0, VendorAssumption DEF VendInv, NoClash, Clash, May
<1>4. ASSUME NEW d \in VendorCalls PROVE VendKnows(vendCall[d])'
  <2>1. \A k : k = vendCall'[d] => VendKnows(k)'
    BY <1>0
  <2> QED
    BY <2>1
<1> QED
  BY <1>1, <1>2, <1>3, <1>4 DEF VendInv

\* One request moves and the tables stay.
LEMMA VendTurns ==
    ASSUME VendInv, UNCHANGED <<allowed, vendor, access, contract, assessment, certified>>,
           NEW c \in VendorCalls, NEW g \in VendorCall, vendCall' = [vendCall EXCEPT ![c] = g],
           VendForm(g), VendKnows(g),
           \/ g.kind = None \/ (g.kind = vendCall[c].kind /\ g.on = vendCall[c].on)
           \/ May("overlap") \/ \A d \in VendorCalls \ {c} : ~Clash(g, vendCall[d])
    PROVE  VendInv'
<1>0. /\ vendCall \in [VendorCalls -> VendorCall]
      /\ vendCall'[c] = g /\ \A d \in VendorCalls \ {c} : vendCall'[d] = vendCall[d]
  BY DEF VendInv, VendorTypeOK
<1>1. VendorTypeOK'
  BY <1>0 DEF VendInv, VendorTypeOK
<1>2. ASSUME NEW d \in VendorCalls PROVE VendForm(vendCall[d])'
  <2>1. VendForm(vendCall'[d])
    BY <1>0 DEF VendInv
  <2> QED
    BY <2>1 DEF VendForm
<1>3. NoClash'
  BY <1>0, VendorAssumption DEF VendInv, NoClash, Clash, May
<1>4. ASSUME NEW d \in VendorCalls PROVE VendKnows(vendCall[d])'
  <2>1. VendKnows(vendCall'[d])
    BY <1>0 DEF VendInv
  <2>2. \A k : VendKnows(k) => VendKnows(k)'
    BY DEF VendKnows, ApprovalKnown, AccessKnown, AssessmentKnown, ActivePermissions, VendorWritesFail, May
  <2> QED
    BY <2>1, <2>2
<1>5. ApprovedFirst' /\ CutOff'
  BY DEF VendInv, ApprovedFirst, CutOff, ActivePermissions, VendorWritesFail, May
<1> QED
  BY <1>1, <1>2, <1>3, <1>4, <1>5 DEF VendInv

\* A request ends, whatever it was about.
LEMMA VendorEnds ==
    ASSUME VendInv, UNCHANGED <<allowed, vendor, access, contract, assessment, certified>>,
           NEW c \in VendorCalls, VendEnds(c)
    PROVE  VendInv'
BY IdleVendorForm, VendTurns DEF VendEnds

\* What a request is, and is at its next place.
LEMMA CallForms ==
    ASSUME VendInv, NEW c \in VendorCalls
    PROVE  /\ vendCall[c] \in VendorCall /\ VendForm(vendCall[c]) /\ VendKnows(vendCall[c])
           /\ \A pc \in {"write", "revoke", "then"} : LET g == [vendCall[c] EXCEPT !.pc = pc] IN
                /\ g \in VendorCall /\ g.pc = pc /\ g.kind = vendCall[c].kind /\ g.on = vendCall[c].on
                /\ g.arg = vendCall[c].arg /\ g.read = vendCall[c].read
<1>1. vendCall[c] \in VendorCall /\ VendForm(vendCall[c]) /\ VendKnows(vendCall[c])
  BY DEF VendInv, VendorTypeOK
<1> QED
  BY <1>1 DEF VendorCall

\* What a request is checked on when it goes on to write.
LEMMA VendChecks ==
    ASSUME VendInv, UNCHANGED allowed, NEW c \in VendorCalls, vendCall[c].pc = "read",
           vendCall[c].kind \in {"status", "contract", "activate", "grant"},
           NEW ok, Checks(c, ok),
           ok /\ ~May("reports") /\ vendCall[c].kind \in {"contract", "grant"} => vendor.approved,
           ok /\ ~May("reports") /\ vendCall[c].kind = "status" /\ vendCall[c].arg \in WasApproved \ {"APPROVED"}
              => vendor.approved,
           ok /\ vendCall[c].kind = "grant" => ~vendor.cut
    PROVE  VendInv'
<1>1. UNCHANGED <<vendor, access, contract, assessment, certified>>
  BY DEF Checks, vendorRows
<1>2. CASE VendEnds(c)
  BY <1>1, <1>2, VendorEnds
<1>3. CASE ok /\ VendAt(c, "write")
  <2> DEFINE g == [vendCall[c] EXCEPT !.pc = "write"]
  <2>1. /\ g \in VendorCall /\ g.pc = "write" /\ g.kind = vendCall[c].kind /\ g.on = vendCall[c].on
        /\ g.arg = vendCall[c].arg /\ g.read = vendCall[c].read
    BY CallForms
  <2>2. vendCall' = [vendCall EXCEPT ![c] = g]
    BY <1>3 DEF VendAt
  <2> HIDE DEF g
  <2>0. VendForm(vendCall[c])
    BY CallForms
  <2>3. VendForm(g)
    BY <2>0, <2>1, VendorAssumption DEF VendForm, AssessmentKinds
  <2>4. VendKnows(g)
    BY <1>3, <2>1, CallForms DEF VendKnows, ApprovalKnown, AccessKnown, AssessmentKnown, AssessmentKinds
  <2> QED
    BY <1>1, <2>1, <2>2, <2>3, <2>4, VendTurns
<1> QED
  BY <1>2, <1>3 DEF Checks

\* Checking the vendor, the contractor, the contract or the grantee keeps the invariant.
LEMMA ChecksKeep ==
    ASSUME VendInv, UNCHANGED allowed, NEW c \in VendorCalls,
           CheckStatus(c) \/ CheckContractor(c) \/ CheckContract(c) \/ CheckGrantee(c)
    PROVE  VendInv'
<1>0. /\ vendor \in VendorRow /\ VendForm(vendCall[c]) /\ (vendCall[c].pc # "idle" => vendor.status # None)
      /\ ~May("reports") /\ vendor.status \in WasApproved => vendor.approved
      /\ vendor.cut => vendor.status # "ACTIVE"
  BY CallForms DEF VendInv, VendorTypeOK, ApprovedFirst, CutOff, VendKnows
<1>1. CASE CheckStatus(c)
  <2> DEFINE ok == MayBecome(vendor.status, vendCall[c].arg)
  <2>1. vendCall[c].pc = "read" /\ vendCall[c].kind = "status" /\ Checks(c, ok)
    BY <1>1 DEF CheckStatus
  <2>2. vendor.status \in VendorStatus /\ vendCall[c].arg \in VendorStatus
    BY <1>0, <2>1 DEF VendForm, VendorRow
  <2>3. ok /\ vendCall[c].arg \in WasApproved \ {"APPROVED"} => vendor.status \in WasApproved
    BY <2>2 DEF MayBecome, WasApproved, VendorStatus
  <2> HIDE DEF ok
  <2> QED
    BY <1>0, <2>1, <2>3, VendChecks
<1>2. CASE CheckContractor(c)
  <2> DEFINE ok == vendor.status \in {"APPROVED", "ACTIVE"}
  <2>1. vendCall[c].pc = "read" /\ vendCall[c].kind = "contract" /\ Checks(c, ok)
    BY <1>2 DEF CheckContractor
  <2>2. ok => vendor.status \in WasApproved
    BY DEF WasApproved
  <2> HIDE DEF ok
  <2> QED
    BY <1>0, <2>1, <2>2, VendChecks
<1>3. CASE CheckContract(c)
  <2> DEFINE ok == contract[vendCall[c].on] = "PENDING_APPROVAL"
  <2>1. vendCall[c].pc = "read" /\ vendCall[c].kind = "activate" /\ Checks(c, ok)
    BY <1>3 DEF CheckContract
  <2> HIDE DEF ok
  <2> QED
    BY <1>0, <2>1, VendChecks
<1>4. CASE CheckGrantee(c)
  <2> DEFINE ok == Grantable(vendor.status)
  <2>1. vendCall[c].pc = "read" /\ vendCall[c].kind = "grant" /\ Checks(c, ok)
    BY <1>4 DEF CheckGrantee
  <2>2. ok => vendor.status = "ACTIVE" /\ vendor.status \in WasApproved
    BY DEF WasApproved, Grantable
  <2> HIDE DEF ok
  <2> QED
    BY <1>0, <2>1, <2>2, VendChecks
<1> QED
  BY <1>1, <1>2, <1>3, <1>4

\* A request begins.
LEMMA BeginVendKeeps ==
    ASSUME VendInv, UNCHANGED allowed, NEW c \in VendorCalls,
           NEW kind \in {"status", "contract", "activate", "grant", "report", "initiate", "start",
                         "submit", "complete", "add", "resolve"},
           NEW x \in Permissions \cup Contracts \cup Assessments \cup {None},
           NEW arg \in VendorStatus \cup VendorRiskLevel \cup Findings \cup {None},
           BeginVend(c, kind, x, arg),
           kind = "status" => arg \in VendorStatus, kind = "submit" => arg \in VendorRiskLevel,
           kind = "add" => arg \in Findings,
           kind \in {"contract", "activate"} => x \in Contracts, kind = "grant" => x \in Permissions,
           kind \in AssessmentKinds \cup {"initiate"} => x \in Assessments,
           \/ May("overlap")
           \/ /\ kind \in {"report", "grant"} => ~VendorBusy({"report"})
              /\ kind = "report" => ~VendorBusy({"grant"})
              /\ kind \in {"start", "submit"} => \A d \in VendorCalls : ~(vendCall[d].kind = kind /\ vendCall[d].on = x),
           ~May("reports") => kind # "report" /\ (kind = "activate" => vendor.approved),
           kind \in AssessmentKinds => assessment[x].status # None
    PROVE  VendInv'
<1> DEFINE g == [IdleVendorCall EXCEPT !.pc = "read", !.kind = kind, !.on = x, !.arg = arg]
<1> DEFINE g1 == [IdleVendorCall EXCEPT !.pc = "read"]
           g2 == [g1 EXCEPT !.kind = kind]
           g3 == [g2 EXCEPT !.on = x]
<1>1. g = [pc |-> "read", kind |-> kind, on |-> x, arg |-> arg, read |-> None]
  <2>1. g = [g3 EXCEPT !.arg = arg]
    OBVIOUS
  <2>2. g1 = [pc |-> "read", kind |-> None, on |-> None, arg |-> None, read |-> None]
    BY DEF IdleVendorCall
  <2> HIDE DEF g, g1
  <2>3. g2 = [pc |-> "read", kind |-> kind, on |-> None, arg |-> None, read |-> None]
    BY <2>2
  <2> HIDE DEF g2
  <2>4. g3 = [pc |-> "read", kind |-> kind, on |-> x, arg |-> None, read |-> None]
    BY <2>3
  <2> HIDE DEF g3
  <2> QED
    BY <2>1, <2>4
<1>2. /\ vendCall' = [vendCall EXCEPT ![c] = g] /\ vendCall[c].pc = "idle" /\ vendor.status # None
      /\ UNCHANGED <<vendor, access, contract, assessment, certified>>
  BY DEF BeginVend, vendorRows
<1> HIDE DEF g, g1, g2, g3
<1>3. g \in VendorCall /\ g.pc = "read" /\ g.kind = kind /\ g.on = x /\ g.arg = arg
  BY <1>1 DEF VendorCall
<1>4. VendForm(g)
  BY <1>3, VendorAssumption DEF VendForm
<1>5. VendKnows(g)
  BY <1>2, <1>3, VendorAssumption DEF VendKnows, ApprovalKnown, AccessKnown, AssessmentKnown, AssessmentKinds
<1>6. May("overlap") \/ \A d \in VendorCalls \ {c} : ~Clash(g, vendCall[d])
  BY <1>3 DEF Clash, VendorBusy
<1> QED
  BY <1>2, <1>3, <1>4, <1>5, <1>6, VendTurns

\* Requests about the status, contracts, permissions and incidents of a vendor begin.
LEMMA RequestsOfVendorBegin ==
    ASSUME VendInv, UNCHANGED allowed, NEW c \in VendorCalls,
           \/ May("status") /\ \E s \in VendorStatus : UpdateVendorStatus(c, s)
           \/ \E k \in Contracts : CreateContract(c, k) \/ ActivateContract(c, k)
           \/ \E p \in Permissions : GrantAccess(c, p)
           \/ May("reports") /\ ReportIncident(c)
    PROVE  VendInv'
<1>1. ASSUME NEW s \in VendorStatus, UpdateVendorStatus(c, s) PROVE VendInv'
  BY <1>1, BeginVendKeeps DEF UpdateVendorStatus, AssessmentKinds
<1>2. ASSUME NEW k \in Contracts, CreateContract(c, k) PROVE VendInv'
  BY <1>2, BeginVendKeeps DEF CreateContract, AssessmentKinds
<1>3. ASSUME NEW k \in Contracts, ActivateContract(c, k) PROVE VendInv'
  <2>1. ~May("reports") => vendor.approved
    BY <1>3 DEF ActivateContract, VendInv, ApprovedFirst
  <2> QED
    BY <1>3, <2>1, BeginVendKeeps DEF ActivateContract, AssessmentKinds
<1>4. ASSUME NEW p \in Permissions, GrantAccess(c, p) PROVE VendInv'
  BY <1>4, BeginVendKeeps DEF GrantAccess, AssessmentKinds
<1>5. CASE May("reports") /\ ReportIncident(c)
  <2>1. /\ May("overlap") \/ (~VendorBusy({"report"}) /\ ~VendorBusy({"grant"}))
        /\ BeginVend(c, "report", None, None)
    BY <1>5 DEF ReportIncident, VendorBusy
  <2> QED
    BY <1>5, <2>1, BeginVendKeeps DEF AssessmentKinds
<1> QED
  BY <1>1, <1>2, <1>3, <1>4, <1>5

\* No level outside the five comes out, and the bound on histories with findings is an assessment.
LEMMA Considers == CalculatedLevels \subseteq VendorRiskLevel /\ Considered \subseteq Assessments
<1>1. \A i, k : RiskLevel(i, k) \in VendorRiskLevel
  BY DEF RiskLevel, VendorRiskLevel
<1>2. CalculatedLevels \subseteq VendorRiskLevel
  BY <1>1 DEF CalculatedLevels
<1>3. (CHOOSE a \in Assessments : TRUE) \in Assessments
  BY VendorAssumption
<1> QED
  BY <1>2, <1>3 DEF Considered

\* Requests about its assessments begin.
LEMMA AssessmentsBegin ==
    ASSUME VendInv, UNCHANGED allowed, NEW c \in VendorCalls, NEW a \in Assessments,
           \/ InitiateAssessment(c, a) \/ ChangeAssessment(c, "start", a, None)
           \/ \E l \in CalculatedLevels : ChangeAssessment(c, "submit", a, l)
           \/ ChangeAssessment(c, "complete", a, None) \/ ChangeAssessment(c, "resolve", a, None)
           \/ \E f \in Findings : ChangeAssessment(c, "add", a, f)
    PROVE  VendInv'
<1>1. CASE InitiateAssessment(c, a)
  BY <1>1, BeginVendKeeps DEF InitiateAssessment, AssessmentKinds
<1>2. ASSUME NEW kind \in AssessmentKinds,
             NEW arg \in VendorRiskLevel \cup Findings \cup {None}, ChangeAssessment(c, kind, a, arg),
             kind = "submit" => arg \in VendorRiskLevel, kind = "add" => arg \in Findings
      PROVE  VendInv'
  <2>1. /\ assessment[a].status # None /\ BeginVend(c, kind, a, arg)
        /\ May("overlap") \/ \A d \in VendorCalls : ~(vendCall[d].kind = kind /\ vendCall[d].on = a)
    BY <1>2 DEF ChangeAssessment
  <2> QED
    BY <1>2, <2>1, BeginVendKeeps DEF AssessmentKinds
<1>3. "start" \in AssessmentKinds /\ "submit" \in AssessmentKinds /\ "complete" \in AssessmentKinds
      /\ "resolve" \in AssessmentKinds /\ "add" \in AssessmentKinds
  BY DEF AssessmentKinds
<1>4. ASSUME NEW l \in CalculatedLevels, ChangeAssessment(c, "submit", a, l) PROVE VendInv'
  BY <1>2, <1>3, <1>4, Considers
<1>5. ASSUME NEW f \in Findings, ChangeAssessment(c, "add", a, f) PROVE VendInv'
  BY <1>2, <1>3, <1>5
<1>6. CASE ChangeAssessment(c, "start", a, None) \/ ChangeAssessment(c, "complete", a, None)
             \/ ChangeAssessment(c, "resolve", a, None)
  BY <1>2, <1>3, <1>6
<1> QED
  BY <1>1, <1>4, <1>5, <1>6

\* The death of the backend ends the requests, where crashes are considered.
LEMMA VendorBackendDiesKeeps ==
    ASSUME VendInv, UNCHANGED allowed, VendorBackendDies PROVE VendInv'
<1>1. /\ \A c \in VendorCalls : vendCall'[c] = IdleVendorCall
      /\ vendCall' \in [VendorCalls -> VendorCall] /\ May("crash")
      /\ UNCHANGED <<vendor, access, contract, assessment, certified>>
  BY IdleVendorForm DEF VendorBackendDies, vendorRows
<1>2. VendorTypeOK'
  BY <1>1 DEF VendInv, VendorTypeOK
<1>3. ASSUME NEW d \in VendorCalls PROVE VendForm(vendCall[d])'
  <2>1. VendForm(vendCall'[d])
    BY <1>1, IdleVendorForm
  <2> QED
    BY <2>1 DEF VendForm
<1>4. NoClash'
  BY <1>1, IdleVendorForm, VendorAssumption DEF NoClash, Clash
<1>5. ASSUME NEW d \in VendorCalls PROVE VendKnows(vendCall[d])'
  <2>1. vendCall'[d].pc = "idle" /\ vendCall'[d].kind = None
    BY <1>1, IdleVendorForm
  <2>2. \A k : k.pc = "idle" /\ k.kind = None => VendKnows(k)'
    BY VendorAssumption DEF VendKnows, ApprovalKnown, AccessKnown, AssessmentKnown, AssessmentKinds
  <2> QED
    BY <2>1, <2>2
<1>6. ApprovedFirst' /\ CutOff'
  BY <1>1 DEF VendInv, ApprovedFirst, CutOff, ActivePermissions, VendorWritesFail, May
<1> QED
  BY <1>2, <1>3, <1>4, <1>5, <1>6 DEF VendInv

\* While assessments rest and nothing else is taken back, what was read may be relied on.
LEMMA KnowledgeStays ==
    ASSUME UNCHANGED <<allowed, assessment>>,
           vendor.approved => vendor'.approved, vendor.status # None => vendor'.status # None,
           vendor'.cut => vendor.cut, ActivePermissions' \subseteq ActivePermissions
    PROVE  \A k : VendKnows(k) => VendKnows(k)'
BY DEF VendKnows, ApprovalKnown, AccessKnown, AssessmentKnown, VendorWritesFail, May

\* The tables change, no request moves.
LEMMA VendorRests ==
    ASSUME VendInv, UNCHANGED <<allowed, vendCall, assessment>>,
           vendor' \in VendorRow, access' \in [Permissions -> VendorAccessPermission],
           contract' \in [Contracts -> ContractStatus \cup {None}], certified' \in {"none", "added", "verified"},
           vendor.approved => vendor'.approved, vendor.status # None => vendor'.status # None,
           vendor'.cut => vendor.cut, ActivePermissions' \subseteq ActivePermissions,
           ApprovedFirst', vendor'.cut => vendor'.status # "ACTIVE"
    PROVE  VendInv'
<1>1. VendorTypeOK'
  BY DEF VendInv, VendorTypeOK
<1>2. ASSUME NEW d \in VendorCalls PROVE VendForm(vendCall[d])'
  <2>1. VendForm(vendCall'[d])
    BY DEF VendInv
  <2> QED
    BY <2>1 DEF VendForm
<1>3. NoClash'
  BY DEF VendInv, NoClash, Clash, May
<1>4. ASSUME NEW d \in VendorCalls PROVE VendKnows(vendCall[d])'
  <2>1. \A k : VendKnows(k) => VendKnows(k)'
    BY KnowledgeStays
  <2>2. VendKnows(vendCall'[d])
    BY DEF VendInv
  <2> QED
    BY <2>1, <2>2
<1>5. CutOff'
  BY DEF VendInv, CutOff, VendorWritesFail, May
<1> QED
  BY <1>1, <1>2, <1>3, <1>4, <1>5 DEF VendInv

\* The status is set, and what is remembered of it.
LEMMA SetStatusForm ==
    ASSUME vendor \in VendorRow, NEW s \in VendorStatus, SetStatus(s)
    PROVE  /\ vendor' \in VendorRow /\ vendor'.status = s
           /\ vendor'.approved <=> (vendor.approved \/ s = "APPROVED")
           /\ vendor'.cut <=> (vendor.cut /\ s # "ACTIVE")
<1> DEFINE b == vendor.approved \/ s = "APPROVED"
           e == vendor.cut /\ s # "ACTIVE"
           v1 == [vendor EXCEPT !.status = s]
           v2 == [v1 EXCEPT !.approved = b]
           v3 == [v2 EXCEPT !.cut = e]
<1>1. b \in BOOLEAN /\ e \in BOOLEAN /\ (b <=> (vendor.approved \/ s = "APPROVED")) /\ (e <=> (vendor.cut /\ s # "ACTIVE"))
  OBVIOUS
<1>2. v1 \in VendorRow /\ v1.status = s /\ v1.approved = vendor.approved /\ v1.cut = vendor.cut
  BY DEF VendorRow
<1>3. vendor' = [v1 EXCEPT !.approved = @ \/ s = "APPROVED", !.cut = @ /\ s # "ACTIVE"]
  BY DEF SetStatus
<1> HIDE DEF b, e, v1
<1>4. v2 \in VendorRow /\ v2.status = s /\ v2.approved = b /\ v2.cut = vendor.cut
  BY <1>1, <1>2 DEF VendorRow
<1>5. vendor' = [[v1 EXCEPT !.approved = v1.approved \/ s = "APPROVED"] EXCEPT !.cut =
                    [v1 EXCEPT !.approved = v1.approved \/ s = "APPROVED"].cut /\ s # "ACTIVE"]
  BY <1>3
<1>6. (v1.approved \/ s = "APPROVED") = b
  BY <1>2 DEF b
<1>7. vendor' = [v2 EXCEPT !.cut = v2.cut /\ s # "ACTIVE"]
  BY <1>5, <1>6
<1>8. (v2.cut /\ s # "ACTIVE") = e
  BY <1>4 DEF e
<1>9. vendor' = v3
  BY <1>7, <1>8
<1> HIDE DEF v2
<1>10. v3 \in VendorRow /\ v3.status = s /\ v3.approved = b /\ v3.cut = e
  BY <1>1, <1>4 DEF VendorRow
<1> QED
  BY <1>1, <1>9, <1>10

\* The changes made in a single write keep the invariant.
LEMMA VendorTablesKeep ==
    ASSUME VendInv, UNCHANGED allowed,
           \/ CreateVendor \/ AddCertification \/ VerifyCertification
           \/ \E k \in Contracts : SubmitContract(k)
           \/ \E p \in Permissions : RevokeAccess(p)
    PROVE  VendInv'
<1>0. /\ vendor \in VendorRow /\ access \in [Permissions -> VendorAccessPermission]
      /\ contract \in [Contracts -> ContractStatus \cup {None}] /\ certified \in {"none", "added", "verified"}
      /\ ApprovedFirst /\ CutOff
  BY DEF VendInv, VendorTypeOK
<1>1. CASE CreateVendor
  <2> DEFINE v == [vendor EXCEPT !.status = "PROSPECT"]
  <2>1. /\ vendor' = v /\ vendor.status = None
        /\ UNCHANGED <<access, contract, assessment, certified, vendCall>>
    BY <1>1 DEF CreateVendor
  <2>2. /\ v \in VendorRow /\ v.status = "PROSPECT"
        /\ v.approved = vendor.approved /\ v.cut = vendor.cut
    BY <1>0 DEF VendorRow, VendorStatus
  <2> HIDE DEF v
  <2>3. ApprovedFirst'
    BY <1>0, <2>1, <2>2 DEF ApprovedFirst, WasApproved, May
  <2>4. ActivePermissions' = ActivePermissions
    BY <2>1 DEF ActivePermissions
  <2>5. "PROSPECT" # None /\ "PROSPECT" # "ACTIVE"
    BY VendorAssumption
  <2> QED
    BY <1>0, <2>1, <2>2, <2>3, <2>4, <2>5, VendorRests
<1>2. CASE AddCertification \/ VerifyCertification
  <2>1. /\ certified' \in {"none", "added", "verified"}
        /\ UNCHANGED <<vendor, access, contract, assessment, vendCall>>
    BY <1>2 DEF AddCertification, VerifyCertification
  <2>2. ApprovedFirst' /\ ActivePermissions' = ActivePermissions
    BY <1>0, <2>1 DEF ApprovedFirst, ActivePermissions, May
  <2> QED
    BY <1>0, <2>1, <2>2, VendorRests DEF CutOff
<1>3. ASSUME NEW k \in Contracts, SubmitContract(k) PROVE VendInv'
  <2>1. /\ contract' = [contract EXCEPT ![k] = "PENDING_APPROVAL"] /\ contract[k] = "DRAFT"
        /\ UNCHANGED <<vendor, access, assessment, certified, vendCall>>
    BY <1>3 DEF SubmitContract
  <2>2. contract' \in [Contracts -> ContractStatus \cup {None}] /\ contract[k] # None
        /\ \A m \in Contracts : contract'[m] # None => contract[m] # None
    BY <1>0, <2>1, VendorAssumption DEF ContractStatus
  <2>3. ApprovedFirst' /\ ActivePermissions' = ActivePermissions
    BY <1>0, <2>1, <2>2 DEF ApprovedFirst, ActivePermissions, May
  <2> QED
    BY <1>0, <2>1, <2>2, <2>3, VendorRests DEF CutOff
<1>4. ASSUME NEW p \in Permissions, RevokeAccess(p) PROVE VendInv'
  <2>1. /\ access' = [access EXCEPT ![p] = "revoked"] /\ access[p] # "none"
        /\ UNCHANGED <<vendor, contract, assessment, certified, vendCall>>
    BY <1>4 DEF RevokeAccess
  <2>2. /\ access' \in [Permissions -> VendorAccessPermission]
        /\ \A q \in Permissions : access'[q] # "none" => access[q] # "none"
        /\ ActivePermissions' \subseteq ActivePermissions
    BY <1>0, <2>1 DEF VendorAccessPermission, ActivePermissions
  <2>3. ApprovedFirst'
    BY <1>0, <2>1, <2>2 DEF ApprovedFirst, May
  <2> QED
    BY <1>0, <2>1, <2>2, <2>3, VendorRests DEF CutOff
<1> QED
  BY <1>1, <1>2, <1>3, <1>4

\* A request writes by what it read and ends, or goes on.
LEMMA VendorStores ==
    ASSUME VendInv, UNCHANGED <<allowed, assessment, certified>>, NEW c \in VendorCalls,
           NEW g \in VendorCall, vendCall' = [vendCall EXCEPT ![c] = g], VendForm(g),
           g.kind = None \/ (g.kind = vendCall[c].kind /\ g.on = vendCall[c].on),
           vendor' \in VendorRow, access' \in [Permissions -> VendorAccessPermission],
           contract' \in [Contracts -> ContractStatus \cup {None}],
           vendor.approved => vendor'.approved, vendor.status # None => vendor'.status # None,
           ApprovedFirst', CutOff', VendKnows(g)',
           \A d \in VendorCalls \ {c} : \A k : k = vendCall[d] => AccessKnown(k)'
    PROVE  VendInv'
<1>0. /\ vendCall \in [VendorCalls -> VendorCall] /\ assessment \in [Assessments -> VendorRiskAssessment]
      /\ certified \in {"none", "added", "verified"}
      /\ vendCall'[c] = g /\ \A d \in VendorCalls \ {c} : vendCall'[d] = vendCall[d]
  BY DEF VendInv, VendorTypeOK
<1>1. ASSUME NEW d \in VendorCalls \ {c}, NEW k, k = vendCall[d] PROVE VendKnows(k)'
  <2>1. VendKnows(k) /\ AccessKnown(k)'
    BY <1>1 DEF VendInv
  <2> QED
    BY <2>1 DEF VendKnows, ApprovalKnown, AssessmentKnown, VendorWritesFail, May
<1> QED
  BY <1>0, <1>1, VendorWrites

\* An idle request relies on nothing.
LEMMA IdleKnows == \A k : k = IdleVendorCall => VendKnows(k)'
<1>1. \A k : k.pc = "idle" /\ k.kind = None => VendKnows(k)'
  BY VendorAssumption DEF VendKnows, ApprovalKnown, AccessKnown, AssessmentKnown, AssessmentKinds
<1> QED
  BY <1>1, IdleVendorForm

\* A write fails, and the request ends: only where writes may fail.
LEMMA FailedWriteKeeps ==
    ASSUME VendInv, UNCHANGED allowed, NEW c \in VendorCalls, VendorWritesFail /\ VendEnds(c) /\ UNCHANGED vendorRows
    PROVE  VendInv'
BY VendorEnds DEF vendorRows

\* Writing the status, a contract or a permission keeps the invariant.
LEMMA VendorWritesKeep ==
    ASSUME VendInv, UNCHANGED allowed, NEW c \in VendorCalls,
           WriteVendorStatus(c) \/ InsertContract(c) \/ UpdateContract(c) \/ ActivateVendor(c) \/ InsertPermission(c)
    PROVE  VendInv'
<1>0. /\ vendor \in VendorRow /\ access \in [Permissions -> VendorAccessPermission]
      /\ contract \in [Contracts -> ContractStatus \cup {None}]
      /\ ApprovedFirst /\ CutOff /\ VendForm(vendCall[c]) /\ VendKnows(vendCall[c])
      /\ IdleVendorCall \in VendorCall /\ VendForm(IdleVendorCall) /\ IdleVendorCall.kind = None
      /\ \A d \in VendorCalls : AccessKnown(vendCall[d])
  BY IdleVendorForm DEF VendInv, VendorTypeOK, VendKnows
<1>1. ASSUME NEW s \in VendorStatus, SetStatus(s), UNCHANGED <<access, contract>>,
             s \in WasApproved /\ ~May("reports") => vendor.approved \/ s = "APPROVED"
      PROVE  /\ vendor' \in VendorRow /\ (vendor.approved => vendor'.approved)
             /\ (vendor.status # None => vendor'.status # None)
             /\ ApprovedFirst' /\ CutOff'
             /\ \A k : AccessKnown(k) => AccessKnown(k)'
  <2>1. /\ vendor' \in VendorRow /\ vendor'.status = s
        /\ vendor'.approved <=> (vendor.approved \/ s = "APPROVED")
        /\ vendor'.cut <=> (vendor.cut /\ s # "ACTIVE")
    BY <1>0, <1>1, SetStatusForm
  <2>2. s # None
    BY VendorAssumption DEF VendorStatus
  <2>3. ApprovedFirst'
    BY <1>0, <1>1, <2>1 DEF ApprovedFirst, May
  <2>4. CutOff' /\ \A k : AccessKnown(k) => AccessKnown(k)'
    BY <1>0, <1>1, <2>1 DEF CutOff, AccessKnown, ActivePermissions, VendorWritesFail, May
  <2> QED
    BY <2>1, <2>2, <2>3, <2>4
<1>2. CASE WriteVendorStatus(c)
  <2>1. CASE VendorWritesFail /\ VendEnds(c) /\ UNCHANGED vendorRows
    BY <2>1, FailedWriteKeeps
  <2>2. CASE SetStatus(vendCall[c].arg) /\ UNCHANGED <<access, contract, assessment, certified>> /\ VendEnds(c)
    <3>0. vendCall[c].pc = "write" /\ vendCall[c].kind = "status"
      BY <1>2 DEF WriteVendorStatus
    <3> DEFINE s == vendCall[c].arg
    <3>1. s \in VendorStatus /\ (s \in WasApproved /\ ~May("reports") => vendor.approved \/ s = "APPROVED")
      BY <1>0, <3>0 DEF VendForm, VendKnows, ApprovalKnown
    <3>2. vendCall' = [vendCall EXCEPT ![c] = IdleVendorCall] /\ SetStatus(s)
      BY <2>2 DEF VendEnds
    <3> HIDE DEF s
    <3>3. /\ vendor' \in VendorRow /\ (vendor.approved => vendor'.approved)
          /\ (vendor.status # None => vendor'.status # None)
          /\ ApprovedFirst' /\ CutOff'
          /\ \A k : AccessKnown(k) => AccessKnown(k)'
      BY <1>1, <2>2, <3>1, <3>2
    <3>4. VendKnows(IdleVendorCall)'
      BY IdleVendorForm, VendorAssumption DEF VendKnows, ApprovalKnown, AccessKnown, AssessmentKnown,
             AssessmentKinds, IdleVendorCall
    <3>6. \A d \in VendorCalls \ {c} : \A k : k = vendCall[d] => AccessKnown(k)'
      BY <1>0, <3>3
    <3> QED
      BY <1>0, <2>2, <3>2, <3>3, <3>4, <3>6, VendorStores
  <2> QED
    BY <1>2, <2>1, <2>2 DEF WriteVendorStatus, Stores
<1>3. CASE ActivateVendor(c)
  <2>0. vendCall[c].pc = "then" /\ vendCall[c].kind = "activate" /\ vendCall' = [vendCall EXCEPT ![c] = IdleVendorCall]
        /\ UNCHANGED <<access, contract, assessment, certified>>
    BY <1>3 DEF ActivateVendor, VendEnds
  <2>1. CASE UNCHANGED vendor
    BY <2>0, <2>1, VendorEnds DEF VendEnds
  <2>2. CASE vendor.status = "APPROVED" /\ SetStatus("ACTIVE")
    <3>1. "ACTIVE" \in VendorStatus /\ ("ACTIVE" \in WasApproved /\ ~May("reports") => vendor.approved)
      BY <1>0, <2>2 DEF VendorStatus, WasApproved, ApprovedFirst
    <3>3. /\ vendor' \in VendorRow /\ (vendor.approved => vendor'.approved)
          /\ (vendor.status # None => vendor'.status # None)
          /\ ApprovedFirst' /\ CutOff'
          /\ \A k : AccessKnown(k) => AccessKnown(k)'
      BY <1>1, <2>0, <2>2, <3>1
    <3>4. VendKnows(IdleVendorCall)'
      BY IdleVendorForm, VendorAssumption DEF VendKnows, ApprovalKnown, AccessKnown, AssessmentKnown,
             AssessmentKinds, IdleVendorCall
    <3>6. \A d \in VendorCalls \ {c} : \A k : k = vendCall[d] => AccessKnown(k)'
      BY <1>0, <3>3
    <3> QED
      BY <1>0, <2>0, <3>3, <3>4, <3>6, VendorStores
  <2> QED
    BY <1>3, <2>1, <2>2 DEF ActivateVendor
<1>4. CASE InsertContract(c)
  <2>1. CASE VendorWritesFail /\ VendEnds(c) /\ UNCHANGED vendorRows
    BY <2>1, FailedWriteKeeps
  <2>2. CASE /\ contract' = [contract EXCEPT ![vendCall[c].on] = "DRAFT"]
             /\ UNCHANGED <<vendor, access, assessment, certified>> /\ VendEnds(c)
    <3>0. vendCall[c].pc = "write" /\ vendCall[c].kind = "contract"
      BY <1>4 DEF InsertContract
    <3>1. ~May("reports") => vendor.approved
      BY <1>0, <3>0 DEF VendKnows, ApprovalKnown
    <3>2. vendCall' = [vendCall EXCEPT ![c] = IdleVendorCall]
      BY <2>2 DEF VendEnds
    <3>3. contract' \in [Contracts -> ContractStatus \cup {None}]
      BY <1>0, <2>2 DEF ContractStatus
    <3>4. ApprovedFirst' /\ CutOff' /\ (\A k : AccessKnown(k) => AccessKnown(k)')
      BY <1>0, <2>2, <3>1 DEF ApprovedFirst, CutOff, AccessKnown, ActivePermissions, VendorWritesFail, May
    <3>5. VendKnows(IdleVendorCall)'
      BY IdleVendorForm, VendorAssumption DEF VendKnows, ApprovalKnown, AccessKnown, AssessmentKnown,
             AssessmentKinds, IdleVendorCall
    <3>6. \A d \in VendorCalls \ {c} : \A k : k = vendCall[d] => AccessKnown(k)'
      BY <1>0, <3>4
    <3> QED
      BY <1>0, <2>2, <3>0, <3>2, <3>3, <3>4, <3>5, <3>6, VendorStores
  <2> QED
    BY <1>4, <2>1, <2>2 DEF InsertContract, Stores
<1>5. CASE UpdateContract(c)
  <2>1. CASE VendorWritesFail /\ VendEnds(c) /\ UNCHANGED vendorRows
    BY <2>1, FailedWriteKeeps
  <2>2. CASE /\ contract' = [contract EXCEPT ![vendCall[c].on] = "ACTIVE"]
             /\ UNCHANGED <<vendor, access, assessment, certified>> /\ VendAt(c, "then")
    <3> DEFINE g == [vendCall[c] EXCEPT !.pc = "then"]
    <3>0. vendCall[c].pc = "write" /\ vendCall[c].kind = "activate"
      BY <1>5 DEF UpdateContract
    <3>1. ~May("reports") => vendor.approved
      BY <1>0, <3>0 DEF VendKnows, ApprovalKnown
    <3>2. /\ vendCall' = [vendCall EXCEPT ![c] = g]
          /\ g \in VendorCall /\ g.pc = "then" /\ g.kind = vendCall[c].kind /\ g.on = vendCall[c].on
      BY <2>2, CallForms DEF VendAt
    <3> HIDE DEF g
    <3>3. contract' \in [Contracts -> ContractStatus \cup {None}]
      BY <1>0, <2>2 DEF ContractStatus
    <3>4. ApprovedFirst' /\ CutOff' /\ (\A k : AccessKnown(k) => AccessKnown(k)')
      BY <1>0, <2>2, <3>1 DEF ApprovedFirst, CutOff, AccessKnown, ActivePermissions, VendorWritesFail, May
    <3>5. ASSUME NEW h, h = g PROVE VendKnows(h)'
      BY <1>0, <2>2, <3>0, <3>1, <3>2, <3>5, VendorAssumption
         DEF VendKnows, ApprovalKnown, AccessKnown, AssessmentKnown, AssessmentKinds, May
    <3>6. VendForm(g)
      BY <1>0, <3>0, <3>2, VendorAssumption DEF VendForm, AssessmentKinds
    <3>7. \A d \in VendorCalls \ {c} : \A k : k = vendCall[d] => AccessKnown(k)'
      BY <1>0, <3>4
    <3>8. ASSUME NEW h \in VendorCall, h = g PROVE VendInv'
      BY <1>0, <2>2, <3>0, <3>2, <3>3, <3>4, <3>5, <3>6, <3>7, <3>8, VendorStores
    <3> QED
      BY <3>2, <3>8
  <2> QED
    BY <1>5, <2>1, <2>2 DEF UpdateContract, Stores
<1>6. CASE InsertPermission(c)
  <2>1. CASE VendorWritesFail /\ VendEnds(c) /\ UNCHANGED vendorRows
    BY <2>1, FailedWriteKeeps
  <2>2. CASE /\ access' = [access EXCEPT ![vendCall[c].on] = "active"]
             /\ UNCHANGED <<vendor, contract, assessment, certified>> /\ VendEnds(c)
    <3>0. vendCall[c].pc = "write" /\ vendCall[c].kind = "grant"
      BY <1>6 DEF InsertPermission
    <3>1. /\ ~May("reports") => vendor.approved
          /\ ~VendorWritesFail /\ ~May("reads") /\ ~May("overlap") => ~vendor.cut
      BY <1>0, <3>0 DEF VendKnows, ApprovalKnown, AccessKnown
    <3>2. vendCall' = [vendCall EXCEPT ![c] = IdleVendorCall]
      BY <2>2 DEF VendEnds
    <3>3. access' \in [Permissions -> VendorAccessPermission]
      BY <1>0, <2>2 DEF VendorAccessPermission
    <3>4. ApprovedFirst' /\ CutOff'
      BY <1>0, <2>2, <3>1 DEF ApprovedFirst, CutOff, VendorWritesFail, May
    <3>5. VendKnows(IdleVendorCall)'
      BY IdleVendorForm, VendorAssumption DEF VendKnows, ApprovalKnown, AccessKnown, AssessmentKnown,
             AssessmentKinds, IdleVendorCall
    <3>6. ASSUME NEW d \in VendorCalls \ {c}, NEW k, k = vendCall[d] PROVE AccessKnown(k)'
      <4>1. k.kind # "report" \/ May("overlap")
        BY <3>0, <3>6 DEF VendInv, NoClash, Clash
      <4> QED
        BY <1>0, <2>2, <3>6, <4>1 DEF AccessKnown, VendorWritesFail, May
    <3> QED
      BY <1>0, <2>2, <3>0, <3>2, <3>3, <3>4, <3>5, <3>6, VendorStores
  <2> QED
    BY <1>6, <2>1, <2>2 DEF InsertPermission, Stores
<1> QED
  BY <1>2, <1>3, <1>4, <1>5, <1>6

\* Suspending access and vendor after a report keeps it.
LEMMA ReportsKeep ==
    ASSUME VendInv, UNCHANGED allowed, NEW c \in VendorCalls,
           SuspendVendorAccess(c) \/ RevokeAll(c) \/ SuspendVendor(c)
    PROVE  VendInv'
<1>0. /\ vendor \in VendorRow /\ access \in [Permissions -> VendorAccessPermission]
      /\ contract \in [Contracts -> ContractStatus \cup {None}]
      /\ ApprovedFirst /\ CutOff /\ VendForm(vendCall[c]) /\ VendKnows(vendCall[c])
      /\ IdleVendorCall \in VendorCall /\ VendForm(IdleVendorCall) /\ IdleVendorCall.kind = None
      /\ \A d \in VendorCalls : AccessKnown(vendCall[d])
  BY IdleVendorForm DEF VendInv, VendorTypeOK, VendKnows
<1>1. CASE SuspendVendorAccess(c)
  <2>1. ASSUME NEW pc \in {"revoke", "then"}, VendAt(c, pc),
               pc = "then" => ActivePermissions = {} \/ May("reads")
        PROVE  VendInv'
    <3> DEFINE g == [vendCall[c] EXCEPT !.pc = pc]
    <3>1. /\ vendCall' = [vendCall EXCEPT ![c] = g] /\ vendCall[c].pc = "read" /\ vendCall[c].kind = "report"
          /\ UNCHANGED <<vendor, access, contract, assessment, certified>>
      BY <1>1, <2>1 DEF VendAt, SuspendVendorAccess, vendorRows
    <3>2. g \in VendorCall /\ g.pc = pc /\ g.kind = "report" /\ g.on = vendCall[c].on
      BY <2>1, <3>1, CallForms
    <3> HIDE DEF g
    <3>3. VendForm(g)
      BY <3>2, VendorAssumption DEF VendForm, AssessmentKinds
    <3>4. VendKnows(g)
      BY <1>0, <2>1, <3>1, <3>2 DEF VendKnows, ApprovalKnown, AccessKnown, AssessmentKnown, AssessmentKinds
    <3> QED
      BY <3>1, <3>2, <3>3, <3>4, VendTurns
  <2> QED
    BY <1>1, <2>1 DEF SuspendVendorAccess
<1>2. CASE RevokeAll(c)
  <2> DEFINE g == [vendCall[c] EXCEPT !.pc = "then"]
  <2>1. /\ vendCall' = [vendCall EXCEPT ![c] = g] /\ vendCall[c].pc = "revoke" /\ vendCall[c].kind = "report"
        /\ UNCHANGED <<vendor, contract, assessment, certified>>
        /\ \/ access' = [p \in Permissions |-> IF p \in ActivePermissions THEN "revoked" ELSE access[p]]
           \/ VendorWritesFail /\ UNCHANGED access
    BY <1>0, <1>2 DEF RevokeAll, VendAt, VendForm
  <2>2. g \in VendorCall /\ g.pc = "then" /\ g.kind = "report" /\ g.on = vendCall[c].on
    BY <2>1, CallForms
  <2> HIDE DEF g
  <2>3. VendForm(g)
    BY <2>2, VendorAssumption DEF VendForm, AssessmentKinds
  <2>4. /\ access' \in [Permissions -> VendorAccessPermission]
        /\ \A p \in Permissions : access'[p] # "none" => access[p] # "none"
        /\ ActivePermissions' \subseteq ActivePermissions
        /\ ~VendorWritesFail => ActivePermissions' = {}
    BY <1>0, <2>1 DEF ActivePermissions, VendorAccessPermission
  <2>5. ApprovedFirst'
    BY <1>0, <2>1, <2>4 DEF ApprovedFirst, May
  <2>6. CutOff' /\ (\A k : AccessKnown(k) => AccessKnown(k)')
    BY <1>0, <2>1, <2>4 DEF CutOff, AccessKnown, VendorWritesFail, May
  <2>7. ASSUME NEW h \in VendorCall, h = g PROVE VendInv'
    <3>1. VendKnows(h)'
      BY <1>0, <2>1, <2>2, <2>4, <2>7
         DEF VendKnows, ApprovalKnown, AccessKnown, AssessmentKnown, AssessmentKinds, VendorWritesFail, May
    <3>2. \A d \in VendorCalls \ {c} : \A k : k = vendCall[d] => AccessKnown(k)'
      BY <1>0, <2>6
    <3> QED
      BY <1>0, <2>1, <2>2, <2>3, <2>4, <2>5, <2>6, <2>7, <3>1, <3>2, VendorStores
  <2> QED
    BY <2>2, <2>7
<1>3. CASE SuspendVendor(c)
  <2> DEFINE v == [vendor EXCEPT !.status = "SUSPENDED"]
             w == [v EXCEPT !.cut = TRUE]
  <2>1. /\ vendCall' = [vendCall EXCEPT ![c] = IdleVendorCall]
        /\ vendCall[c].pc = "then" /\ vendCall[c].kind = "report"
        /\ UNCHANGED <<access, contract, assessment, certified>>
        /\ vendor' = w \/ (VendorWritesFail /\ UNCHANGED vendor)
    BY <1>3 DEF SuspendVendor, VendEnds
  <2>2. CASE UNCHANGED vendor
    BY <2>1, <2>2, VendorEnds DEF VendEnds
  <2>3. CASE vendor' = w
    <3>1. v \in VendorRow /\ v.status = "SUSPENDED" /\ v.approved = vendor.approved
      BY <1>0 DEF VendorRow, VendorStatus
    <3> HIDE DEF v
    <3>2. w \in VendorRow /\ w.status = "SUSPENDED" /\ w.approved = vendor.approved /\ w.cut
      BY <3>1 DEF VendorRow
    <3> HIDE DEF w
    <3>3. May("reports")
      BY <1>0, <2>1 DEF VendKnows, ApprovalKnown
    <3>4. ~VendorWritesFail /\ ~May("reads") /\ ~May("overlap") => ActivePermissions = {}
      BY <1>0, <2>1 DEF VendKnows, AccessKnown
    <3>5. ApprovedFirst' /\ CutOff'
      BY <2>1, <2>3, <3>2, <3>3, <3>4 DEF ApprovedFirst, CutOff, ActivePermissions, VendorWritesFail, May
    <3>6. ASSUME NEW d \in VendorCalls \ {c}, NEW k, k = vendCall[d] PROVE AccessKnown(k)'
      <4>1. (k.kind # "grant" \/ May("overlap")) /\ AccessKnown(k)
        BY <1>0, <2>1, <3>6 DEF VendInv, NoClash, Clash
      <4> QED
        BY <2>1, <4>1 DEF AccessKnown, ActivePermissions, VendorWritesFail, May
    <3>7. VendKnows(IdleVendorCall)'
      BY IdleVendorForm, VendorAssumption DEF VendKnows, ApprovalKnown, AccessKnown, AssessmentKnown,
             AssessmentKinds, IdleVendorCall
    <3>8. /\ vendor' \in VendorRow /\ vendor'.status # None
          /\ (vendor.approved => vendor'.approved)
      BY <2>1, <2>3, <3>2, VendorAssumption
    <3> QED
      BY <1>0, <2>1, <3>5, <3>6, <3>7, <3>8, VendorStores
  <2> QED
    BY <2>1, <2>2, <2>3
<1> QED
  BY <1>1, <1>2, <1>3

\* Reading what is there of an assessment keeps it.
LEMMA VendorReadsKeep ==
    ASSUME VendInv, UNCHANGED allowed, NEW c \in VendorCalls, CheckExisting(c) \/ GetAssessment(c)
    PROVE  VendInv'
<1>0. /\ VendForm(vendCall[c]) /\ VendKnows(vendCall[c]) /\ vendCall[c] \in VendorCall
      /\ assessment \in [Assessments -> VendorRiskAssessment]
  BY DEF VendInv, VendorTypeOK
<1>1. CASE CheckExisting(c)
  <2>0. /\ vendCall[c].pc = "read" /\ vendCall[c].kind = "initiate"
        /\ UNCHANGED <<vendor, access, contract, assessment, certified>>
    BY <1>1 DEF CheckExisting, vendorRows
  <2>1. CASE VendEnds(c)
    BY <2>0, <2>1, VendorEnds
  <2>2. CASE (Cardinality(OpenAssessments) # 1 \/ May("reads")) /\ VendAt(c, "write")
    <3> DEFINE g == [vendCall[c] EXCEPT !.pc = "write"]
    <3>1. vendCall' = [vendCall EXCEPT ![c] = g]
      BY <2>2 DEF VendAt
    <3>2. g \in VendorCall /\ g.pc = "write" /\ g.kind = "initiate" /\ g.on = vendCall[c].on
      BY <2>0, CallForms
    <3> HIDE DEF g
    <3>4. VendForm(g)
      BY <1>0, <2>0, <3>2, VendorAssumption DEF VendForm, AssessmentKinds
    <3>5. VendKnows(g)
      BY <1>0, <2>0, <3>2 DEF VendKnows, ApprovalKnown, AccessKnown, AssessmentKnown, AssessmentKinds
    <3> QED
      BY <2>0, <3>1, <3>2, <3>4, <3>5, VendTurns
  <2> QED
    BY <1>1, <2>1, <2>2 DEF CheckExisting
<1>2. CASE GetAssessment(c)
  <2> DEFINE kind == vendCall[c].kind
             row == assessment[vendCall[c].on]
             seen == IF kind \in {"add", "resolve"} THEN row ELSE None
             g == [vendCall[c] EXCEPT !.pc = "write", !.read = seen]
  <2>0. /\ vendCall[c].pc = "read" /\ kind \in AssessmentKinds
        /\ UNCHANGED <<vendor, access, contract, assessment, certified>>
    BY <1>2 DEF GetAssessment, vendorRows, AssessmentKinds
  <2>1. CASE VendEnds(c)
    BY <2>0, <2>1, VendorEnds
  <2>2. CASE (kind # "resolve" => row.status \in Wants(kind)) /\ vendCall' = [vendCall EXCEPT ![c] = g]
    <3>1. row \in VendorRiskAssessment
      BY <1>0, <2>0 DEF VendForm
    <3>2. seen \in VendorRiskAssessment \cup {None} /\ (kind \in {"add", "resolve"} => seen = row)
      BY <3>1
    <3>3. /\ kind = "start" => row.status = "NOT_STARTED"
          /\ kind = "submit" => row.status = "IN_PROGRESS"
      BY <2>2 DEF Wants
    <3> HIDE DEF seen
    <3>4. g \in VendorCall /\ g.pc = "write" /\ g.kind = kind /\ g.on = vendCall[c].on /\ g.arg = vendCall[c].arg /\ g.read = seen
      BY <1>0, <3>2 DEF VendorCall
    <3> HIDE DEF g
    <3>5. VendForm(g)
      BY <1>0, <2>0, <3>1, <3>2, <3>4, VendorAssumption DEF VendForm, AssessmentKinds
    <3>6. VendKnows(g)
      BY <1>0, <2>0, <3>3, <3>4 DEF VendKnows, ApprovalKnown, AccessKnown, AssessmentKnown, AssessmentKinds
    <3> QED
      BY <2>0, <2>2, <3>4, <3>5, <3>6, VendTurns
  <2> QED
    BY <1>2, <2>1, <2>2 DEF GetAssessment
<1> QED
  BY <1>1, <1>2

\* A row as a request leaves it: only who starts or submits changes its status.
LEMMA AmendForms ==
    ASSUME NEW k \in VendorCall, VendForm(k), k.pc = "write",
           k.kind \in {"start", "submit", "add", "resolve"},
           NEW row \in VendorRiskAssessment
    PROVE  /\ Amends(k, row) \in VendorRiskAssessment
           /\ k.kind = "start" => Amends(k, row).status = "IN_PROGRESS"
           /\ k.kind = "submit" => Amends(k, row).status = "PENDING_REVIEW"
           /\ k.kind \in {"add", "resolve"} => /\ Amends(k, row).status = row.status
                                                /\ Amends(k, row).level = row.level
<1>0. /\ k.kind = "submit" => k.arg \in VendorRiskLevel
      /\ k.kind = "add" => k.arg \in Findings
      /\ k.kind \in {"add", "resolve"} => k.read.findings \in SUBSET Findings
  BY DEF VendForm, VendorRiskAssessment
<1>1. CASE k.kind = "start"
  <2>1. Amends(k, row) = [row EXCEPT !.status = "IN_PROGRESS"]
    BY <1>1 DEF Amends
  <2> QED
    BY <1>1, <2>1 DEF VendorRiskAssessment, AssessmentStatus
<1>2. CASE k.kind = "submit"
  <2> DEFINE r1 == [row EXCEPT !.status = "PENDING_REVIEW"]
             r2 == [r1 EXCEPT !.level = k.arg]
             r3 == [r2 EXCEPT !.findings = {}]
  <2>1. Amends(k, row) = r3
    BY <1>2 DEF Amends
  <2>2. r1 \in VendorRiskAssessment /\ r1.status = "PENDING_REVIEW"
    BY DEF VendorRiskAssessment, AssessmentStatus
  <2> HIDE DEF r1
  <2>3. r2 \in VendorRiskAssessment /\ r2.status = "PENDING_REVIEW"
    BY <1>0, <1>2, <2>2 DEF VendorRiskAssessment
  <2> HIDE DEF r2
  <2>4. r3 \in VendorRiskAssessment /\ r3.status = "PENDING_REVIEW"
    BY <2>3 DEF VendorRiskAssessment
  <2> QED
    BY <1>2, <2>1, <2>4
<1>4. CASE k.kind = "add"
  <2> DEFINE f == k.read.findings \cup {k.arg}
  <2>1. Amends(k, row) = [row EXCEPT !.findings = f]
    BY <1>4 DEF Amends
  <2>2. f \in SUBSET Findings
    BY <1>0, <1>4
  <2> HIDE DEF f
  <2> QED
    BY <1>4, <2>1, <2>2 DEF VendorRiskAssessment
<1>5. CASE k.kind = "resolve"
  <2> DEFINE f == k.read.findings
  <2>1. Amends(k, row) = [row EXCEPT !.findings = f]
    BY <1>5 DEF Amends
  <2>2. f \in SUBSET Findings
    BY <1>0, <1>5
  <2> HIDE DEF f
  <2> QED
    BY <1>5, <2>1, <2>2 DEF VendorRiskAssessment
<1> QED
  BY <1>1, <1>2, <1>4, <1>5

\* What is refused changes nothing, and a row that is entered is one that nobody read.
LEMMA EnteredKeeps ==
    ASSUME VendInv, UNCHANGED allowed,
           \/ \E c \in VendorCalls : InsertAssessment(c) \/ CompleteAssessment(c)
           \/ \E a \in Assessments : EnterAssessment(a)
    PROVE  VendInv'
<1>1. ASSUME NEW c \in VendorCalls, InsertAssessment(c) \/ CompleteAssessment(c) PROVE VendInv'
  BY <1>1, VendorEnds DEF InsertAssessment, CompleteAssessment, vendorRows
<1>2. ASSUME NEW a \in Assessments, EnterAssessment(a) PROVE VendInv'
  <2> DEFINE row == [assessment[a] EXCEPT !.status = "NOT_STARTED"]
  <2>1. /\ assessment' = [assessment EXCEPT ![a] = row] /\ assessment[a].status = None
        /\ UNCHANGED <<vendor, access, contract, certified, vendCall>>
    BY <1>2 DEF EnterAssessment
  <2>2. assessment \in [Assessments -> VendorRiskAssessment]
    BY DEF VendInv, VendorTypeOK
  <2>3. row \in VendorRiskAssessment
    BY <2>2 DEF VendorRiskAssessment, AssessmentStatus
  <2> HIDE DEF row
  <2>4. /\ assessment' \in [Assessments -> VendorRiskAssessment]
        /\ \A b \in Assessments \ {a} : assessment'[b] = assessment[b]
    BY <2>1, <2>2, <2>3
  <2>5. VendorTypeOK'
    BY <2>1, <2>4 DEF VendInv, VendorTypeOK
  <2>6. ASSUME NEW d \in VendorCalls PROVE VendForm(vendCall[d])'
    <3>1. VendForm(vendCall'[d])
      BY <2>1 DEF VendInv
    <3> QED
      BY <3>1 DEF VendForm
  <2>7. ASSUME NEW k, VendForm(k), VendKnows(k) PROVE VendKnows(k)'
    <3>1. k.kind \in AssessmentKinds => k.on \in Assessments \ {a}
      BY <2>1, <2>7 DEF VendForm, VendKnows, AssessmentKnown
    <3>2. AssessmentKnown(k)'
      BY <2>4, <2>7, <3>1 DEF VendKnows, AssessmentKnown, AssessmentKinds, May
    <3> QED
      BY <2>1, <2>7, <3>2 DEF VendKnows, ApprovalKnown, AccessKnown, ActivePermissions, VendorWritesFail, May
  <2>8. ASSUME NEW d \in VendorCalls PROVE VendKnows(vendCall[d])'
    <3>1. VendForm(vendCall'[d]) /\ VendKnows(vendCall'[d])
      <4>1. VendForm(vendCall[d]) /\ VendKnows(vendCall[d]) /\ vendCall'[d] = vendCall[d]
        BY <2>1 DEF VendInv
      <4> QED
        BY <4>1
    <3> QED
      BY <2>7, <3>1
  <2>9. NoClash' /\ ApprovedFirst' /\ CutOff'
    BY <2>1 DEF VendInv, NoClash, Clash, ApprovedFirst, CutOff, ActivePermissions, VendorWritesFail, May
  <2> QED
    BY <2>5, <2>6, <2>8, <2>9 DEF VendInv
<1> QED
  BY <1>1, <1>2

\* Writing an assessment keeps it.
LEMMA UpdateAssessmentKeeps ==
    ASSUME VendInv, UNCHANGED allowed, NEW c \in VendorCalls, UpdateAssessment(c) PROVE VendInv'
<1>0. /\ VendForm(vendCall[c]) /\ VendKnows(vendCall[c]) /\ vendCall[c] \in VendorCall
      /\ assessment \in [Assessments -> VendorRiskAssessment]
      /\ vendor \in VendorRow /\ access \in [Permissions -> VendorAccessPermission]
      /\ contract \in [Contracts -> ContractStatus \cup {None}] /\ certified \in {"none", "added", "verified"}
      /\ vendCall \in [VendorCalls -> VendorCall]
      /\ IdleVendorCall \in VendorCall /\ VendForm(IdleVendorCall) /\ IdleVendorCall.kind = None
      /\ ApprovedFirst /\ CutOff
  BY IdleVendorForm DEF VendInv, VendorTypeOK
<1>1. CASE VendorWritesFail /\ VendEnds(c) /\ UNCHANGED vendorRows
  BY <1>1, FailedWriteKeeps
<1>2. CASE /\ assessment' = [assessment EXCEPT ![vendCall[c].on] = Amends(vendCall[c], @)]
           /\ UNCHANGED <<vendor, access, contract, certified>> /\ VendEnds(c)
  <2> DEFINE a == vendCall[c].on
             kind == vendCall[c].kind
             row == Amends(vendCall[c], assessment[a])
  <2>0. vendCall[c].pc = "write" /\ kind \in {"start", "submit", "add", "resolve"} /\ kind \in AssessmentKinds
    BY DEF UpdateAssessment, AssessmentKinds
  <2>1. /\ a \in Assessments /\ assessment[a] \in VendorRiskAssessment /\ assessment[a].status # None
        /\ ~May("overlap") => /\ kind = "start" => assessment[a].status = "NOT_STARTED"
                              /\ kind = "submit" => assessment[a].status = "IN_PROGRESS"
    BY <1>0, <2>0 DEF VendForm, VendKnows, AssessmentKnown
  <2>2. /\ row \in VendorRiskAssessment
        /\ kind = "start" => row.status = "IN_PROGRESS"
        /\ kind = "submit" => row.status = "PENDING_REVIEW"
        /\ kind \in {"add", "resolve"} => row.status = assessment[a].status
    BY <1>0, <2>0, <2>1, AmendForms
  <2>3. vendCall' = [vendCall EXCEPT ![c] = IdleVendorCall] /\ assessment' = [assessment EXCEPT ![a] = row]
    BY <1>2 DEF VendEnds
  <2> HIDE DEF row
  <2>6. /\ assessment' \in [Assessments -> VendorRiskAssessment] /\ assessment'[a] = row
        /\ \A b \in Assessments \ {a} : assessment'[b] = assessment[b]
    BY <1>0, <2>1, <2>2, <2>3
  <2>7. row.status # None
    BY <2>0, <2>1, <2>2, VendorAssumption
  <2>8. ASSUME NEW d \in VendorCalls \ {c}, NEW k, k = vendCall[d] PROVE VendKnows(k)'
    <3>1. VendKnows(k) /\ VendForm(k)
          /\ (May("overlap") \/ ~(kind \in {"start", "submit"} /\ k.kind = kind /\ k.on = a))
      BY <2>8 DEF VendInv, NoClash, Clash
    <3>2. ApprovalKnown(k)' /\ AccessKnown(k)' /\ (k.pc # "idle" => vendor'.status # None)
      BY <1>2, <3>1 DEF VendKnows, ApprovalKnown, AccessKnown, ActivePermissions, VendorWritesFail, May
    <3>5. k.kind \in AssessmentKinds => assessment'[k.on].status # None
      BY <2>6, <2>7, <3>1 DEF VendKnows, AssessmentKnown, VendForm
    <3>6. ASSUME ~May("overlap")
          PROVE  /\ k.kind = "start" /\ k.pc = "write" => assessment'[k.on].status = "NOT_STARTED"
                 /\ k.kind = "submit" /\ k.pc = "write" => assessment'[k.on].status = "IN_PROGRESS"
      <4>1. CASE k.on = a
        BY <2>0, <2>1, <2>2, <2>6, <3>1, <3>6, <4>1 DEF VendKnows, AssessmentKnown, AssessmentKinds
      <4>2. CASE k.on # a
        BY <2>6, <3>1, <3>6, <4>2 DEF VendKnows, AssessmentKnown, VendForm, AssessmentKinds
      <4> QED
        BY <4>1, <4>2
    <3> QED
      BY <3>1, <3>2, <3>5, <3>6 DEF VendKnows, AssessmentKnown, May
  <2>9. VendKnows(IdleVendorCall)' /\ ApprovedFirst' /\ CutOff'
    BY <1>0, <1>2, IdleKnows DEF ApprovedFirst, CutOff, ActivePermissions, VendorWritesFail, May
  <2> QED
    BY <1>0, <1>2, <2>3, <2>6, <2>8, <2>9, VendorWrites
<1> QED
  BY <1>1, <1>2 DEF UpdateAssessment, Stores

\* Every step about a vendor keeps the invariant.
LEMMA VendorsKeep ==
    ASSUME VendInv, UNCHANGED allowed, VendorNext PROVE VendInv'
<1>1. ASSUME NEW c \in VendorCalls, VendorStep(c) PROVE VendInv'
  BY <1>1, ChecksKeep, VendorWritesKeep, ReportsKeep, VendorReadsKeep, EnteredKeeps,
     UpdateAssessmentKeeps DEF VendorStep
<1>2. ASSUME NEW c \in VendorCalls, NEW a \in Considered,
             \/ InitiateAssessment(c, a) \/ ChangeAssessment(c, "start", a, None)
             \/ \E l \in CalculatedLevels : ChangeAssessment(c, "submit", a, l)
             \/ ChangeAssessment(c, "complete", a, None) \/ ChangeAssessment(c, "resolve", a, None)
             \/ \E f \in Findings : ChangeAssessment(c, "add", a, f)
      PROVE  VendInv'
  BY <1>2, Considers, AssessmentsBegin
<1>3. ASSUME NEW c \in VendorCalls,
             \/ May("status") /\ \E s \in VendorStatus : UpdateVendorStatus(c, s)
             \/ \E k \in Contracts : CreateContract(c, k) \/ ActivateContract(c, k)
             \/ \E p \in Permissions : GrantAccess(c, p)
             \/ May("reports") /\ ReportIncident(c)
      PROVE  VendInv'
  BY <1>3, RequestsOfVendorBegin
<1>4. ASSUME \/ CreateVendor \/ AddCertification \/ VerifyCertification
             \/ \E k \in Contracts : SubmitContract(k)
             \/ \E p \in Permissions : RevokeAccess(p)
      PROVE  VendInv'
  BY <1>4, VendorTablesKeep
<1>5. ASSUME NEW a \in Considered, EnterAssessment(a) PROVE VendInv'
  BY <1>5, Considers, EnteredKeeps
<1> QED
  BY <1>1, <1>2, <1>3, <1>4, <1>5, VendorBackendDiesKeeps DEF VendorNext

\* So does a step of something else.
LEMMA VendorsRest == ASSUME VendInv, UNCHANGED allowed, UNCHANGED vendorVars PROVE VendInv'
<1>1. UNCHANGED <<vendor, access, contract, assessment, certified, vendCall>>
  BY DEF vendorVars, vendorRows
<1>2. /\ vendor \in VendorRow /\ access \in [Permissions -> VendorAccessPermission]
      /\ contract \in [Contracts -> ContractStatus \cup {None}] /\ certified \in {"none", "added", "verified"}
      /\ ApprovedFirst /\ CutOff
  BY DEF VendInv, VendorTypeOK
<1>3. ApprovedFirst' /\ ActivePermissions' = ActivePermissions
  BY <1>1, <1>2 DEF ApprovedFirst, ActivePermissions, May
<1> QED
  BY <1>1, <1>2, <1>3, VendorRests DEF CutOff

\* An assessment is not started twice, nor is what waits for its review changed.
LEMMA AssessmentsMove ==
    ASSUME VendInv, UNCHANGED allowed, VendorNext, ~May("overlap"), NEW a \in Assessments
    PROVE  /\ assessment[a].status = "IN_PROGRESS" => assessment'[a].status # "NOT_STARTED"
           /\ assessment[a].status = "PENDING_REVIEW" =>
                /\ assessment'[a].status = "PENDING_REVIEW"
                /\ assessment'[a].level = assessment[a].level
<1>0. assessment \in [Assessments -> VendorRiskAssessment]
  BY DEF VendInv, VendorTypeOK
<1>1. CASE UNCHANGED assessment
  BY <1>1
<1>2. ASSUME NEW b \in Considered, EnterAssessment(b)
      PROVE  /\ assessment[b].status = None
             /\ assessment' = [assessment EXCEPT ![b].status = "NOT_STARTED"]
  BY <1>2 DEF EnterAssessment
<1>3. CASE \E b \in Considered : EnterAssessment(b)
  <2>1. PICK b \in Considered : EnterAssessment(b)
    BY <1>3
  <2> QED
    BY <1>0, <1>2, <2>1, Considers, VendorAssumption
<1>4. ASSUME NEW c \in VendorCalls, UpdateAssessment(c)
      PROVE  /\ assessment[a].status = "IN_PROGRESS" => assessment'[a].status # "NOT_STARTED"
             /\ assessment[a].status = "PENDING_REVIEW" =>
                  /\ assessment'[a].status = "PENDING_REVIEW"
                  /\ assessment'[a].level = assessment[a].level
  <2>0. VendForm(vendCall[c]) /\ VendKnows(vendCall[c]) /\ vendCall[c] \in VendorCall
    BY CallForms
  <2>1. CASE UNCHANGED vendorRows
    BY <2>1 DEF vendorRows
  <2>2. CASE assessment' = [assessment EXCEPT ![vendCall[c].on] = Amends(vendCall[c], @)]
    <3> DEFINE b == vendCall[c].on
               kind == vendCall[c].kind
               row == Amends(vendCall[c], assessment[b])
    <3>1. vendCall[c].pc = "write" /\ kind \in {"start", "submit", "add", "resolve"} /\ kind \in AssessmentKinds
      BY <1>4 DEF UpdateAssessment, AssessmentKinds
    <3>2. /\ b \in Assessments /\ assessment[b] \in VendorRiskAssessment
          /\ kind = "start" => assessment[b].status = "NOT_STARTED"
          /\ kind = "submit" => assessment[b].status = "IN_PROGRESS"
      BY <1>0, <2>0, <3>1 DEF VendForm, VendKnows, AssessmentKnown
    <3>3. /\ kind = "submit" => row.status = "PENDING_REVIEW"
          /\ kind = "start" => row.status = "IN_PROGRESS"
          /\ kind \in {"add", "resolve"} => row.status = assessment[b].status /\ row.level = assessment[b].level
      BY <2>0, <3>1, <3>2, AmendForms
    <3>4. assessment' = [assessment EXCEPT ![b] = row]
      BY <2>2
    <3> HIDE DEF row, b
    <3>5. CASE a = b
      BY <1>0, <3>1, <3>2, <3>3, <3>4, <3>5
    <3>6. CASE a # b
      BY <1>0, <3>4, <3>6
    <3> QED
      BY <3>5, <3>6
  <2> QED
    BY <1>4, <2>1, <2>2 DEF UpdateAssessment, Stores
<1>5. ASSUME NEW c \in VendorCalls, VendorStep(c), ~UpdateAssessment(c) PROVE UNCHANGED assessment
  BY <1>5 DEF VendorStep, CheckStatus, WriteVendorStatus, CheckContractor, InsertContract, CheckContract,
     UpdateContract, ActivateVendor, CheckGrantee, InsertPermission, SuspendVendorAccess, RevokeAll,
     SuspendVendor, CheckExisting, InsertAssessment, GetAssessment, CompleteAssessment, Checks, Stores, vendorRows
<1>6. ASSUME NEW c \in VendorCalls, NEW kind, NEW x, NEW arg, BeginVend(c, kind, x, arg)
      PROVE  UNCHANGED assessment
  BY <1>6 DEF BeginVend, vendorRows
<1> QED
  BY <1>1, <1>3, <1>4, <1>5, <1>6
  DEF VendorNext, CreateVendor, UpdateVendorStatus, SubmitContract, CreateContract, ActivateContract,
      RevokeAccess, GrantAccess, ReportIncident, AddCertification, VerifyCertification, InitiateAssessment,
      ChangeAssessment, VendorBackendDies, vendorRows

-----------------------------------------------------------------------------
(* Backups, plans, tests and failovers.                                                          *)

\* What a request carries, and where it may stand.
RecForm(k) ==
    /\ k.pc = "idle" <=> k.kind = None
    /\ k.kind \in {None, "start", "complete", "activate", "deactivate", "test", "failover"}
    /\ k.kind = "start" => k.on \in Schedules /\ k.pc \in {"read", "insert", "plan"}
    /\ k.kind = "complete" => /\ k.on \in Executions /\ k.pc \in {"read", "write", "clear", "point", "plan"}
                              /\ k.pc # "read" => k.row \in BackupSchedule
    /\ k.kind = "activate" => k.on \in Activations /\ k.pc \in {"read", "plan", "insert"}
    /\ k.kind = "deactivate" => k.on \in Activations /\ k.pc \in {"write", "plan"}
    /\ k.kind = "test" => k.on \in Tests /\ k.arg \in DrTestResult /\ k.pc \in {"write", "plan"}
    /\ k.kind = "failover" => /\ k.on = None /\ k.arg \in FailoverStatus /\ k.pc \in {"read", "write"}
                              /\ k.pc = "write" => k.row \in FailoverEvent
\* What does not overlap.
Collide(k, m) ==
    \/ k.kind # None /\ k.kind = m.kind /\ (k.on = m.on \/ k.kind \in {"complete", "test"})
    \/ k.kind \in {"activate", "deactivate"} /\ m.kind \in {"activate", "deactivate"}
Ordered == \A c, d \in RecoveryCalls : c # d => ~Collide(recCall[c], recCall[d])

\* Backups: the counters that were read are those of the schedule until they are written, a run
\* is counted once its execution is there, and points are current only between completions.
Runs(s) == {e \in Executions : execution[e].of = s}
Counting(k, s) == k.kind = "start" /\ k.pc = "plan" /\ k.on = s
BackupsInv ==
    /\ \A e \in Executions : /\ execution[e].status # None => execution[e].of \in Schedules
                             /\ execution[e].status = None => execution[e].of = None /\ ~execution[e].over
    /\ \A s \in Schedules : schedule[s].ok = counted[s].ok /\ schedule[s].bad = counted[s].bad
    /\ \A c \in RecoveryCalls :
          /\ recCall[c].kind = "start" /\ recCall[c].pc \in {"insert", "plan"} =>
                recCall[c].count = schedule[recCall[c].on].total
          /\ recCall[c].kind = "complete" =>
                /\ execution[recCall[c].on].status # None
                /\ recCall[c].pc # "read" =>
                      /\ recCall[c].row.ok = schedule[execution[recCall[c].on].of].ok
                      /\ recCall[c].row.bad = schedule[execution[recCall[c].on].of].bad
    /\ CalmRecovery => \A s \in Schedules :
          /\ (\A c \in RecoveryCalls : ~Counting(recCall[c], s)) => schedule[s].total = Cardinality(Runs(s))
          /\ \A c \in RecoveryCalls : Counting(recCall[c], s) => schedule[s].total + 1 = Cardinality(Runs(s))
    /\ ~RecWritesFail =>
          /\ (\E c \in RecoveryCalls : recCall[c].pc = "point") => \A e \in Executions : current[e] = 0
          /\ \A e \in Executions : current[e] > 0 => current[e] = 1 /\ latest = e
          /\ ~May("crash") /\ (\A c \in RecoveryCalls : recCall[c].pc # "point") =>
                \A e \in Executions : latest = e => current[e] = 1

\* The plan: it is active while something is open, or about to be, or was just closed.
PlansInv ==
    /\ \A c \in RecoveryCalls : recCall[c].kind = "activate" =>
          /\ recCall[c].pc \in {"read", "plan"} => plan.count < MaxUpdates
          /\ recCall[c].pc = "plan" => recCall[c].count = plan.count
    /\ CalmRecovery /\ plan.status = "active" =>
          \/ \E a \in Activations : activation[a] = "open"
          \/ \E c \in RecoveryCalls : \/ recCall[c].kind = "activate" /\ recCall[c].pc = "insert"
                                      \/ recCall[c].kind = "deactivate" /\ recCall[c].pc = "plan"
\* The recovery plan: a test that is over is noted, or about to be.
TestsInv ==
    CalmRecovery =>
       /\ \A c \in RecoveryCalls : recCall[c].kind = "test" /\ recCall[c].pc = "plan" =>
             recCall[c].arg = drPlan.expected
       /\ (\A c \in RecoveryCalls : ~(recCall[c].kind = "test" /\ recCall[c].pc = "plan")) =>
             drPlan.result = drPlan.expected
\* The failover: the row that is written is the one that was read.
FailoversInv ==
    /\ \A c \in RecoveryCalls : recCall[c].kind = "failover" =>
          /\ failover.status # None /\ failover.sent < MaxUpdates
          /\ recCall[c].pc = "write" => recCall[c].row = failover
    /\ FailoverIsTold

RecInv ==
    /\ RecoveryTypeOK /\ (\A c \in RecoveryCalls : RecForm(recCall[c])) /\ Ordered
    /\ BackupsInv /\ PlansInv /\ TestsInv /\ FailoversInv

\* The invariant of recovery implies what the run checks of it.
LEMMA RecoverySafe == RecInv => /\ CurrentPointIsLatest /\ RunsAreCounted /\ ActivePlanIsActivated
                                /\ LastTestIsShown /\ FailoverIsTold
<1> SUFFICES ASSUME RecInv PROVE /\ CurrentPointIsLatest /\ RunsAreCounted /\ ActivePlanIsActivated
                                 /\ LastTestIsShown /\ FailoverIsTold
  OBVIOUS
<1>1. CurrentPointIsLatest
  BY DEF RecInv, BackupsInv, CurrentPointIsLatest
<1>2. RunsAreCounted
  <2> SUFFICES ASSUME CalmRecovery, NEW s \in Schedules
               PROVE  /\ schedule[s].ok = counted[s].ok /\ schedule[s].bad = counted[s].bad
                      /\ ~Under({"start"}) => schedule[s].total = Cardinality(Runs(s))
    BY DEF RunsAreCounted, Runs
  <2>1. ~Under({"start"}) => \A c \in RecoveryCalls : ~Counting(recCall[c], s)
    BY DEF Under, Counting
  <2> QED
    BY <2>1 DEF RecInv, BackupsInv
<1>3. ActivePlanIsActivated /\ LastTestIsShown
  BY DEF RecInv, PlansInv, TestsInv, ActivePlanIsActivated, LastTestIsShown, Under
<1> QED
  BY <1>1, <1>2, <1>3 DEF RecInv, FailoversInv

\* A request that ended holds nothing.
LEMMA IdleRecForm ==
    /\ IdleRecCall \in RecCall /\ IdleRecCall.pc = "idle" /\ IdleRecCall.kind = None /\ RecForm(IdleRecCall)
<1>1. IdleRecCall \in RecCall /\ IdleRecCall.pc = "idle" /\ IdleRecCall.kind = None
  BY DEF IdleRecCall, RecCall
<1> QED
  BY <1>1, RecoveryAssumption DEF RecForm

\* At the start nothing is backed up, planned or tested.
LEMMA RecoveryInitHolds == RecoveryInit => RecInv
<1> SUFFICES ASSUME RecoveryInit PROVE RecInv
  OBVIOUS
<1>1. \A c \in RecoveryCalls : recCall[c].pc = "idle" /\ recCall[c].kind = None
  BY IdleRecForm DEF RecoveryInit
<1>2. RecoveryTypeOK
  <2>1. <<>> \in Seq(FailoverStatus)
    OBVIOUS
  <2>2. failover \in FailoverEvent
    BY <2>1, RecoveryAssumption DEF RecoveryInit, FailoverEvent
  <2>3. execution \in [Executions -> BackupExecution] /\ schedule \in [Schedules -> BackupSchedule]
    BY DEF RecoveryInit, BackupExecution, BackupSchedule
  <2>4. /\ plan \in [status : DrPlanStatus, count : 0..MaxUpdates] /\ activation \in [Activations -> BcpActivation]
        /\ test \in [Tests -> DrTest] /\ drPlan \in [result : DrTestResult \cup {None}, expected : DrTestResult \cup {None}]
    BY RecoveryAssumption DEF RecoveryInit, DrPlanStatus, BcpActivation, DrTest
  <2>5. current \in [Executions -> 0..2] /\ latest \in Executions \cup {None} /\ counted \in [Schedules -> [ok : Nat, bad : Nat]]
    BY DEF RecoveryInit
  <2> QED
    BY <2>2, <2>3, <2>4, <2>5, IdleRecForm DEF RecoveryInit, RecoveryTypeOK
<1>3. Ordered
  BY <1>1, RecoveryAssumption DEF Ordered, Collide
<1>4. BackupsInv
  <2>1. \A s \in Schedules : Runs(s) = {} /\ schedule[s].total = 0
    BY RecoveryAssumption DEF RecoveryInit, Runs
  <2>2. Cardinality({}) = 0
    BY FS_EmptySet
  <2>3. \A s \in Schedules, c \in RecoveryCalls : ~Counting(recCall[c], s)
    BY <1>1, RecoveryAssumption DEF Counting
  <2>4. \A e \in Executions : latest # e /\ current[e] = 0
    BY RecoveryAssumption DEF RecoveryInit
  <2>5. /\ \A e \in Executions : execution[e].status = None /\ execution[e].of = None /\ ~execution[e].over
        /\ \A s \in Schedules : schedule[s].ok = counted[s].ok /\ schedule[s].bad = counted[s].bad
    BY DEF RecoveryInit
  <2>6. \A c \in RecoveryCalls : recCall[c].kind \notin {"start", "complete"} /\ recCall[c].pc # "point"
    BY <1>1, RecoveryAssumption
  <2>7. CalmRecovery => \A s \in Schedules :
          /\ (\A c \in RecoveryCalls : ~Counting(recCall[c], s)) => schedule[s].total = Cardinality(Runs(s))
          /\ \A c \in RecoveryCalls : Counting(recCall[c], s) => schedule[s].total + 1 = Cardinality(Runs(s))
    BY <2>1, <2>2, <2>3
  <2> QED
    BY <2>4, <2>5, <2>6, <2>7 DEF BackupsInv
<1>5. PlansInv /\ TestsInv /\ FailoversInv
  BY <1>1, RecoveryAssumption DEF RecoveryInit, PlansInv, TestsInv, FailoversInv, FailoverIsTold
<1> QED
  BY <1>1, <1>2, <1>3, <1>4, <1>5, IdleRecForm DEF RecInv, RecoveryInit

\* A request of one kind moves; what is known of the other kinds stays.
LEMMA RecMoves ==
    ASSUME RecInv, UNCHANGED allowed, NEW c \in RecoveryCalls, NEW g \in RecCall,
           recCall' = [recCall EXCEPT ![c] = g], RecForm(g),
           \/ g.kind = None
           \/ g.kind = recCall[c].kind /\ g.on = recCall[c].on
           \/ recCall[c].kind = None /\ \A d \in RecoveryCalls \ {c} : ~Collide(g, recCall[d]),
           schedule' \in [Schedules -> BackupSchedule], execution' \in [Executions -> BackupExecution],
           current' \in [Executions -> 0..2], latest' \in Executions \cup {None},
           counted' \in [Schedules -> [ok : Nat, bad : Nat]],
           plan' \in [status : DrPlanStatus, count : 0..MaxUpdates], activation' \in [Activations -> BcpActivation],
           test' \in [Tests -> DrTest],
           drPlan' \in [result : DrTestResult \cup {None}, expected : DrTestResult \cup {None}],
           failover' \in FailoverEvent,
           \/ BackupsInv'
           \/ /\ UNCHANGED <<schedule, execution, current, latest, counted>>
              /\ {recCall[c].kind, g.kind} \cap {"start", "complete"} = {},
           \/ PlansInv'
           \/ UNCHANGED <<plan, activation>> /\ {recCall[c].kind, g.kind} \cap {"activate", "deactivate"} = {},
           \/ TestsInv'
           \/ UNCHANGED <<test, drPlan>> /\ "test" \notin {recCall[c].kind, g.kind},
           \/ FailoversInv'
           \/ UNCHANGED failover /\ "failover" \notin {recCall[c].kind, g.kind}
    PROVE  RecInv'
<1>0. /\ recCall \in [RecoveryCalls -> RecCall] /\ RecForm(recCall[c])
      /\ recCall'[c] = g /\ \A d \in RecoveryCalls \ {c} : recCall'[d] = recCall[d]
  BY DEF RecInv, RecoveryTypeOK
<1>1. RecoveryTypeOK'
  BY <1>0 DEF RecoveryTypeOK
<1>2. ASSUME NEW d \in RecoveryCalls PROVE RecForm(recCall[d])'
  <2>1. RecForm(recCall'[d])
    BY <1>0 DEF RecInv
  <2> QED
    BY <2>1 DEF RecForm
<1>3. Ordered'
  BY <1>0, RecoveryAssumption DEF RecInv, Ordered, Collide
<1>4. BackupsInv'
  <2> SUFFICES ASSUME UNCHANGED <<schedule, execution, current, latest, counted>>,
                      recCall[c].kind \notin {"start", "complete"}, g.kind \notin {"start", "complete"}
               PROVE  BackupsInv'
    OBVIOUS
  <2>1. recCall[c].pc # "point" /\ g.pc # "point"
    BY <1>0 DEF RecForm
  <2>2. \A s \in Schedules, d \in RecoveryCalls : Counting(recCall[d], s)' <=> Counting(recCall[d], s)
    BY <1>0 DEF Counting
  <2>3. \A d \in RecoveryCalls : recCall'[d].pc = "point" <=> recCall[d].pc = "point"
    BY <1>0, <2>1
  <2>4. \A d \in RecoveryCalls : recCall'[d].kind \in {"start", "complete"} => recCall'[d] = recCall[d]
    BY <1>0
  <2> QED
    <3>1. \A s \in Schedules : Runs(s)' = Runs(s)
      BY DEF Runs
    <3>2. BackupsInv /\ CalmRecovery' = CalmRecovery /\ RecWritesFail' = RecWritesFail /\ May("crash")' = May("crash")
      BY DEF RecInv, CalmRecovery, RecWritesFail, May
    <3>3. \A d \in RecoveryCalls :
             /\ recCall'[d].kind = "start" /\ recCall'[d].pc \in {"insert", "plan"} =>
                   recCall'[d].count = schedule'[recCall'[d].on].total
             /\ recCall'[d].kind = "complete" =>
                   /\ execution'[recCall'[d].on].status # None
                   /\ recCall'[d].pc # "read" =>
                         /\ recCall'[d].row.ok = schedule'[execution'[recCall'[d].on].of].ok
                         /\ recCall'[d].row.bad = schedule'[execution'[recCall'[d].on].of].bad
      BY <2>4, <3>2 DEF BackupsInv
    <3>4. CalmRecovery => \A s \in Schedules :
             /\ (\A d \in RecoveryCalls : ~Counting(recCall[d], s)') =>
                   schedule'[s].total = Cardinality(Runs(s)')
             /\ \A d \in RecoveryCalls : Counting(recCall[d], s)' =>
                   schedule'[s].total + 1 = Cardinality(Runs(s)')
      BY <2>2, <3>1, <3>2 DEF BackupsInv
    <3>5. ~RecWritesFail =>
             /\ (\E d \in RecoveryCalls : recCall'[d].pc = "point") => \A e \in Executions : current'[e] = 0
             /\ \A e \in Executions : current'[e] > 0 => current'[e] = 1 /\ latest' = e
             /\ ~May("crash") /\ (\A d \in RecoveryCalls : recCall'[d].pc # "point") =>
                   \A e \in Executions : latest' = e => current'[e] = 1
      BY <2>3, <3>2 DEF BackupsInv
    <3>6. (\A e \in Executions : /\ execution[e].status # None => execution[e].of \in Schedules
                                 /\ execution[e].status = None => execution[e].of = None /\ ~execution[e].over)'
      BY <3>2 DEF BackupsInv
    <3>7. (\A s \in Schedules : schedule[s].ok = counted[s].ok /\ schedule[s].bad = counted[s].bad)'
      BY <3>2 DEF BackupsInv
    <3> QED
      BY <3>2, <3>3, <3>4, <3>5, <3>6, <3>7, Zenon DEF BackupsInv
<1>5. PlansInv'
  <2> SUFFICES ASSUME UNCHANGED <<plan, activation>>,
                      recCall[c].kind \notin {"activate", "deactivate"}, g.kind \notin {"activate", "deactivate"}
               PROVE  PlansInv'
    OBVIOUS
  <2>1. \A d \in RecoveryCalls : /\ recCall'[d].kind \in {"activate", "deactivate"} => recCall'[d] = recCall[d]
                                 /\ recCall[d].kind \in {"activate", "deactivate"} => recCall'[d] = recCall[d]
    BY <1>0
  <2> QED
    BY <2>1 DEF RecInv, PlansInv, CalmRecovery, RecWritesFail, May
<1>6. TestsInv'
  BY <1>0 DEF RecInv, TestsInv, CalmRecovery, RecWritesFail, May
<1>7. FailoversInv'
  BY <1>0 DEF RecInv, FailoversInv, FailoverIsTold
<1> QED
  BY <1>1, <1>2, <1>3, <1>4, <1>5, <1>6, <1>7 DEF RecInv

\* What a request may rely on.
RecKnows(k) ==
    /\ k.kind = "start" /\ k.pc \in {"insert", "plan"} => k.count = schedule[k.on].total
    /\ k.kind = "complete" =>
          /\ execution[k.on].status # None
          /\ k.pc # "read" => /\ k.row.ok = schedule[execution[k.on].of].ok
                              /\ k.row.bad = schedule[execution[k.on].of].bad
    /\ k.kind = "activate" =>
          /\ k.pc \in {"read", "plan"} => plan.count < MaxUpdates
          /\ k.pc = "plan" => k.count = plan.count
    /\ CalmRecovery /\ k.kind = "test" /\ k.pc = "plan" => k.arg = drPlan.expected
    /\ k.kind = "failover" => /\ failover.status # None /\ failover.sent < MaxUpdates
                              /\ k.pc = "write" => k.row = failover

\* What a request is, and is at its next place.
LEMMA RecForms ==
    ASSUME RecInv, NEW c \in RecoveryCalls
    PROVE  /\ recCall[c] \in RecCall /\ RecForm(recCall[c]) /\ RecKnows(recCall[c])
           /\ recCall \in [RecoveryCalls -> RecCall]
           /\ \A pc \in {"insert", "write", "clear", "point", "plan"} : LET g == [recCall[c] EXCEPT !.pc = pc] IN
                /\ g \in RecCall /\ g.pc = pc /\ g.kind = recCall[c].kind /\ g.on = recCall[c].on
                /\ g.arg = recCall[c].arg /\ g.row = recCall[c].row /\ g.count = recCall[c].count
<1>1. recCall[c] \in RecCall /\ RecForm(recCall[c]) /\ recCall \in [RecoveryCalls -> RecCall]
  BY DEF RecInv, RecoveryTypeOK
<1>2. RecKnows(recCall[c])
  BY DEF RecKnows, RecInv, BackupsInv, PlansInv, TestsInv, FailoversInv
<1> QED
  BY <1>1, <1>2 DEF RecCall

\* The types of the tables.
LEMMA RecTypes ==
    ASSUME RecInv
    PROVE  /\ schedule \in [Schedules -> BackupSchedule] /\ execution \in [Executions -> BackupExecution]
           /\ current \in [Executions -> 0..2] /\ latest \in Executions \cup {None}
           /\ counted \in [Schedules -> [ok : Nat, bad : Nat]]
           /\ plan \in [status : DrPlanStatus, count : 0..MaxUpdates] /\ activation \in [Activations -> BcpActivation]
           /\ test \in [Tests -> DrTest]
           /\ drPlan \in [result : DrTestResult \cup {None}, expected : DrTestResult \cup {None}]
           /\ failover \in FailoverEvent
BY DEF RecInv, RecoveryTypeOK

\* One request moves and the tables stay.
LEMMA RecTurns ==
    ASSUME RecInv, UNCHANGED <<allowed, schedule, execution, current, latest, counted, plan, activation, test, drPlan, failover>>,
           NEW c \in RecoveryCalls, NEW g \in RecCall,
           recCall' = [recCall EXCEPT ![c] = g], RecForm(g), RecKnows(g),
           \/ g.kind = None
           \/ g.kind = recCall[c].kind /\ g.on = recCall[c].on
           \/ recCall[c].kind = None /\ \A d \in RecoveryCalls \ {c} : ~Collide(g, recCall[d]),
           RecWritesFail \/ recCall[c].pc \notin {"plan", "insert", "point"},
           RecWritesFail \/ (g.pc # "point" /\ ~(g.kind \in {"start", "test"} /\ g.pc = "plan"))
    PROVE  RecInv'
<1>0. /\ recCall \in [RecoveryCalls -> RecCall] /\ RecForm(recCall[c])
      /\ recCall'[c] = g /\ \A d \in RecoveryCalls \ {c} : recCall'[d] = recCall[d]
  BY DEF RecInv, RecoveryTypeOK
<1>1. \A d \in RecoveryCalls : RecKnows(recCall'[d])
  BY <1>0, RecForms
<1>2. BackupsInv'
  <2>1. ASSUME ~RecWritesFail PROVE /\ \A d \in RecoveryCalls : recCall'[d].pc = "point" <=> recCall[d].pc = "point"
                                    /\ \A s \in Schedules, d \in RecoveryCalls :
                                          Counting(recCall[d], s)' <=> Counting(recCall[d], s)
    BY <1>0, <2>1 DEF Counting
  <2>2. CalmRecovery => \A s \in Schedules :
          /\ (\A d \in RecoveryCalls : ~Counting(recCall[d], s)') => schedule[s].total = Cardinality(Runs(s))
          /\ \A d \in RecoveryCalls : Counting(recCall[d], s)' => schedule[s].total + 1 = Cardinality(Runs(s))
    BY <2>1 DEF RecInv, BackupsInv, CalmRecovery
  <2>3. ~RecWritesFail =>
          /\ (\E d \in RecoveryCalls : recCall'[d].pc = "point") => \A e \in Executions : current[e] = 0
          /\ \A e \in Executions : current[e] > 0 => current[e] = 1 /\ latest = e
          /\ ~May("crash") /\ (\A d \in RecoveryCalls : recCall'[d].pc # "point") =>
                \A e \in Executions : latest = e => current[e] = 1
    BY <2>1 DEF RecInv, BackupsInv
  <2>4. /\ \A e \in Executions : /\ execution[e].status # None => execution[e].of \in Schedules
                                 /\ execution[e].status = None => execution[e].of = None /\ ~execution[e].over
        /\ \A s \in Schedules : schedule[s].ok = counted[s].ok /\ schedule[s].bad = counted[s].bad
    BY DEF RecInv, BackupsInv
  <2>5. UNCHANGED CalmRecovery /\ UNCHANGED RecWritesFail /\ (\A s \in Schedules : UNCHANGED Runs(s))
    BY DEF CalmRecovery, RecWritesFail, May, Runs
  <2> QED
    BY <1>1, <2>2, <2>3, <2>4, <2>5 DEF BackupsInv, RecKnows, May
<1>3. PlansInv'
  BY <1>0, <1>1 DEF RecInv, PlansInv, RecKnows, CalmRecovery, RecWritesFail, May
<1>4. TestsInv'
  <2>1. CalmRecovery => \A d \in RecoveryCalls :
           recCall'[d].kind = "test" /\ recCall'[d].pc = "plan" <=> recCall[d].kind = "test" /\ recCall[d].pc = "plan"
    BY <1>0 DEF CalmRecovery
  <2> QED
    BY <1>1, <2>1 DEF RecInv, TestsInv, RecKnows, CalmRecovery, RecWritesFail, May
<1>5. FailoversInv'
  BY <1>1 DEF RecInv, FailoversInv, RecKnows, FailoverIsTold
<1> QED
  BY <1>0, <1>2, <1>3, <1>4, <1>5, RecTypes, RecMoves

\* A request ends without a write where it owes none.
LEMMA RecEndsKeeps ==
    ASSUME RecInv, UNCHANGED <<allowed, schedule, execution, current, latest, counted, plan, activation, test, drPlan, failover>>,
           NEW c \in RecoveryCalls, RecEnds(c), RecWritesFail \/ recCall[c].pc \notin {"plan", "insert", "point"}
    PROVE  RecInv'
<1>1. RecKnows(IdleRecCall) /\ IdleRecCall.pc = "idle" /\ IdleRecCall.kind = None
  BY IdleRecForm, RecoveryAssumption DEF RecKnows
<1> QED
  BY <1>1, IdleRecForm, RecTurns DEF RecEnds

\* A request begins.
LEMMA BeginRecKeeps ==
    ASSUME RecInv, UNCHANGED allowed, NEW c \in RecoveryCalls,
           NEW kind \in {"start", "complete", "activate", "deactivate", "test", "failover"},
           NEW x \in Schedules \cup Executions \cup Activations \cup Tests \cup {None},
           NEW arg \in {"success", "elsewhere", "failure"} \cup DrTestResult \cup FailoverStatus \cup {None},
           NEW pc \in {"read", "write"}, BeginRec(c, kind, x, arg, pc),
           pc = IF kind \in {"deactivate", "test"} THEN "write" ELSE "read",
           kind = "start" => x \in Schedules,
           kind = "complete" => x \in Executions /\ execution[x].status # None /\ NoneOf({"complete"}),
           kind \in {"activate", "deactivate"} => x \in Activations /\ NoneOf({"activate", "deactivate"}),
           kind = "activate" => plan.count < MaxUpdates,
           kind = "test" => x \in Tests /\ arg \in DrTestResult /\ NoneOf({"test"}),
           kind = "failover" => x = None /\ arg \in FailoverStatus /\ failover.status # None /\ failover.sent < MaxUpdates
    PROVE  RecInv'
<1> DEFINE g1 == [IdleRecCall EXCEPT !.kind = kind]
           g2 == [g1 EXCEPT !.on = x]
           g3 == [g2 EXCEPT !.arg = arg]
           g == [IdleRecCall EXCEPT !.kind = kind, !.on = x, !.arg = arg, !.pc = pc]
<1>1. g = [pc |-> pc, kind |-> kind, on |-> x, arg |-> arg, row |-> None, count |-> 0]
  <2>1. g = [g3 EXCEPT !.pc = pc]
    OBVIOUS
  <2>2. g1 = [pc |-> "idle", kind |-> kind, on |-> None, arg |-> None, row |-> None, count |-> 0]
    BY DEF IdleRecCall
  <2> HIDE DEF g, g1
  <2>3. g2 = [pc |-> "idle", kind |-> kind, on |-> x, arg |-> None, row |-> None, count |-> 0]
    BY <2>2
  <2> HIDE DEF g2
  <2>4. g3 = [pc |-> "idle", kind |-> kind, on |-> x, arg |-> arg, row |-> None, count |-> 0]
    BY <2>3
  <2> HIDE DEF g3
  <2> QED
    BY <2>1, <2>4
<1>2. /\ recCall' = [recCall EXCEPT ![c] = g] /\ recCall[c].pc = "idle" /\ RecApart(kind, x)
      /\ UNCHANGED <<schedule, execution, current, latest, counted, plan, activation, test, drPlan, failover>>
  BY DEF BeginRec, backupVars, planVars, testVars
<1> HIDE DEF g, g1, g2, g3
<1>3. g \in RecCall /\ g.pc = pc /\ g.kind = kind /\ g.on = x /\ g.arg = arg
  BY <1>1 DEF RecCall, RecKinds
<1>4. RecForm(g)
  BY <1>3, RecoveryAssumption DEF RecForm
<1>5. RecKnows(g)
  BY <1>3 DEF RecKnows
<1>6. \A d \in RecoveryCalls \ {c} : ~Collide(g, recCall[d])
  BY <1>2, <1>3 DEF Collide, RecApart, NoneOf
<1>7. recCall[c].kind = None
  BY <1>2, RecForms DEF RecForm
<1> QED
  BY <1>2, <1>3, <1>4, <1>5, <1>6, <1>7, RecTurns

\* A request begins.
LEMMA RecoveryBegins ==
    ASSUME RecInv, UNCHANGED allowed, NEW c \in RecoveryCalls,
           \/ \E s \in Schedules : StartBackup(c, s)
           \/ \E e \in Executions, o \in {"success", "elsewhere", "failure"} : CompleteBackup(c, e, o)
           \/ \E a \in Activations : ActivateBcp(c, a) \/ DeactivateBcp(c, a)
           \/ \E t \in Tests, r \in DrTestResult : CompleteDrTest(c, t, r)
           \/ \E s \in FailoverStatus : UpdateFailoverStatus(c, s)
    PROVE  RecInv'
<1>1. ASSUME NEW s \in Schedules, StartBackup(c, s) PROVE RecInv'
  BY <1>1, BeginRecKeeps DEF StartBackup
<1>2. ASSUME NEW e \in Executions, NEW o \in {"success", "elsewhere", "failure"}, CompleteBackup(c, e, o) PROVE RecInv'
  <2>1. execution[e].status # None /\ NoneOf({"complete"}) /\ BeginRec(c, "complete", e, o, "read")
    BY <1>2 DEF CompleteBackup
  <2> QED
    BY <2>1, BeginRecKeeps
<1>3. ASSUME NEW a \in Activations, ActivateBcp(c, a) \/ DeactivateBcp(c, a) PROVE RecInv'
  BY <1>3, BeginRecKeeps DEF ActivateBcp, DeactivateBcp
<1>4. ASSUME NEW t \in Tests, NEW r \in DrTestResult, CompleteDrTest(c, t, r) PROVE RecInv'
  BY <1>4, BeginRecKeeps DEF CompleteDrTest
<1>5. ASSUME NEW s \in FailoverStatus, UpdateFailoverStatus(c, s) PROVE RecInv'
  BY <1>5, BeginRecKeeps DEF UpdateFailoverStatus
<1> QED
  BY <1>1, <1>2, <1>3, <1>4, <1>5

\* The reads keep the invariant, and those that fail.
LEMMA RecoveryReadsKeep ==
    ASSUME RecInv, UNCHANGED allowed, NEW c \in RecoveryCalls,
           ReadSchedule(c) \/ ReadExecution(c) \/ ReadPlan(c) \/ ReadFailover(c) \/ RecReadFails(c)
    PROVE  RecInv'
<1>0. /\ recCall[c] \in RecCall /\ RecForm(recCall[c]) /\ RecKnows(recCall[c])
      /\ UNCHANGED <<schedule, execution, current, latest, counted, plan, activation, test, drPlan, failover>>
  BY RecForms DEF ReadSchedule, ReadExecution, ReadPlan, ReadFailover, RecReadFails, backupVars, planVars, testVars
<1>1. CASE ReadSchedule(c)
  <2> DEFINE n == schedule[recCall[c].on].total
             g1 == [recCall[c] EXCEPT !.pc = "insert"]
             g == [g1 EXCEPT !.count = n]
  <2>1. recCall' = [recCall EXCEPT ![c] = g] /\ recCall[c].pc = "read" /\ recCall[c].kind = "start"
    BY <1>1 DEF ReadSchedule
  <2>2. n \in Nat
    BY <1>0, <2>1, RecTypes DEF RecForm, BackupSchedule
  <2>3. g1 \in RecCall /\ g1.pc = "insert" /\ g1.kind = recCall[c].kind /\ g1.on = recCall[c].on
    BY RecForms
  <2> HIDE DEF n, g1
  <2>4. g \in RecCall /\ g.pc = "insert" /\ g.kind = recCall[c].kind /\ g.on = recCall[c].on /\ g.count = n
    BY <2>2, <2>3 DEF RecCall
  <2> HIDE DEF g
  <2>5. RecForm(g) /\ RecKnows(g)
    BY <1>0, <2>1, <2>4, RecoveryAssumption DEF RecForm, RecKnows, n
  <2> QED
    BY <1>0, <2>1, <2>4, <2>5, RecTurns
<1>2. CASE ReadExecution(c)
  <2> DEFINE r == schedule[execution[recCall[c].on].of]
             g1 == [recCall[c] EXCEPT !.pc = "write"]
             g == [g1 EXCEPT !.row = r]
  <2>1. recCall' = [recCall EXCEPT ![c] = g] /\ recCall[c].pc = "read" /\ recCall[c].kind = "complete"
    BY <1>2 DEF ReadExecution
  <2>2. r \in BackupSchedule
    BY <1>0, <2>1, RecTypes DEF RecForm, RecKnows, RecInv, BackupsInv
  <2>3. g1 \in RecCall /\ g1.pc = "write" /\ g1.kind = recCall[c].kind /\ g1.on = recCall[c].on
    BY RecForms
  <2> HIDE DEF r, g1
  <2>4. g \in RecCall /\ g.pc = "write" /\ g.kind = recCall[c].kind /\ g.on = recCall[c].on /\ g.row = r
    BY <2>2, <2>3 DEF RecCall
  <2> HIDE DEF g
  <2>5. RecForm(g)
    BY <1>0, <2>1, <2>2, <2>4, RecoveryAssumption DEF RecForm
  <2>6. RecKnows(g)
    BY <1>0, <2>1, <2>4 DEF RecKnows, r
  <2> QED
    BY <1>0, <2>1, <2>4, <2>5, <2>6, RecTurns
<1>3. CASE ReadPlan(c)
  <2> DEFINE g1 == [recCall[c] EXCEPT !.pc = "plan"]
             g == [g1 EXCEPT !.count = plan.count]
  <2>1. /\ recCall[c].pc = "read" /\ recCall[c].kind = "activate"
        /\ recCall' = [recCall EXCEPT ![c] = g] \/ RecEnds(c)
    BY <1>3 DEF ReadPlan
  <2>2. CASE RecEnds(c)
    BY <1>0, <2>1, <2>2, RecEndsKeeps
  <2>3. CASE recCall' = [recCall EXCEPT ![c] = g]
    <3>1. g1 \in RecCall /\ g1.pc = "plan" /\ g1.kind = recCall[c].kind /\ g1.on = recCall[c].on
      BY RecForms
    <3>2. plan.count \in Nat
      BY RecTypes, RecoveryAssumption
    <3> HIDE DEF g1
    <3>3. g \in RecCall /\ g.pc = "plan" /\ g.kind = recCall[c].kind /\ g.on = recCall[c].on /\ g.count = plan.count
      BY <3>1, <3>2 DEF RecCall
    <3> HIDE DEF g
    <3>4. RecForm(g) /\ RecKnows(g)
      BY <1>0, <2>1, <3>3, RecoveryAssumption DEF RecForm, RecKnows
    <3> QED
      BY <1>0, <2>1, <2>3, <3>3, <3>4, RecTurns
  <2> QED
    BY <2>1, <2>2, <2>3
<1>4. CASE ReadFailover(c)
  <2> DEFINE g1 == [recCall[c] EXCEPT !.pc = "write"]
             g == [g1 EXCEPT !.row = failover]
  <2>1. recCall' = [recCall EXCEPT ![c] = g] /\ recCall[c].pc = "read" /\ recCall[c].kind = "failover"
    BY <1>4 DEF ReadFailover
  <2>2. g1 \in RecCall /\ g1.pc = "write" /\ g1.kind = recCall[c].kind /\ g1.on = recCall[c].on /\ g1.arg = recCall[c].arg
    BY RecForms
  <2>3. failover \in FailoverEvent
    BY RecTypes
  <2> HIDE DEF g1
  <2>4. /\ g \in RecCall /\ g.pc = "write" /\ g.kind = recCall[c].kind /\ g.on = recCall[c].on
        /\ g.arg = recCall[c].arg /\ g.row = failover
    BY <2>2, <2>3 DEF RecCall
  <2> HIDE DEF g
  <2>5. RecForm(g) /\ RecKnows(g)
    BY <1>0, <2>1, <2>3, <2>4, RecoveryAssumption DEF RecForm, RecKnows
  <2> QED
    BY <1>0, <2>1, <2>4, <2>5, RecTurns
<1>5. CASE RecReadFails(c)
  BY <1>0, <1>5, RecEndsKeeps DEF RecReadFails
<1> QED
  BY <1>1, <1>2, <1>3, <1>4, <1>5

\* A backup is started: its row is inserted, the run is counted after it.
LEMMA InsertExecutionKeeps ==
    ASSUME RecInv, UNCHANGED allowed, NEW c \in RecoveryCalls, InsertExecution(c)
    PROVE  RecInv'
<1>s. PICK s \in Schedules : s = recCall[c].on
  BY RecForms DEF InsertExecution, RecForm
<1> DEFINE e == CHOOSE x \in Fresh : TRUE
           g == [recCall[c] EXCEPT !.pc = "plan"]
           r1 == [execution[e] EXCEPT !.status = "running"]
           r == [execution[e] EXCEPT !.status = "running", !.of = s]
<1>0. /\ recCall[c].pc = "insert" /\ recCall[c].kind = "start" /\ e \in Fresh /\ s = recCall[c].on
      /\ UNCHANGED <<schedule, current, latest, counted, plan, activation, test, drPlan, failover>>
      /\ \/ execution' = [execution EXCEPT ![e] = r] /\ recCall' = [recCall EXCEPT ![c] = g]
         \/ RecWritesFail /\ RecEnds(c) /\ UNCHANGED execution
  BY <1>s DEF InsertExecution, RecAt, planVars, testVars
<1>1. CASE RecWritesFail /\ RecEnds(c) /\ UNCHANGED execution
  BY <1>0, <1>1, RecEndsKeeps
<1>2. CASE execution' = [execution EXCEPT ![e] = r] /\ recCall' = [recCall EXCEPT ![c] = g]
  <2>1. /\ g \in RecCall /\ g.pc = "plan" /\ g.kind = "start" /\ g.on = s /\ g.count = recCall[c].count
        /\ recCall \in [RecoveryCalls -> RecCall] /\ RecKnows(recCall[c])
    BY <1>0, RecForms
  <2>2. e \in Executions /\ execution[e].status = None /\ execution[e] \in BackupExecution
        /\ execution \in [Executions -> BackupExecution]
    BY <1>0, RecTypes DEF Fresh
  <2>3. execution[e].of = None /\ ~execution[e].over
    BY <2>2 DEF RecInv, BackupsInv
  <2>4. r = [r1 EXCEPT !.of = s]
    OBVIOUS
  <2>5. r1 \in BackupExecution /\ r1.status = "running" /\ r1.over = execution[e].over
    BY <2>2 DEF BackupExecution, BackupStatus
  <2> HIDE DEF r, r1, e, g
  <2>6. r \in BackupExecution /\ r.status = "running" /\ r.of = s /\ r.over = execution[e].over
    BY <1>0, <2>4, <2>5 DEF BackupExecution
  <2>7. /\ execution' \in [Executions -> BackupExecution] /\ execution'[e] = r
        /\ \A x \in Executions \ {e} : execution'[x] = execution[x]
    BY <1>2, <2>2, <2>6
  <2>8. recCall'[c] = g /\ \A d \in RecoveryCalls \ {c} : recCall'[d] = recCall[d]
    BY <1>2, <2>1
  <2>9. RecForm(g)
    BY <1>0, <2>1, RecoveryAssumption DEF RecForm
  <2>10. /\ \A z \in Schedules \ {s} : Runs(z)' = Runs(z)
         /\ Cardinality(Runs(s)') = Cardinality(Runs(s)) + 1
    <3>1. \A z \in Schedules \ {s} : Runs(z)' = Runs(z)
      BY <1>0, <2>2, <2>3, <2>6, <2>7, RecoveryAssumption DEF Runs
    <3>2. Runs(s)' = Runs(s) \cup {e} /\ e \notin Runs(s) /\ Runs(s) \subseteq Executions
      BY <1>0, <2>2, <2>3, <2>6, <2>7, RecoveryAssumption DEF Runs
    <3>3. IsFiniteSet(Runs(s))
      BY <3>2, FS_Subset, RecoveryAssumption
    <3> QED
      BY <3>1, <3>2, <3>3, FS_AddElement
  <2>11. \A d \in RecoveryCalls, z \in Schedules :
            Counting(recCall[d], z)' <=> (d = c /\ z = s) \/ Counting(recCall[d], z)
    BY <1>0, <2>1, <2>8 DEF Counting
  <2>12. \A d \in RecoveryCalls : ~Counting(recCall[d], s)
    BY <1>0, RecoveryAssumption DEF RecInv, Ordered, Collide, Counting
  <2>13. (CalmRecovery => \A z \in Schedules :
          /\ (\A d \in RecoveryCalls : ~Counting(recCall[d], z)) => schedule[z].total = Cardinality(Runs(z))
          /\ \A d \in RecoveryCalls : Counting(recCall[d], z) => schedule[z].total + 1 = Cardinality(Runs(z)))'
    <3> SUFFICES ASSUME CalmRecovery, NEW z \in Schedules
                 PROVE  /\ (\A d \in RecoveryCalls : ~Counting(recCall[d], z)') => schedule[z].total = Cardinality(Runs(z)')
                        /\ \A d \in RecoveryCalls : Counting(recCall[d], z)' => schedule[z].total + 1 = Cardinality(Runs(z)')
      BY <1>0 DEF CalmRecovery, RecWritesFail, May
    <3>1. CASE z = s
      BY <2>10, <2>11, <2>12, <3>1, RecTypes DEF RecInv, BackupsInv, BackupSchedule
    <3>2. CASE z # s
      BY <2>10, <2>11, <3>2 DEF RecInv, BackupsInv
    <3> QED
      BY <3>1, <3>2
  <2>14. \A d \in RecoveryCalls : recCall'[d].pc = "point" <=> recCall[d].pc = "point"
    BY <1>0, <2>1, <2>8
  <2>15. (~RecWritesFail =>
          /\ (\E d \in RecoveryCalls : recCall[d].pc = "point") => \A x \in Executions : current[x] = 0
          /\ \A x \in Executions : current[x] > 0 => current[x] = 1 /\ latest = x
          /\ ~May("crash") /\ (\A d \in RecoveryCalls : recCall[d].pc # "point") =>
                \A x \in Executions : latest = x => current[x] = 1)'
    BY <1>0, <2>14 DEF RecInv, BackupsInv, RecWritesFail, May
  <2>16. (\A d \in RecoveryCalls :
          /\ recCall[d].kind = "start" /\ recCall[d].pc \in {"insert", "plan"} =>
                recCall[d].count = schedule[recCall[d].on].total
          /\ recCall[d].kind = "complete" =>
                /\ execution[recCall[d].on].status # None
                /\ recCall[d].pc # "read" =>
                      /\ recCall[d].row.ok = schedule[execution[recCall[d].on].of].ok
                      /\ recCall[d].row.bad = schedule[execution[recCall[d].on].of].bad)'
    <3> SUFFICES ASSUME NEW d \in RecoveryCalls
                 PROVE  /\ recCall'[d].kind = "start" /\ recCall'[d].pc \in {"insert", "plan"} =>
                              recCall'[d].count = schedule[recCall'[d].on].total
                        /\ recCall'[d].kind = "complete" =>
                              /\ execution'[recCall'[d].on].status # None
                              /\ recCall'[d].pc # "read" =>
                                    /\ recCall'[d].row.ok = schedule[execution'[recCall'[d].on].of].ok
                                    /\ recCall'[d].row.bad = schedule[execution'[recCall'[d].on].of].bad
      BY <1>0
    <3>1. CASE d = c
      BY <1>0, <2>1, <2>8, <3>1 DEF RecKnows
    <3>2. CASE d # c
      <4>1. recCall'[d] = recCall[d] /\ RecKnows(recCall[d]) /\ RecForm(recCall[d])
        BY <2>8, <3>2, RecForms
      <4>2. recCall[d].kind = "complete" => execution'[recCall[d].on] = execution[recCall[d].on]
        BY <2>2, <2>7, <4>1 DEF RecForm, RecKnows
      <4> QED
        BY <4>1, <4>2 DEF RecKnows
    <3> QED
      BY <3>1, <3>2
  <2>17. BackupsInv'
    <3>1. /\ \A x \in Executions : /\ execution'[x].status # None => execution'[x].of \in Schedules
                                   /\ execution'[x].status = None => execution'[x].of = None /\ ~execution'[x].over
          /\ \A z \in Schedules : schedule[z].ok = counted[z].ok /\ schedule[z].bad = counted[z].bad
      BY <1>0, <2>3, <2>6, <2>7, RecoveryAssumption DEF RecInv, BackupsInv
    <3> QED
      BY <1>0, <2>13, <2>15, <2>16, <3>1 DEF BackupsInv
  <2> QED
    BY <1>0, <1>2, <2>1, <2>7, <2>9, <2>17, RecTypes, RecMoves
<1> QED
  BY <1>0, <1>1, <1>2

\* Counting a run that started keeps it.
LEMMA CountRunKeeps ==
    ASSUME RecInv, UNCHANGED allowed, NEW c \in RecoveryCalls, CountRun(c)
    PROVE  RecInv'
<1>s. PICK s \in Schedules : s = recCall[c].on
  BY RecForms DEF CountRun, RecForm
<1> DEFINE n == recCall[c].count + 1
           r == [schedule[s] EXCEPT !.total = n]
<1>0. /\ recCall[c].pc = "plan" /\ recCall[c].kind = "start" /\ s = recCall[c].on /\ RecEnds(c)
      /\ UNCHANGED <<execution, current, latest, counted, plan, activation, test, drPlan, failover>>
      /\ \/ schedule' = [schedule EXCEPT ![s] = r]
         \/ RecWritesFail /\ UNCHANGED schedule
  BY <1>s DEF CountRun, planVars, testVars
<1>1. CASE RecWritesFail /\ UNCHANGED schedule
  BY <1>0, <1>1, RecEndsKeeps
<1>2. CASE schedule' = [schedule EXCEPT ![s] = r]
  <2>1. /\ recCall \in [RecoveryCalls -> RecCall] /\ schedule \in [Schedules -> BackupSchedule]
        /\ recCall[c].count = schedule[s].total
    BY <1>0, RecForms, RecTypes DEF RecKnows
  <2>2. r \in BackupSchedule /\ r.total = schedule[s].total + 1 /\ r.ok = schedule[s].ok /\ r.bad = schedule[s].bad
    BY <1>0, <2>1 DEF BackupSchedule
  <2> HIDE DEF r, n
  <2>3. /\ schedule' \in [Schedules -> BackupSchedule] /\ schedule'[s] = r
        /\ \A z \in Schedules \ {s} : schedule'[z] = schedule[z]
    BY <1>0, <1>2, <2>1, <2>2
  <2>4. /\ recCall'[c] = IdleRecCall /\ \A d \in RecoveryCalls \ {c} : recCall'[d] = recCall[d]
        /\ recCall' = [recCall EXCEPT ![c] = IdleRecCall]
    BY <1>0, <2>1 DEF RecEnds
  <2>5. \A d \in RecoveryCalls, z \in Schedules : Counting(recCall[d], z)' <=> (d # c /\ Counting(recCall[d], z))
    BY <2>4, IdleRecForm, RecoveryAssumption DEF Counting
  <2>6. Counting(recCall[c], s) /\ \A d \in RecoveryCalls \ {c} : ~Counting(recCall[d], s)
    BY <1>0, RecoveryAssumption DEF RecInv, Ordered, Collide, Counting
  <2>7. (CalmRecovery => \A z \in Schedules :
          /\ (\A d \in RecoveryCalls : ~Counting(recCall[d], z)) => schedule[z].total = Cardinality(Runs(z))
          /\ \A d \in RecoveryCalls : Counting(recCall[d], z) => schedule[z].total + 1 = Cardinality(Runs(z)))'
    <3> SUFFICES ASSUME CalmRecovery, NEW z \in Schedules
                 PROVE  /\ (\A d \in RecoveryCalls : ~Counting(recCall[d], z)') => schedule'[z].total = Cardinality(Runs(z))
                        /\ \A d \in RecoveryCalls : Counting(recCall[d], z)' => schedule'[z].total + 1 = Cardinality(Runs(z))
      BY <1>0 DEF CalmRecovery, RecWritesFail, May, Runs
    <3>1. CASE z = s
      BY <2>2, <2>3, <2>5, <2>6, <3>1 DEF RecInv, BackupsInv
    <3>2. CASE z # s
      BY <1>0, <2>3, <2>5, <3>2 DEF RecInv, BackupsInv, Counting
    <3> QED
      BY <3>1, <3>2
  <2>8. \A d \in RecoveryCalls : recCall'[d].pc = "point" <=> recCall[d].pc = "point"
    BY <1>0, <2>4, IdleRecForm
  <2>9. (~RecWritesFail =>
          /\ (\E d \in RecoveryCalls : recCall[d].pc = "point") => \A x \in Executions : current[x] = 0
          /\ \A x \in Executions : current[x] > 0 => current[x] = 1 /\ latest = x
          /\ ~May("crash") /\ (\A d \in RecoveryCalls : recCall[d].pc # "point") =>
                \A x \in Executions : latest = x => current[x] = 1)'
    BY <1>0, <2>8 DEF RecInv, BackupsInv, RecWritesFail, May
  <2>10. (\A d \in RecoveryCalls :
          /\ recCall[d].kind = "start" /\ recCall[d].pc \in {"insert", "plan"} =>
                recCall[d].count = schedule[recCall[d].on].total
          /\ recCall[d].kind = "complete" =>
                /\ execution[recCall[d].on].status # None
                /\ recCall[d].pc # "read" =>
                      /\ recCall[d].row.ok = schedule[execution[recCall[d].on].of].ok
                      /\ recCall[d].row.bad = schedule[execution[recCall[d].on].of].bad)'
    <3> SUFFICES ASSUME NEW d \in RecoveryCalls
                 PROVE  /\ recCall'[d].kind = "start" /\ recCall'[d].pc \in {"insert", "plan"} =>
                              recCall'[d].count = schedule'[recCall'[d].on].total
                        /\ recCall'[d].kind = "complete" =>
                              /\ execution[recCall'[d].on].status # None
                              /\ recCall'[d].pc # "read" =>
                                    /\ recCall'[d].row.ok = schedule'[execution[recCall'[d].on].of].ok
                                    /\ recCall'[d].row.bad = schedule'[execution[recCall'[d].on].of].bad
      BY <1>0
    <3>1. CASE d = c
      BY <2>4, <3>1, IdleRecForm, RecoveryAssumption
    <3>2. CASE d # c
      <4>1. recCall'[d] = recCall[d] /\ RecKnows(recCall[d]) /\ RecForm(recCall[d])
        BY <2>4, <3>2, RecForms
      <4>2. recCall[d].kind = "start" => recCall[d].on \in Schedules \ {s}
        BY <1>0, <3>2, <4>1 DEF RecInv, Ordered, Collide, RecForm
      <4>3. recCall[d].kind = "complete" => execution[recCall[d].on].of \in Schedules
        BY <4>1 DEF RecInv, BackupsInv, RecForm, RecKnows
      <4>4. \A z \in Schedules : schedule'[z].ok = schedule[z].ok /\ schedule'[z].bad = schedule[z].bad
        BY <2>2, <2>3
      <4> QED
        BY <2>3, <4>1, <4>2, <4>3, <4>4 DEF RecKnows
    <3> QED
      BY <3>1, <3>2
  <2>11. BackupsInv'
    <3>1. /\ \A x \in Executions : /\ execution[x].status # None => execution[x].of \in Schedules
                                   /\ execution[x].status = None => execution[x].of = None /\ ~execution[x].over
          /\ \A z \in Schedules : schedule'[z].ok = counted[z].ok /\ schedule'[z].bad = counted[z].bad
      BY <2>2, <2>3 DEF RecInv, BackupsInv
    <3> QED
      BY <1>0, <2>7, <2>9, <2>10, <3>1 DEF BackupsInv
  <2>12. BackupsInv' /\ schedule' \in [Schedules -> BackupSchedule] /\ IdleRecCall \in RecCall /\ RecForm(IdleRecCall)
         /\ IdleRecCall.kind = None
    BY <2>3, <2>11, IdleRecForm
  <2>13. /\ {recCall[c].kind, IdleRecCall.kind} \cap {"activate", "deactivate"} = {}
         /\ "test" \notin {recCall[c].kind, IdleRecCall.kind} /\ "failover" \notin {recCall[c].kind, IdleRecCall.kind}
    BY <1>0, <2>12, RecoveryAssumption
  <2> QED
    BY <1>0, <2>4, <2>12, <2>13, RecTypes, RecMoves
<1> QED
  BY <1>0, <1>1, <1>2

\* Where the rows that backups are known by stay, so does what the runs count; what is left to
\* show is about the points.
LEMMA CompletionMoves ==
    ASSUME RecInv, NEW c \in RecoveryCalls, NEW g \in RecCall,
           UNCHANGED <<allowed, plan, activation, test, drPlan, failover>>,
           recCall' = [recCall EXCEPT ![c] = g], recCall[c].kind = "complete",
           \/ g = IdleRecCall
           \/ /\ recCall[c].pc # "read" /\ g.pc \in {"clear", "point", "plan"} /\ g.kind = "complete"
              /\ g.on = recCall[c].on /\ g.row = recCall[c].row,
           execution' \in [Executions -> BackupExecution], current' \in [Executions -> 0..2],
           latest' \in Executions \cup {None}, schedule' \in [Schedules -> BackupSchedule],
           counted' \in [Schedules -> [ok : Nat, bad : Nat]],
           \A x \in Executions : /\ execution'[x].of = execution[x].of
                                 /\ execution'[x].status = None <=> execution[x].status = None
                                 /\ execution[x].status = None => execution'[x] = execution[x],
           \A z \in Schedules : /\ schedule'[z].total = schedule[z].total
                                /\ schedule'[z].ok = counted'[z].ok /\ schedule'[z].bad = counted'[z].bad,
           UNCHANGED schedule \/ g = IdleRecCall,
           (~RecWritesFail =>
              /\ (\E d \in RecoveryCalls : recCall[d].pc = "point") => \A e \in Executions : current[e] = 0
              /\ \A e \in Executions : current[e] > 0 => current[e] = 1 /\ latest = e
              /\ ~May("crash") /\ (\A d \in RecoveryCalls : recCall[d].pc # "point") =>
                    \A e \in Executions : latest = e => current[e] = 1)'
    PROVE  RecInv'
<1>0. /\ recCall \in [RecoveryCalls -> RecCall] /\ RecForm(recCall[c])
      /\ recCall'[c] = g /\ \A d \in RecoveryCalls \ {c} : recCall'[d] = recCall[d]
  BY RecForms
<1>1. g.kind \in {None, "complete"} /\ RecForm(g)
  BY <1>0, IdleRecForm, RecoveryAssumption DEF RecForm
<1>2. \A d \in RecoveryCalls \ {c} : recCall[d].kind # "complete"
  BY RecoveryAssumption DEF RecInv, Ordered, Collide
<1>3. \A d \in RecoveryCalls, z \in Schedules : Counting(recCall[d], z)' <=> Counting(recCall[d], z)
  BY <1>0, <1>1, RecoveryAssumption DEF Counting
<1>4. (\A z \in Schedules : UNCHANGED Runs(z)) /\ UNCHANGED CalmRecovery
  BY DEF Runs, CalmRecovery, RecWritesFail, May
<1>5. (CalmRecovery => \A z \in Schedules :
          /\ (\A d \in RecoveryCalls : ~Counting(recCall[d], z)) => schedule[z].total = Cardinality(Runs(z))
          /\ \A d \in RecoveryCalls : Counting(recCall[d], z) => schedule[z].total + 1 = Cardinality(Runs(z)))'
  BY <1>3, <1>4 DEF RecInv, BackupsInv
<1>6. /\ \A x \in Executions : /\ execution'[x].status # None => execution'[x].of \in Schedules
                               /\ execution'[x].status = None => execution'[x].of = None /\ ~execution'[x].over
      /\ \A z \in Schedules : schedule'[z].ok = counted'[z].ok /\ schedule'[z].bad = counted'[z].bad
  BY Zenon DEF RecInv, BackupsInv
<1>7. ASSUME NEW d \in RecoveryCalls
      PROVE  /\ recCall'[d].kind = "start" /\ recCall'[d].pc \in {"insert", "plan"} =>
                   recCall'[d].count = schedule'[recCall'[d].on].total
             /\ recCall'[d].kind = "complete" =>
                   /\ execution'[recCall'[d].on].status # None
                   /\ recCall'[d].pc # "read" =>
                         /\ recCall'[d].row.ok = schedule'[execution'[recCall'[d].on].of].ok
                         /\ recCall'[d].row.bad = schedule'[execution'[recCall'[d].on].of].bad
  <2>1. CASE d # c
    <3>1. recCall'[d] = recCall[d] /\ RecKnows(recCall[d]) /\ RecForm(recCall[d])
      BY <1>0, <2>1, RecForms
    <3> QED
      BY <1>2, <2>1, <3>1 DEF RecForm, RecKnows
  <2>2. CASE d = c /\ g = IdleRecCall
    BY <1>0, <2>2, IdleRecForm, RecoveryAssumption
  <2>3. CASE d = c /\ g # IdleRecCall
    <3>1. RecKnows(recCall[c]) /\ recCall[c].on \in Executions
      BY <1>0, RecForms DEF RecForm
    <3> QED
      BY <1>0, <2>3, <3>1 DEF RecKnows
  <2> QED
    BY <2>1, <2>2, <2>3
<1>8. BackupsInv'
  BY <1>5, <1>6, <1>7, Zenon DEF BackupsInv
<1>9. /\ {recCall[c].kind, g.kind} \cap {"activate", "deactivate"} = {}
      /\ "test" \notin {recCall[c].kind, g.kind} /\ "failover" \notin {recCall[c].kind, g.kind}
      /\ g.kind = None \/ (g.kind = recCall[c].kind /\ g.on = recCall[c].on)
  BY <1>1, IdleRecForm, RecoveryAssumption
<1> QED
  BY <1>1, <1>8, <1>9, RecTypes, RecMoves

\* Writing that a backup is over keeps it.
LEMMA UpdateExecutionKeeps ==
    ASSUME RecInv, UNCHANGED allowed, NEW c \in RecoveryCalls, UpdateExecution(c)
    PROVE  RecInv'
<1>e. PICK e \in Executions : e = recCall[c].on
  BY RecForms DEF UpdateExecution, RecForm
<1> DEFINE ok == recCall[c].arg # "failure"
           st == IF ok THEN "completed" ELSE "failed"
           pc == IF recCall[c].arg = "success" THEN "clear" ELSE "plan"
           g == [recCall[c] EXCEPT !.pc = pc]
           r1 == [execution[e] EXCEPT !.times = @ + 1]
           r == [execution[e] EXCEPT !.times = @ + 1, !.status = st]
<1>0. /\ recCall[c].pc = "write" /\ recCall[c].kind = "complete" /\ e = recCall[c].on
      /\ UNCHANGED <<schedule, current, latest, counted, plan, activation, test, drPlan, failover>>
      /\ \/ execution' = [execution EXCEPT ![e] = r] /\ recCall' = [recCall EXCEPT ![c] = g]
         \/ RecWritesFail /\ RecEnds(c) /\ UNCHANGED execution
  BY <1>e DEF UpdateExecution, RecAt, planVars, testVars
<1>1. CASE RecWritesFail /\ RecEnds(c) /\ UNCHANGED execution
  BY <1>0, <1>1, RecEndsKeeps
<1>2. CASE execution' = [execution EXCEPT ![e] = r] /\ recCall' = [recCall EXCEPT ![c] = g]
  <2>1. pc \in {"clear", "plan"} /\ st \in {"completed", "failed"}
    OBVIOUS
  <2>2. execution[e] \in BackupExecution /\ execution \in [Executions -> BackupExecution]
    BY RecTypes
  <2>3. r = [r1 EXCEPT !.status = st]
    OBVIOUS
  <2>4. /\ g \in RecCall /\ g.pc = pc /\ g.kind = "complete" /\ g.on = recCall[c].on /\ g.row = recCall[c].row
        /\ recCall \in [RecoveryCalls -> RecCall] /\ RecKnows(recCall[c])
    <3>1. recCall \in [RecoveryCalls -> RecCall] /\ RecKnows(recCall[c])
      BY RecForms
    <3>2. pc \in {"insert", "write", "clear", "point", "plan"}
      BY <2>1
    <3> HIDE DEF pc, st, r, r1
    <3> QED
      BY <1>0, <3>1, <3>2, RecForms
  <2>5. r1 \in BackupExecution /\ r1.of = execution[e].of
    BY <2>2 DEF BackupExecution
  <2> HIDE DEF r, r1, st, pc, g
  <2>6. r \in BackupExecution /\ r.of = execution[e].of /\ r.status = st
    BY <2>1, <2>3, <2>5 DEF BackupExecution, BackupStatus
  <2>7. /\ execution' \in [Executions -> BackupExecution] /\ execution'[e] = r
        /\ \A x \in Executions \ {e} : execution'[x] = execution[x]
    BY <1>2, <2>2, <2>6
  <2>8. \A x \in Executions : /\ execution'[x].of = execution[x].of
                              /\ execution'[x].status = None <=> execution[x].status = None
                              /\ execution[x].status = None => execution'[x] = execution[x]
    BY <1>0, <2>1, <2>4, <2>6, <2>7, RecoveryAssumption DEF RecKnows
  <2>9. recCall'[c] = g /\ \A d \in RecoveryCalls \ {c} : recCall'[d] = recCall[d]
    BY <1>2, <2>4
  <2>10. \A d \in RecoveryCalls : recCall'[d].pc = "point" <=> recCall[d].pc = "point"
    BY <1>0, <2>1, <2>4, <2>9
  <2>11. (~RecWritesFail =>
              /\ (\E d \in RecoveryCalls : recCall[d].pc = "point") => \A x \in Executions : current[x] = 0
              /\ \A x \in Executions : current[x] > 0 => current[x] = 1 /\ latest = x
              /\ ~May("crash") /\ (\A d \in RecoveryCalls : recCall[d].pc # "point") =>
                    \A x \in Executions : latest = x => current[x] = 1)'
    BY <1>0, <2>10 DEF RecInv, BackupsInv, RecWritesFail, May
  <2>12. \A z \in Schedules : /\ schedule'[z].total = schedule[z].total
                              /\ schedule'[z].ok = counted'[z].ok /\ schedule'[z].bad = counted'[z].bad
    BY <1>0 DEF RecInv, BackupsInv
  <2> QED
    BY <1>0, <1>2, <2>1, <2>4, <2>7, <2>8, <2>11, <2>12, RecTypes, CompletionMoves
<1> QED
  BY <1>0, <1>1, <1>2

\* Taking the mark from the points before keeps it.
LEMMA ClearCurrentKeeps ==
    ASSUME RecInv, UNCHANGED allowed, NEW c \in RecoveryCalls, ClearCurrent(c)
    PROVE  RecInv'
<1> DEFINE g == [recCall[c] EXCEPT !.pc = "point"]
<1>0. /\ recCall[c].pc = "clear" /\ recCall' = [recCall EXCEPT ![c] = g]
      /\ UNCHANGED <<schedule, execution, latest, counted, plan, activation, test, drPlan, failover>>
      /\ current' = [e \in Executions |-> 0] \/ (RecWritesFail /\ UNCHANGED current)
  BY DEF ClearCurrent, Cleared, RecAt, planVars, testVars
<1>1. /\ g \in RecCall /\ g.pc = "point" /\ g.kind = recCall[c].kind /\ g.on = recCall[c].on /\ g.row = recCall[c].row
      /\ recCall \in [RecoveryCalls -> RecCall] /\ RecForm(recCall[c])
  BY RecForms
<1>2. recCall[c].kind = "complete"
  BY <1>0, <1>1 DEF RecForm
<1> HIDE DEF g
<1>3. recCall'[c] = g
  BY <1>0, <1>1
<1>4. (~RecWritesFail =>
          /\ (\E d \in RecoveryCalls : recCall[d].pc = "point") => \A x \in Executions : current[x] = 0
          /\ \A x \in Executions : current[x] > 0 => current[x] = 1 /\ latest = x
          /\ ~May("crash") /\ (\A d \in RecoveryCalls : recCall[d].pc # "point") =>
                \A x \in Executions : latest = x => current[x] = 1)'
  BY <1>0, <1>1, <1>3 DEF RecWritesFail, May
<1>5. current' \in [Executions -> 0..2]
  BY <1>0, RecTypes
<1>6. \A z \in Schedules : /\ schedule'[z].total = schedule[z].total
                           /\ schedule'[z].ok = counted'[z].ok /\ schedule'[z].bad = counted'[z].bad
  BY <1>0 DEF RecInv, BackupsInv
<1> QED
  BY <1>0, <1>1, <1>2, <1>4, <1>5, <1>6, RecTypes, CompletionMoves

\* Inserting the new point keeps it: it is then the only current one.
LEMMA InsertPointKeeps ==
    ASSUME RecInv, UNCHANGED allowed, NEW c \in RecoveryCalls, InsertPoint(c)
    PROVE  RecInv'
<1>e. PICK e \in Executions : e = recCall[c].on
  BY RecForms DEF InsertPoint, RecForm
<1> DEFINE g == [recCall[c] EXCEPT !.pc = "plan"]
           n == IF current[e] < 2 THEN current[e] + 1 ELSE 2
<1>0. /\ recCall[c].pc = "point" /\ recCall' = [recCall EXCEPT ![c] = g] /\ e = recCall[c].on
      /\ UNCHANGED <<schedule, execution, counted, plan, activation, test, drPlan, failover>>
      /\ \/ current' = [current EXCEPT ![e] = n] /\ latest' = e
         \/ RecWritesFail /\ UNCHANGED <<current, latest>>
  BY <1>e DEF InsertPoint, RecAt, planVars, testVars
<1>1. /\ g \in RecCall /\ g.pc = "plan" /\ g.kind = recCall[c].kind /\ g.on = recCall[c].on /\ g.row = recCall[c].row
      /\ recCall \in [RecoveryCalls -> RecCall] /\ RecForm(recCall[c])
  BY RecForms
<1>2. recCall[c].kind = "complete"
  BY <1>0, <1>1 DEF RecForm
<1> HIDE DEF g
<1>3. recCall'[c] = g /\ \A d \in RecoveryCalls \ {c} : recCall'[d] = recCall[d]
  BY <1>0, <1>1
<1>4. \A d \in RecoveryCalls : recCall'[d].pc # "point"
  <2>1. \A d \in RecoveryCalls \ {c} : recCall[d].kind # "complete" /\ RecForm(recCall[d])
    BY <1>2, RecForms, RecoveryAssumption DEF RecInv, Ordered, Collide
  <2>2. \A d \in RecoveryCalls \ {c} : recCall[d].pc # "point"
    BY <2>1 DEF RecForm
  <2> QED
    BY <1>1, <1>3, <2>2
<1>5. current \in [Executions -> 0..2] /\ current[e] \in 0..2
  BY RecTypes
<1>6. n \in 0..2 /\ (current[e] = 0 => n = 1)
  BY <1>5
<1> HIDE DEF n
<1>7. (~RecWritesFail =>
          /\ (\E d \in RecoveryCalls : recCall[d].pc = "point") => \A x \in Executions : current[x] = 0
          /\ \A x \in Executions : current[x] > 0 => current[x] = 1 /\ latest = x
          /\ ~May("crash") /\ (\A d \in RecoveryCalls : recCall[d].pc # "point") =>
                \A x \in Executions : latest = x => current[x] = 1)'
  <2> SUFFICES ASSUME ~RecWritesFail
               PROVE  /\ \A x \in Executions : current'[x] > 0 => current'[x] = 1 /\ latest' = x
                      /\ \A x \in Executions : latest' = x => current'[x] = 1
    BY <1>4 DEF RecWritesFail, May
  <2>1. current' = [current EXCEPT ![e] = n] /\ latest' = e
    BY <1>0
  <2>2. \A x \in Executions : current[x] = 0
    BY <1>0 DEF RecInv, BackupsInv
  <2> QED
    BY <1>5, <1>6, <2>1, <2>2
<1>8. current' \in [Executions -> 0..2] /\ latest' \in Executions \cup {None}
  BY <1>0, <1>5, <1>6, RecTypes
<1>9. \A z \in Schedules : /\ schedule'[z].total = schedule[z].total
                           /\ schedule'[z].ok = counted'[z].ok /\ schedule'[z].bad = counted'[z].bad
  BY <1>0 DEF RecInv, BackupsInv
<1> QED
  BY <1>0, <1>1, <1>2, <1>7, <1>8, <1>9, RecTypes, CompletionMoves

\* Writing the counters that were read, with this run, keeps it.
LEMMA UpdateStatisticsKeeps ==
    ASSUME RecInv, UNCHANGED allowed, NEW c \in RecoveryCalls, UpdateStatistics(c)
    PROVE  RecInv'
<1>0. /\ recCall[c].pc = "plan" /\ recCall[c].kind = "complete" /\ RecEnds(c)
      /\ UNCHANGED <<execution, current, latest, plan, activation, test, drPlan, failover>>
      /\ RecForm(recCall[c]) /\ RecKnows(recCall[c])
  BY RecForms DEF UpdateStatistics, planVars, testVars
<1>s. PICK s \in Schedules : s = execution[recCall[c].on].of
  BY <1>0, Zenon DEF RecForm, RecKnows, RecInv, BackupsInv
<1> DEFINE ok == recCall[c].arg # "failure"
           row == recCall[c].row
           r == Completed(schedule[s], row, ok)
           n == [ok |-> IF ok THEN counted[s].ok + 1 ELSE counted[s].ok, bad |-> IF ok THEN counted[s].bad ELSE counted[s].bad + 1]
<1>1. \/ schedule' = [schedule EXCEPT ![s] = r] /\ counted' = [counted EXCEPT ![s] = n]
      \/ RecWritesFail /\ UNCHANGED <<schedule, counted>>
  BY <1>s, Zenon DEF UpdateStatistics
<1>2. CASE RecWritesFail /\ UNCHANGED <<schedule, counted>>
  BY <1>0, <1>2, RecEndsKeeps
<1>3. CASE schedule' = [schedule EXCEPT ![s] = r] /\ counted' = [counted EXCEPT ![s] = n]
  <2>1. /\ schedule[s] \in BackupSchedule /\ counted[s] \in [ok : Nat, bad : Nat]
        /\ schedule \in [Schedules -> BackupSchedule] /\ counted \in [Schedules -> [ok : Nat, bad : Nat]]
    BY RecTypes
  <2>2. row.ok = schedule[s].ok /\ row.bad = schedule[s].bad
    BY <1>0, <1>s DEF RecKnows
  <2>3. schedule[s].ok = counted[s].ok /\ schedule[s].bad = counted[s].bad
    BY DEF RecInv, BackupsInv
  <2> HIDE DEF row
  <2>4. r \in BackupSchedule /\ n \in [ok : Nat, bad : Nat] /\ r.total = schedule[s].total /\ r.ok = n.ok /\ r.bad = n.bad
    <3>1. CASE ok
      <4>1. r = [schedule[s] EXCEPT !.ok = row.ok + 1] /\ n = [ok |-> counted[s].ok + 1, bad |-> counted[s].bad]
        BY <3>1 DEF Completed
      <4> HIDE DEF r, n
      <4> QED
        BY <2>1, <2>2, <2>3, <4>1 DEF BackupSchedule
    <3>2. CASE ~ok
      <4>1. r = [schedule[s] EXCEPT !.bad = row.bad + 1] /\ n = [ok |-> counted[s].ok, bad |-> counted[s].bad + 1]
        BY <3>2 DEF Completed
      <4> HIDE DEF r, n
      <4> QED
        BY <2>1, <2>2, <2>3, <4>1 DEF BackupSchedule
    <3> QED
      BY <3>1, <3>2
  <2> HIDE DEF r, n
  <2>5. /\ schedule' \in [Schedules -> BackupSchedule] /\ counted' \in [Schedules -> [ok : Nat, bad : Nat]]
        /\ schedule'[s] = r /\ counted'[s] = n
        /\ \A z \in Schedules \ {s} : schedule'[z] = schedule[z] /\ counted'[z] = counted[z]
    BY <1>3, <2>1, <2>4
  <2>6. \A z \in Schedules : /\ schedule'[z].total = schedule[z].total
                             /\ schedule'[z].ok = counted'[z].ok /\ schedule'[z].bad = counted'[z].bad
    BY <2>4, <2>5 DEF RecInv, BackupsInv
  <2>7. /\ recCall' = [recCall EXCEPT ![c] = IdleRecCall] /\ recCall'[c] = IdleRecCall
        /\ \A d \in RecoveryCalls \ {c} : recCall'[d] = recCall[d]
    BY <1>0, RecForms DEF RecEnds
  <2>8. \A d \in RecoveryCalls : recCall'[d].pc = "point" <=> recCall[d].pc = "point"
    BY <1>0, <2>7, IdleRecForm
  <2>9. (~RecWritesFail =>
          /\ (\E d \in RecoveryCalls : recCall[d].pc = "point") => \A x \in Executions : current[x] = 0
          /\ \A x \in Executions : current[x] > 0 => current[x] = 1 /\ latest = x
          /\ ~May("crash") /\ (\A d \in RecoveryCalls : recCall[d].pc # "point") =>
                \A x \in Executions : latest = x => current[x] = 1)'
    BY <1>0, <2>8 DEF RecInv, BackupsInv, RecWritesFail, May
  <2> QED
    BY <1>0, <2>5, <2>6, <2>7, <2>9, IdleRecForm, RecTypes, CompletionMoves
<1> QED
  BY <1>1, <1>2, <1>3, Zenon

\* Activating and deactivating a plan keeps it.
LEMMA PlanRequestsKeep ==
    ASSUME RecInv, UNCHANGED allowed, NEW c \in RecoveryCalls,
           ActivatePlan(c) \/ InsertActivation(c) \/ CloseActivation(c) \/ DeactivatePlan(c)
    PROVE  RecInv'
<1>0. /\ recCall[c] \in RecCall /\ RecForm(recCall[c]) /\ RecKnows(recCall[c]) /\ recCall \in [RecoveryCalls -> RecCall]
      /\ UNCHANGED <<schedule, execution, current, latest, counted, test, drPlan, failover>>
      /\ recCall[c].kind \in {"activate", "deactivate"}
  BY RecForms DEF ActivatePlan, InsertActivation, CloseActivation, DeactivatePlan, backupVars, testVars
<1>1. \A d \in RecoveryCalls \ {c} : recCall[d].kind \notin {"activate", "deactivate"}
  BY <1>0 DEF RecInv, Ordered, Collide
<1>2. ASSUME NEW g \in RecCall, recCall' = [recCall EXCEPT ![c] = g], RecForm(g),
             g.kind = None \/ (g.kind = recCall[c].kind /\ g.on = recCall[c].on),
             plan' \in [status : DrPlanStatus, count : 0..MaxUpdates], activation' \in [Activations -> BcpActivation],
             g.kind = "activate" => g.pc = "insert",
             CalmRecovery /\ plan'.status = "active" =>
                \/ \E a \in Activations : activation'[a] = "open"
                \/ g.kind = "activate" /\ g.pc = "insert"
                \/ g.kind = "deactivate" /\ g.pc = "plan"
      PROVE  RecInv'
  <2>1. recCall'[c] = g /\ \A d \in RecoveryCalls \ {c} : recCall'[d] = recCall[d]
    BY <1>0, <1>2
  <2>2. PlansInv'
    <3>1. CalmRecovery' <=> CalmRecovery
      BY DEF CalmRecovery, RecWritesFail, May
    <3> QED
      BY <1>1, <1>2, <2>1, <3>1 DEF PlansInv
  <2>3. /\ {recCall[c].kind, g.kind} \cap {"start", "complete"} = {}
        /\ "test" \notin {recCall[c].kind, g.kind} /\ "failover" \notin {recCall[c].kind, g.kind}
    BY <1>0, <1>2, RecoveryAssumption
  <2> QED
    BY <1>0, <1>2, <2>2, <2>3, RecTypes, RecMoves
<1>3. CASE ActivatePlan(c)
  <2> DEFINE g == [recCall[c] EXCEPT !.pc = "insert"]
  <2>1. /\ recCall[c].pc = "plan" /\ recCall[c].kind = "activate" /\ recCall' = [recCall EXCEPT ![c] = g] /\ UNCHANGED activation
        /\ plan' = [status |-> "active", count |-> recCall[c].count + 1] \/ UNCHANGED plan
    BY <1>3 DEF ActivatePlan, RecAt
  <2>2. g \in RecCall /\ g.pc = "insert" /\ g.kind = recCall[c].kind /\ g.on = recCall[c].on
    BY RecForms
  <2> HIDE DEF g
  <2>3. RecForm(g)
    BY <1>0, <2>1, <2>2, RecoveryAssumption DEF RecForm
  <2>4. plan' \in [status : DrPlanStatus, count : 0..MaxUpdates]
    BY <1>0, <2>1, RecTypes, RecoveryAssumption DEF RecKnows, DrPlanStatus
  <2>5. activation' \in [Activations -> BcpActivation]
    BY <2>1, RecTypes
  <2> QED
    BY <1>2, <2>1, <2>2, <2>3, <2>4, <2>5
<1>4. CASE InsertActivation(c)
  <2>1. /\ recCall[c].pc = "insert" /\ recCall[c].kind = "activate" /\ RecEnds(c) /\ UNCHANGED plan
        /\ \/ activation' = [activation EXCEPT ![recCall[c].on] = "open"]
           \/ RecWritesFail /\ UNCHANGED activation
    BY <1>4 DEF InsertActivation
  <2>2. CASE RecWritesFail /\ UNCHANGED activation
    BY <1>0, <2>1, <2>2, RecEndsKeeps
  <2>3. CASE activation' = [activation EXCEPT ![recCall[c].on] = "open"]
    <3>1. recCall[c].on \in Activations /\ activation \in [Activations -> BcpActivation]
      BY <1>0, <2>1, RecTypes DEF RecForm
    <3>2. activation' \in [Activations -> BcpActivation] /\ activation'[recCall[c].on] = "open"
      BY <2>3, <3>1 DEF BcpActivation
    <3>3. plan' \in [status : DrPlanStatus, count : 0..MaxUpdates]
      BY <2>1, RecTypes
    <3>4. IdleRecCall.kind # "activate"
      BY IdleRecForm, RecoveryAssumption
    <3> QED
      BY <1>2, <2>1, <3>1, <3>2, <3>3, <3>4, IdleRecForm DEF RecEnds
  <2> QED
    BY <2>1, <2>2, <2>3
<1>5. CASE CloseActivation(c)
  <2> DEFINE g == [recCall[c] EXCEPT !.pc = "plan"]
  <2>1. /\ recCall[c].pc = "write" /\ recCall[c].kind = "deactivate" /\ UNCHANGED plan
        /\ \/ activation' = [activation EXCEPT ![recCall[c].on] = "closed"] /\ recCall' = [recCall EXCEPT ![c] = g]
           \/ RecWritesFail /\ RecEnds(c) /\ UNCHANGED activation
    BY <1>5 DEF CloseActivation, RecAt
  <2>2. CASE RecWritesFail /\ RecEnds(c) /\ UNCHANGED activation
    BY <1>0, <2>1, <2>2, RecEndsKeeps
  <2>3. CASE activation' = [activation EXCEPT ![recCall[c].on] = "closed"] /\ recCall' = [recCall EXCEPT ![c] = g]
    <3>1. recCall[c].on \in Activations /\ activation \in [Activations -> BcpActivation]
      BY <1>0, <2>1, RecTypes DEF RecForm
    <3>2. activation' \in [Activations -> BcpActivation]
      BY <2>3, <3>1 DEF BcpActivation
    <3>3. plan' \in [status : DrPlanStatus, count : 0..MaxUpdates]
      BY <2>1, RecTypes
    <3>4. g \in RecCall /\ g.pc = "plan" /\ g.kind = recCall[c].kind /\ g.on = recCall[c].on
      BY RecForms
    <3> HIDE DEF g
    <3>5. RecForm(g)
      BY <1>0, <2>1, <3>4, RecoveryAssumption DEF RecForm
    <3> QED
      BY <1>2, <2>1, <2>3, <3>2, <3>3, <3>4, <3>5
  <2> QED
    BY <2>1, <2>2, <2>3
<1>6. CASE DeactivatePlan(c)
  <2>1. /\ recCall[c].pc = "plan" /\ recCall[c].kind = "deactivate" /\ RecEnds(c) /\ UNCHANGED activation
        /\ \/ plan' = [plan EXCEPT !.status = "approved"]
           \/ RecWritesFail /\ UNCHANGED plan
    BY <1>6 DEF DeactivatePlan, AfterDeactivation
  <2>2. CASE RecWritesFail /\ UNCHANGED plan
    BY <1>0, <2>1, <2>2, RecEndsKeeps
  <2>3. CASE plan' = [plan EXCEPT !.status = "approved"]
    <3>1. plan' \in [status : DrPlanStatus, count : 0..MaxUpdates] /\ plan'.status = "approved"
      BY <2>3, RecTypes DEF DrPlanStatus
    <3>2. activation' \in [Activations -> BcpActivation]
      BY <2>1, RecTypes
    <3>4. IdleRecCall.kind # "activate"
      BY IdleRecForm, RecoveryAssumption
    <3> QED
      BY <1>2, <2>1, <3>1, <3>2, <3>4, IdleRecForm DEF RecEnds
  <2> QED
    BY <2>1, <2>2, <2>3
<1> QED
  BY <1>3, <1>4, <1>5, <1>6

\* Completing a test keeps it.
LEMMA TestRequestsKeep ==
    ASSUME RecInv, UNCHANGED allowed, NEW c \in RecoveryCalls, UpdateDrTest(c) \/ UpdateDrp(c)
    PROVE  RecInv'
<1>0. /\ recCall[c] \in RecCall /\ RecForm(recCall[c]) /\ RecKnows(recCall[c]) /\ recCall \in [RecoveryCalls -> RecCall]
      /\ UNCHANGED <<schedule, execution, current, latest, counted, plan, activation, failover>>
      /\ recCall[c].kind = "test"
  BY RecForms DEF UpdateDrTest, UpdateDrp, backupVars, planVars
<1>1. \A d \in RecoveryCalls \ {c} : recCall[d].kind # "test"
  BY <1>0, RecoveryAssumption DEF RecInv, Ordered, Collide
<1>2. ASSUME NEW g \in RecCall, recCall' = [recCall EXCEPT ![c] = g], RecForm(g),
             g.kind = None \/ (g.kind = recCall[c].kind /\ g.on = recCall[c].on),
             test' \in [Tests -> DrTest],
             drPlan' \in [result : DrTestResult \cup {None}, expected : DrTestResult \cup {None}],
             CalmRecovery => IF g.kind = None THEN drPlan'.result = drPlan'.expected
                             ELSE g.pc = "plan" /\ g.arg = drPlan'.expected
      PROVE  RecInv'
  <2>1. recCall'[c] = g /\ \A d \in RecoveryCalls \ {c} : recCall'[d] = recCall[d]
    BY <1>0, <1>2
  <2>2. TestsInv'
    <3>1. CalmRecovery' <=> CalmRecovery
      BY DEF CalmRecovery, RecWritesFail, May
    <3> QED
      BY <1>0, <1>1, <1>2, <2>1, <3>1, RecoveryAssumption DEF TestsInv
  <2>3. /\ {recCall[c].kind, g.kind} \cap {"start", "complete"} = {}
        /\ {recCall[c].kind, g.kind} \cap {"activate", "deactivate"} = {} /\ "failover" \notin {recCall[c].kind, g.kind}
    BY <1>0, <1>2, RecoveryAssumption
  <2> QED
    BY <1>0, <1>2, <2>2, <2>3, RecTypes, RecMoves
<1>3. CASE UpdateDrTest(c)
  <2> DEFINE g == [recCall[c] EXCEPT !.pc = "plan"]
  <2>1. /\ recCall[c].pc = "write"
        /\ \/ /\ test' = [test EXCEPT ![recCall[c].on] = [status |-> "completed", result |-> recCall[c].arg]]
              /\ drPlan' = [drPlan EXCEPT !.expected = recCall[c].arg]
              /\ recCall' = [recCall EXCEPT ![c] = g]
           \/ RecWritesFail /\ RecEnds(c) /\ UNCHANGED <<test, drPlan>>
    BY <1>3 DEF UpdateDrTest, RecAt, testVars
  <2>2. CASE RecWritesFail /\ RecEnds(c) /\ UNCHANGED <<test, drPlan>>
    BY <1>0, <2>1, <2>2, RecEndsKeeps
  <2>3. CASE /\ test' = [test EXCEPT ![recCall[c].on] = [status |-> "completed", result |-> recCall[c].arg]]
             /\ drPlan' = [drPlan EXCEPT !.expected = recCall[c].arg] /\ recCall' = [recCall EXCEPT ![c] = g]
    <3>1. recCall[c].on \in Tests /\ recCall[c].arg \in DrTestResult
      BY <1>0 DEF RecForm
    <3>2. /\ g \in RecCall /\ g.pc = "plan" /\ g.kind = recCall[c].kind /\ g.on = recCall[c].on /\ g.arg = recCall[c].arg
      BY RecForms
    <3> HIDE DEF g
    <3>3. RecForm(g)
      BY <1>0, <2>1, <3>2, RecoveryAssumption DEF RecForm
    <3>4. test' \in [Tests -> DrTest]
      BY <2>3, <3>1, RecTypes DEF DrTest
    <3>5. /\ drPlan' \in [result : DrTestResult \cup {None}, expected : DrTestResult \cup {None}]
          /\ drPlan'.expected = recCall[c].arg
      BY <2>3, <3>1, RecTypes
    <3> QED
      BY <1>0, <1>2, <2>3, <3>2, <3>3, <3>4, <3>5, RecoveryAssumption
  <2> QED
    BY <2>1, <2>2, <2>3
<1>4. CASE UpdateDrp(c)
  <2>1. /\ recCall[c].pc = "plan" /\ RecEnds(c) /\ UNCHANGED test
        /\ \/ drPlan' = [drPlan EXCEPT !.result = recCall[c].arg]
           \/ RecWritesFail /\ UNCHANGED drPlan
    BY <1>4 DEF UpdateDrp, Noted
  <2>2. CASE RecWritesFail /\ UNCHANGED drPlan
    BY <1>0, <2>1, <2>2, RecEndsKeeps
  <2>3. CASE drPlan' = [drPlan EXCEPT !.result = recCall[c].arg]
    <3>1. recCall[c].arg \in DrTestResult /\ (CalmRecovery => recCall[c].arg = drPlan.expected)
      BY <1>0, <2>1 DEF RecForm, RecKnows
    <3>2. /\ drPlan' \in [result : DrTestResult \cup {None}, expected : DrTestResult \cup {None}]
          /\ CalmRecovery => drPlan'.result = drPlan'.expected
      BY <2>3, <3>1, RecTypes
    <3>3. test' \in [Tests -> DrTest]
      BY <2>1, RecTypes
    <3> QED
      BY <1>2, <2>1, <3>2, <3>3, IdleRecForm DEF RecEnds
  <2> QED
    BY <2>1, <2>2, <2>3
<1> QED
  BY <1>3, <1>4

\* Writing a failover keeps it.
LEMMA WriteFailoverKeeps ==
    ASSUME RecInv, UNCHANGED allowed, NEW c \in RecoveryCalls, WriteFailover(c)
    PROVE  RecInv'
<1> DEFINE read == recCall[c].row
           status == recCall[c].arg
           b == failover.over \/ (status = "standby" /\ read.status = "failing_back")
           f == [status |-> status, updates |-> Append(read.updates, status), sent |-> failover.sent + 1, over |-> b]
<1>0. /\ recCall[c].pc = "write" /\ recCall[c].kind = "failover" /\ RecEnds(c)
      /\ UNCHANGED <<schedule, execution, current, latest, counted, plan, activation, test, drPlan>>
      /\ failover' = f \/ (RecWritesFail /\ UNCHANGED failover)
      /\ RecForm(recCall[c]) /\ RecKnows(recCall[c]) /\ recCall \in [RecoveryCalls -> RecCall]
  BY RecForms DEF WriteFailover, Updates, backupVars, planVars, testVars
<1>1. CASE RecWritesFail /\ UNCHANGED failover
  BY <1>0, <1>1, RecEndsKeeps
<1>2. CASE failover' = f
  <2>1. failover \in FailoverEvent /\ read = failover /\ status \in FailoverStatus /\ failover.sent < MaxUpdates /\ failover.status # None
    BY <1>0, RecTypes DEF RecForm, RecKnows
  <2>2. b \in BOOLEAN /\ failover.updates \in Seq(FailoverStatus) /\ failover.sent \in 0..MaxUpdates
    BY <2>1 DEF FailoverEvent
  <2>3. Len(failover.updates) = failover.sent + 1
    BY <2>1 DEF RecInv, FailoversInv, FailoverIsTold
  <2>4. f = [status |-> status, updates |-> Append(failover.updates, status), sent |-> failover.sent + 1, over |-> b]
    BY <2>1
  <2> HIDE DEF b, f, read, status
  <2>5. /\ Append(failover.updates, status) \in Seq(FailoverStatus)
        /\ Len(Append(failover.updates, status)) = failover.sent + 2
        /\ Last(Append(failover.updates, status)) = status
    BY <2>1, <2>2, <2>3 DEF Last
  <2>6. f \in FailoverEvent /\ f.updates = Append(failover.updates, status) /\ f.sent = failover.sent + 1 /\ f.status = status
    BY <2>1, <2>2, <2>4, <2>5, RecoveryAssumption DEF FailoverEvent
  <2>7. \A d \in RecoveryCalls \ {c} : recCall[d].kind # "failover"
    BY <1>0, RecForms, RecoveryAssumption DEF RecInv, Ordered, Collide, RecForm
  <2>8. /\ recCall' = [recCall EXCEPT ![c] = IdleRecCall] /\ recCall'[c] = IdleRecCall
        /\ \A d \in RecoveryCalls \ {c} : recCall'[d] = recCall[d]
    BY <1>0 DEF RecEnds
  <2>9. \A d \in RecoveryCalls : recCall'[d].kind # "failover"
    BY <2>7, <2>8, IdleRecForm, RecoveryAssumption
  <2>10. FailoverIsTold'
    BY <1>2, <2>2, <2>5, <2>6 DEF FailoverIsTold
  <2>11. FailoversInv'
    BY <2>9, <2>10 DEF FailoversInv
  <2>12. failover' \in FailoverEvent /\ IdleRecCall.kind = None
    BY <1>2, <2>6, IdleRecForm
  <2>13. /\ {recCall[c].kind, IdleRecCall.kind} \cap {"activate", "deactivate"} = {}
         /\ {recCall[c].kind, IdleRecCall.kind} \cap {"start", "complete"} = {}
         /\ "test" \notin {recCall[c].kind, IdleRecCall.kind}
    BY <1>0, <2>12, RecoveryAssumption
  <2> QED
    BY <1>0, <2>8, <2>11, <2>12, <2>13, IdleRecForm, RecTypes, RecMoves
<1> QED
  BY <1>0, <1>1, <1>2

\* The steps that no request takes: a backup is verified, its time passes and it is marked; a plan
\* is reviewed and approved; a test is scheduled and started; a failover is initiated.
LEMMA RecoveryTablesKeep ==
    ASSUME RecInv, UNCHANGED allowed,
           \/ \E e \in Executions : VerifyBackup(e) \/ ExpiryPasses(e)
           \/ \E s \in Schedules : ToggleSchedule(s)
           \/ MarkExpiredBackups \/ SubmitForReview \/ ApproveBcp
           \/ \E t \in Tests : ScheduleDrTest(t) \/ StartDrTest(t)
           \/ InitiateFailover
    PROVE  RecInv'
<1>0. /\ UNCHANGED <<recCall, current, latest, counted, activation, drPlan>>
      /\ UNCHANGED CalmRecovery /\ UNCHANGED RecWritesFail /\ UNCHANGED May("crash")
  BY Zenon DEF VerifyBackup, ExpiryPasses, ToggleSchedule, MarkExpiredBackups, SubmitForReview, ApproveBcp,
         ScheduleDrTest, StartDrTest, InitiateFailover, backupVars, planVars, testVars, CalmRecovery, RecWritesFail, May
<1>1. /\ (\A c \in RecoveryCalls : RecForm(recCall[c]))' /\ Ordered'
      /\ recCall' \in [RecoveryCalls -> RecCall]
  BY <1>0, RecForms DEF RecInv, RecForm, Ordered, Collide, RecoveryTypeOK
<1>2. ASSUME UNCHANGED <<plan, test, failover>>,
             schedule' \in [Schedules -> BackupSchedule], execution' \in [Executions -> BackupExecution],
             \A s \in Schedules : /\ schedule'[s].ok = schedule[s].ok /\ schedule'[s].bad = schedule[s].bad
                                  /\ schedule'[s].total = schedule[s].total,
             \A e \in Executions : /\ execution'[e].of = execution[e].of
                                   /\ execution'[e].status = None <=> execution[e].status = None
                                   /\ execution[e].status = None => execution'[e] = execution[e]
      PROVE  RecInv'
  <2>1. RecoveryTypeOK'
    BY <1>0, <1>1, <1>2, RecTypes DEF RecoveryTypeOK
  <2>2. \A s \in Schedules : UNCHANGED Runs(s) /\ \A c \in RecoveryCalls : UNCHANGED Counting(recCall[c], s)
    BY <1>0, <1>2 DEF Runs, Counting
  <2>3. BackupsInv'
    <3>1. (CalmRecovery => \A z \in Schedules :
          /\ (\A d \in RecoveryCalls : ~Counting(recCall[d], z)) => schedule[z].total = Cardinality(Runs(z))
          /\ \A d \in RecoveryCalls : Counting(recCall[d], z) => schedule[z].total + 1 = Cardinality(Runs(z)))'
      BY <1>0, <1>2, <2>2 DEF RecInv, BackupsInv
    <3>2. \A d \in RecoveryCalls :
             /\ recCall[d].kind = "start" /\ recCall[d].pc \in {"insert", "plan"} =>
                   recCall[d].count = schedule'[recCall[d].on].total
             /\ recCall[d].kind = "complete" =>
                   /\ execution'[recCall[d].on].status # None
                   /\ recCall[d].pc # "read" =>
                         /\ recCall[d].row.ok = schedule'[execution'[recCall[d].on].of].ok
                         /\ recCall[d].row.bad = schedule'[execution'[recCall[d].on].of].bad
      <4> TAKE d \in RecoveryCalls
      <4>1. RecForm(recCall[d]) /\ RecKnows(recCall[d])
        BY RecForms
      <4>2. recCall[d].kind = "complete" => recCall[d].on \in Executions /\ execution[recCall[d].on].of \in Schedules
        BY <4>1 DEF RecForm, RecKnows, RecInv, BackupsInv
      <4> QED
        BY <1>2, <4>1, <4>2 DEF RecForm, RecKnows
    <3>3. /\ \A x \in Executions : /\ execution'[x].status # None => execution'[x].of \in Schedules
                                   /\ execution'[x].status = None => execution'[x].of = None /\ ~execution'[x].over
          /\ \A z \in Schedules : schedule'[z].ok = counted[z].ok /\ schedule'[z].bad = counted[z].bad
      BY <1>2 DEF RecInv, BackupsInv
    <3>4. ~RecWritesFail =>
            /\ (\E d \in RecoveryCalls : recCall[d].pc = "point") => \A x \in Executions : current[x] = 0
            /\ \A x \in Executions : current[x] > 0 => current[x] = 1 /\ latest = x
            /\ ~May("crash") /\ (\A d \in RecoveryCalls : recCall[d].pc # "point") =>
                  \A x \in Executions : latest = x => current[x] = 1
      BY DEF RecInv, BackupsInv
    <3> QED
      BY <1>0, <3>1, <3>2, <3>3, <3>4 DEF BackupsInv
  <2>4. PlansInv' /\ TestsInv' /\ FailoversInv'
    BY <1>0, <1>2 DEF RecInv, PlansInv, TestsInv, FailoversInv, FailoverIsTold
  <2> QED
    BY <1>1, <2>1, <2>3, <2>4 DEF RecInv
<1>3. ASSUME UNCHANGED <<schedule, execution, test, failover>>, plan' \in [status : DrPlanStatus, count : 0..MaxUpdates],
             plan'.status # "active" /\ plan'.count = plan.count
      PROVE  RecInv'
  <2>1. RecoveryTypeOK'
    BY <1>0, <1>1, <1>3, RecTypes DEF RecoveryTypeOK
  <2>2. BackupsInv' /\ TestsInv' /\ FailoversInv'
    BY <1>0, <1>3 DEF RecInv, BackupsInv, Runs, Counting, TestsInv, FailoversInv, FailoverIsTold
  <2>3. PlansInv'
    BY <1>0, <1>3 DEF RecInv, PlansInv
  <2> QED
    BY <1>1, <2>1, <2>2, <2>3 DEF RecInv
<1>4. ASSUME UNCHANGED <<schedule, execution, plan, failover>>, test' \in [Tests -> DrTest]
      PROVE  RecInv'
  <2>1. RecoveryTypeOK'
    BY <1>0, <1>1, <1>4, RecTypes DEF RecoveryTypeOK
  <2>2. BackupsInv' /\ PlansInv' /\ TestsInv' /\ FailoversInv'
    BY <1>0, <1>4 DEF RecInv, BackupsInv, Runs, Counting, PlansInv, TestsInv, FailoversInv, FailoverIsTold
  <2> QED
    BY <1>1, <2>1, <2>2 DEF RecInv
<1>5. ASSUME NEW e \in Executions, VerifyBackup(e) \/ ExpiryPasses(e) PROVE RecInv'
  <2>1. execution[e] \in BackupExecution /\ execution[e].status # None /\ execution \in [Executions -> BackupExecution]
    BY <1>5, RecTypes DEF VerifyBackup, ExpiryPasses
  <2>2. PICK r \in BackupExecution : /\ execution' = [execution EXCEPT ![e] = r]
                                     /\ r.of = execution[e].of /\ r.status # None
    <3>1. CASE VerifyBackup(e)
      <4>1. PICK s \in {"verified", "failed"} : execution' = [execution EXCEPT ![e].status = s]
        BY <3>1 DEF VerifyBackup
      <4>2. [execution[e] EXCEPT !.status = s] \in BackupExecution
            /\ [execution[e] EXCEPT !.status = s].of = execution[e].of /\ [execution[e] EXCEPT !.status = s].status # None
        BY <2>1, RecoveryAssumption DEF BackupExecution, BackupStatus
      <4> QED
        BY <4>1, <4>2
    <3>2. CASE ExpiryPasses(e)
      <4>1. execution' = [execution EXCEPT ![e].over = TRUE]
        BY <3>2 DEF ExpiryPasses
      <4>2. [execution[e] EXCEPT !.over = TRUE] \in BackupExecution
            /\ [execution[e] EXCEPT !.over = TRUE].of = execution[e].of /\ [execution[e] EXCEPT !.over = TRUE].status # None
        BY <2>1 DEF BackupExecution
      <4> QED
        BY <4>1, <4>2
    <3> QED
      BY <1>5, <3>1, <3>2
  <2>3. UNCHANGED <<schedule, plan, test, failover>>
    BY <1>5 DEF VerifyBackup, ExpiryPasses, planVars, testVars
  <2>4. /\ execution' \in [Executions -> BackupExecution] /\ execution'[e] = r
        /\ \A x \in Executions \ {e} : execution'[x] = execution[x]
    BY <2>1, <2>2
  <2> QED
    BY <1>2, <2>1, <2>2, <2>3, <2>4, RecTypes
<1>6. ASSUME NEW s \in Schedules, ToggleSchedule(s) PROVE RecInv'
  <2> DEFINE r == [schedule[s] EXCEPT !.active = ~schedule[s].active]
  <2>1. schedule' = [schedule EXCEPT ![s] = r] /\ UNCHANGED <<execution, plan, test, failover>>
    BY <1>6 DEF ToggleSchedule, planVars, testVars
  <2>2. r \in BackupSchedule /\ r.ok = schedule[s].ok /\ r.bad = schedule[s].bad /\ r.total = schedule[s].total
    BY RecTypes DEF BackupSchedule
  <2> HIDE DEF r
  <2>3. /\ schedule' \in [Schedules -> BackupSchedule] /\ schedule'[s] = r
        /\ \A x \in Schedules \ {s} : schedule'[x] = schedule[x]
    BY <2>1, <2>2, RecTypes
  <2> QED
    BY <1>2, <2>1, <2>2, <2>3, RecTypes
<1>7. CASE MarkExpiredBackups
  <2> DEFINE r1(e) == [execution[e] EXCEPT !.expired = TRUE]
             r(e) == [execution[e] EXCEPT !.expired = TRUE, !.status = "expired"]
  <2>1. /\ execution' = [e \in Executions |-> IF Expirable(e) THEN r(e) ELSE execution[e]]
        /\ UNCHANGED <<schedule, plan, test, failover>>
    BY <1>7, Zenon DEF MarkExpiredBackups, planVars, testVars
  <2>2. ASSUME NEW e \in Executions
        PROVE  r(e) \in BackupExecution /\ r(e).of = execution[e].of /\ r(e).status = "expired"
    <3>1. r(e) = [r1(e) EXCEPT !.status = "expired"] /\ execution[e] \in BackupExecution
      BY RecTypes
    <3>2. r1(e) \in BackupExecution /\ r1(e).of = execution[e].of
      BY <3>1 DEF BackupExecution
    <3> HIDE DEF r, r1
    <3> QED
      BY <3>1, <3>2 DEF BackupExecution, BackupStatus
  <2> HIDE DEF r
  <2>3. \A e \in Executions : Expirable(e) => execution[e].status # None
    BY DEF Expirable, RecInv, BackupsInv
  <2>4. execution' \in [Executions -> BackupExecution]
    BY <2>1, <2>2, RecTypes
  <2>5. \A e \in Executions : /\ execution'[e].of = execution[e].of
                              /\ execution'[e].status = None <=> execution[e].status = None
                              /\ execution[e].status = None => execution'[e] = execution[e]
    BY <2>1, <2>2, <2>3, RecoveryAssumption
  <2> QED
    BY <1>2, <2>1, <2>4, <2>5, RecTypes
<1>8. CASE SubmitForReview \/ ApproveBcp
  <2>1. UNCHANGED <<schedule, execution, test, failover>>
    BY <1>8 DEF SubmitForReview, ApproveBcp, backupVars, testVars
  <2>2. \E s \in {"under_review", "approved"} : plan' = [plan EXCEPT !.status = s]
    BY <1>8 DEF SubmitForReview, ApproveBcp
  <2>3. /\ plan' \in [status : DrPlanStatus, count : 0..MaxUpdates]
        /\ plan'.status # "active" /\ plan'.count = plan.count
    BY <2>2, RecTypes DEF DrPlanStatus
  <2> QED
    BY <1>3, <2>1, <2>3
<1>9. ASSUME NEW t \in Tests, ScheduleDrTest(t) \/ StartDrTest(t) PROVE RecInv'
  <2>1. UNCHANGED <<schedule, execution, plan, failover>>
    BY <1>9 DEF ScheduleDrTest, StartDrTest, backupVars, planVars
  <2>2. \E s \in {"scheduled", "started"} : test' = [test EXCEPT ![t].status = s]
    BY <1>9 DEF ScheduleDrTest, StartDrTest
  <2>3. test' \in [Tests -> DrTest]
    BY <2>2, RecTypes DEF DrTest
  <2> QED
    BY <1>4, <2>1, <2>3
<1>10. CASE InitiateFailover
  <2>1. /\ UNCHANGED <<schedule, execution, plan, test>> /\ failover.status = None
        /\ failover' = [status |-> "initiating", updates |-> <<"initiating">>, sent |-> 0, over |-> FALSE]
    BY <1>10 DEF InitiateFailover, backupVars, planVars, testVars
  <2>2. <<"initiating">> \in Seq(FailoverStatus) /\ Len(<<"initiating">>) = 1 /\ Last(<<"initiating">>) = "initiating"
    BY DEF FailoverStatus, Last
  <2>3. failover' \in FailoverEvent /\ FailoverIsTold'
    BY <2>1, <2>2, RecoveryAssumption DEF FailoverEvent, FailoverStatus, FailoverIsTold
  <2>4. RecoveryTypeOK'
    BY <1>0, <1>1, <2>1, <2>3, RecTypes DEF RecoveryTypeOK
  <2>5. BackupsInv' /\ PlansInv' /\ TestsInv'
    BY <1>0, <2>1 DEF RecInv, BackupsInv, Runs, Counting, PlansInv, TestsInv
  <2>6. FailoversInv'
    BY <1>0, <2>1, <2>3 DEF RecInv, FailoversInv
  <2> QED
    BY <1>1, <2>4, <2>5, <2>6 DEF RecInv
<1> QED
  BY <1>5, <1>6, <1>7, <1>8, <1>9, <1>10, Zenon

\* The death of the backend ends the requests, where crashes are considered.
LEMMA RecoveryBackendDiesKeeps == ASSUME RecInv, UNCHANGED allowed, RecoveryBackendDies PROVE RecInv'
<1>0. /\ recCall' = [c \in RecoveryCalls |-> IdleRecCall] /\ May("crash")
      /\ UNCHANGED <<schedule, execution, current, latest, counted, plan, activation, test, drPlan, failover>>
  BY DEF RecoveryBackendDies, backupVars, planVars, testVars
<1>1. \A c \in RecoveryCalls : recCall'[c] = IdleRecCall /\ recCall'[c].kind = None /\ recCall'[c].pc = "idle"
  BY <1>0, IdleRecForm
<1>2. ~CalmRecovery' /\ May("crash")' /\ UNCHANGED RecWritesFail
  BY <1>0 DEF CalmRecovery, RecWritesFail, May
<1>3. RecoveryTypeOK'
  BY <1>0, IdleRecForm, RecTypes DEF RecoveryTypeOK
<1>4. Ordered' /\ (\A c \in RecoveryCalls : RecForm(recCall[c]))'
  <2>1. \A c \in RecoveryCalls : RecForm(recCall'[c])
    BY <1>1, IdleRecForm
  <2>2. Ordered'
    BY <1>1, RecoveryAssumption DEF Ordered, Collide
  <2> QED
    BY <2>1, <2>2 DEF RecForm
<1>5. BackupsInv'
  BY <1>0, <1>1, <1>2, RecoveryAssumption DEF RecInv, BackupsInv
<1>6. PlansInv' /\ TestsInv' /\ FailoversInv'
  BY <1>0, <1>1, <1>2, RecoveryAssumption DEF RecInv, PlansInv, TestsInv, FailoversInv, FailoverIsTold
<1> QED
  BY <1>3, <1>4, <1>5, <1>6 DEF RecInv

\* Every step of recovery keeps the invariant.
LEMMA RecoveryKeep == ASSUME RecInv, UNCHANGED allowed, RecoveryNext PROVE RecInv'
<1>1. ASSUME NEW c \in RecoveryCalls, RecoveryStep(c) PROVE RecInv'
  BY <1>1, InsertExecutionKeeps, CountRunKeeps, UpdateExecutionKeeps, ClearCurrentKeeps, InsertPointKeeps,
     UpdateStatisticsKeeps, PlanRequestsKeep, TestRequestsKeep, WriteFailoverKeeps, RecoveryReadsKeep DEF RecoveryStep
<1>2. ASSUME NEW c \in RecoveryCalls,
             \/ \E s \in Schedules : StartBackup(c, s)
             \/ \E e \in Executions, o \in {"success", "elsewhere", "failure"} : CompleteBackup(c, e, o)
             \/ \E a \in Activations : ActivateBcp(c, a) \/ DeactivateBcp(c, a)
             \/ \E t \in Tests, r \in DrTestResult : CompleteDrTest(c, t, r)
             \/ \E s \in FailoverStatus : UpdateFailoverStatus(c, s)
      PROVE  RecInv'
  BY <1>2, RecoveryBegins
<1>3. ASSUME \/ \E e \in Executions : VerifyBackup(e) \/ ExpiryPasses(e)
             \/ \E s \in Schedules : ToggleSchedule(s)
             \/ MarkExpiredBackups \/ SubmitForReview \/ ApproveBcp
             \/ \E t \in Tests : ScheduleDrTest(t) \/ StartDrTest(t)
             \/ InitiateFailover
      PROVE  RecInv'
  BY <1>3, RecoveryTablesKeep
<1> QED
  BY <1>1, <1>2, <1>3, RecoveryBackendDiesKeeps DEF RecoveryNext

\* So does a step of something else.
LEMMA RecoveryRest == ASSUME RecInv, UNCHANGED allowed, UNCHANGED recoveryVars PROVE RecInv'
<1>1. UNCHANGED <<schedule, execution, current, latest, counted, plan, activation, test, drPlan, failover, recCall>>
  BY DEF recoveryVars, backupVars, planVars, testVars
<1>2. UNCHANGED CalmRecovery /\ UNCHANGED RecWritesFail /\ UNCHANGED May("crash")
  BY DEF CalmRecovery, RecWritesFail, May
<1>3. RecoveryTypeOK' /\ (\A c \in RecoveryCalls : RecForm(recCall[c]))' /\ Ordered'
  BY <1>1 DEF RecInv, RecoveryTypeOK, RecForm, Ordered, Collide
<1>4. BackupsInv'
  BY <1>1, <1>2 DEF RecInv, BackupsInv, Runs, Counting
<1>5. PlansInv' /\ TestsInv' /\ FailoversInv'
  BY <1>1, <1>2 DEF RecInv, PlansInv, TestsInv, FailoversInv, FailoverIsTold
<1> QED
  BY <1>3, <1>4, <1>5 DEF RecInv

-----------------------------------------------------------------------------
(* Keys: a version counts the materials of its key.                                              *)

\* What a request carries.
KeyForm(m) ==
    /\ m.pc = "idle" => m = IdleKeyCall
    /\ m.pc \in {"idle", "due", "mismatch"} => m.kind = None
    /\ m.pc \in {"row", "write", "history"} => m.kind = "rotate" /\ m.key \in Keys
    /\ m.pc \in {"write", "history"} => m.read \in DecryptedKey
    /\ m.pc \in {"fetch", "use"} => m.kind \in {"encrypt", "decrypt"} /\ m.key \in Keys
    /\ m.kind = "decrypt" => m.wanted \in EncryptionResult
    /\ m.pc = "use" => m.read \in DecryptedKey
\* Whether the key it may use is its own: the version tells the material.
KeyHolds(m) ==
    /\ m.pc \in {"row", "write"} => keyRow[m.key].status # "none"
    /\ m.pc = "write" => m.read.version = keyRow[m.key].version
    /\ m.pc = "use" => m.read.version = m.read.material /\ (m.by = 0 \/ m.read.version = m.by)
    /\ m.kind = "decrypt" => m.wanted.version = m.wanted.material /\ (m.by = 0 \/ m.by = m.wanted.version)
    /\ m.pc = "mismatch" => m.by = 0
\* One rotation of a key at a time.
OneRotation == \A c, d \in KeyCalls : keyCall[c].kind = "rotate" /\ keyCall[d].kind = "rotate"
                                        /\ keyCall[c].key = keyCall[d].key => c = d
\* The version counts the materials, in the row, the cache and what was sealed.
VersionsCount ==
    /\ \A k \in Keys : /\ keyRow[k].version = made[k] /\ keyRow[k].material = made[k]
                       /\ keyRow[k].status = "none" => made[k] = 0
                       /\ cache[k] # None => cache[k].version = cache[k].material
    /\ \A s \in sealed : s.version = s.material
    /\ \A c \in KeyCalls : KeyHolds(keyCall[c])
KeyInv ==
    /\ KeyTypeOK /\ (\A c \in KeyCalls : KeyForm(keyCall[c]))
    /\ isRunning <=> keyCall[RotationJob].pc # "idle"
    /\ keyCall[RotationJob].pc \notin {"fetch", "use", "mismatch"}
    /\ \A i \in DOMAIN due : keyRow[due[i]].status # "none"
    /\ ~May("overlap") => OneRotation /\ VersionsCount

\* The invariant of keys implies what the run checks of them.
LEMMA KeysSafe == KeyInv => VersionsTellMaterials
BY DEF KeyInv, VersionsCount, KeyHolds, VersionsTellMaterials

\* A call that ended holds nothing.
LEMMA IdleKeyForm ==
    /\ IdleKeyCall \in KeyCall /\ IdleKeyCall.pc = "idle" /\ IdleKeyCall.kind = None
    /\ KeyForm(IdleKeyCall) /\ KeyHolds(IdleKeyCall)
<1>1. IdleKeyCall \in KeyCall /\ IdleKeyCall.pc = "idle" /\ IdleKeyCall.kind = None
  BY DEF IdleKeyCall, KeyCall, Versions
<1> QED
  BY <1>1, KeysAssumption DEF KeyForm, KeyHolds

\* At the start every key has its first material.
LEMMA KeyInitHolds == KeyInit => KeyInv
<1> SUFFICES ASSUME KeyInit PROVE KeyInv
  OBVIOUS
<1>1. KeyTypeOK
  <2>1. <<>> \in Seq(Keys)
    OBVIOUS
  <2>2. keyRow \in [Keys -> EncryptionKey] /\ made \in [Keys -> Versions] /\ certificate \in [Certs -> Certificate]
    BY DEF KeyInit, EncryptionKey, Versions, Certificate
  <2> QED
    BY <2>1, <2>2, IdleKeyForm DEF KeyInit, KeyTypeOK
<1>2. \A c \in KeyCalls : keyCall[c] = IdleKeyCall
  BY DEF KeyInit
<1>3. OneRotation
  BY <1>2, IdleKeyForm, KeysAssumption DEF OneRotation
<1>4. VersionsCount
  BY <1>2, IdleKeyForm DEF KeyInit, VersionsCount
<1>5. \A i \in DOMAIN due : keyRow[due[i]].status # "none"
  <2>1. DOMAIN due = {}
    BY DEF KeyInit
  <2> QED
    BY <2>1
<1> QED
  BY <1>1, <1>2, <1>3, <1>4, <1>5, IdleKeyForm, KeysAssumption DEF KeyInv, KeyInit

\* The types of the tables and the cache.
LEMMA KeyTypes ==
    ASSUME KeyInv
    PROVE  /\ keyRow \in [Keys -> EncryptionKey] /\ made \in [Keys -> Versions]
           /\ due \in Seq(Keys) /\ rotations \subseteq KeyRotationHistory
           /\ cache \in [Keys -> DecryptedKey \cup {None}] /\ sealed \subseteq EncryptionResult
           /\ keyCall \in [KeyCalls -> KeyCall] /\ isRunning \in BOOLEAN
           /\ certificate \in [Certs -> Certificate]
BY DEF KeyInv, KeyTypeOK

\* A request moves; rows of keys stay.
LEMMA KeyTurns ==
    ASSUME KeyInv, UNCHANGED <<allowed, keyRow, made, due, certificate>>, NEW c \in KeyCalls, NEW g \in KeyCall,
           keyCall' = [keyCall EXCEPT ![c] = g], KeyForm(g),
           isRunning' \in BOOLEAN,
           isRunning' <=> IF c = RotationJob THEN g.pc # "idle" ELSE isRunning,
           c = RotationJob => g.pc \notin {"fetch", "use", "mismatch"},
           rotations' \subseteq KeyRotationHistory, sealed' \subseteq EncryptionResult,
           cache' \in [Keys -> DecryptedKey \cup {None}],
           ~May("overlap") =>
              /\ KeyHolds(g)
              /\ g.kind = "rotate" => Rotating(g.key) \subseteq {c}
              /\ \A k \in Keys : cache'[k] # None => cache'[k].version = cache'[k].material
              /\ \A s \in sealed' : s.version = s.material
    PROVE  KeyInv'
<1>0. keyCall'[c] = g /\ (\A d \in KeyCalls \ {c} : keyCall'[d] = keyCall[d]) /\ keyCall' \in [KeyCalls -> KeyCall]
  BY KeyTypes
<1>1. KeyTypeOK'
  BY <1>0, KeyTypes DEF KeyTypeOK
<1>2. (\A d \in KeyCalls : KeyForm(keyCall[d]))'
  <2>1. \A d \in KeyCalls : KeyForm(keyCall'[d])
    BY <1>0 DEF KeyInv
  <2> QED
    BY <2>1 DEF KeyForm
<1>3. /\ isRunning' <=> keyCall'[RotationJob].pc # "idle"
      /\ keyCall'[RotationJob].pc \notin {"fetch", "use", "mismatch"}
  BY <1>0, KeysAssumption DEF KeyInv
<1>4. ASSUME ~May("overlap") PROVE OneRotation' /\ VersionsCount'
  <2>1. OneRotation'
    BY <1>0, <1>4 DEF KeyInv, OneRotation, Rotating
  <2>2. \A d \in KeyCalls : KeyHolds(keyCall'[d])
    BY <1>0, <1>4 DEF KeyInv, VersionsCount
  <2>3. (\A d \in KeyCalls : KeyHolds(keyCall[d]))'
    BY <2>2 DEF KeyHolds
  <2> QED
    BY <1>4, <2>1, <2>3 DEF KeyInv, VersionsCount
<1>5. May("overlap")' <=> May("overlap")
  BY DEF May
<1>6. (\A i \in DOMAIN due : keyRow[due[i]].status # "none")'
  BY DEF KeyInv
<1> QED
  BY <1>1, <1>2, <1>3, <1>4, <1>5, <1>6 DEF KeyInv

\* A request ends.
LEMMA KeyEnds ==
    ASSUME KeyInv, UNCHANGED <<allowed, keyRow, made, due, certificate>>, NEW c \in KeyCalls, EndKeyCall(c),
           rotations' \subseteq KeyRotationHistory, sealed' \subseteq EncryptionResult,
           cache' \in [Keys -> DecryptedKey \cup {None}],
           ~May("overlap") =>
              /\ \A k \in Keys : cache'[k] # None => cache'[k].version = cache'[k].material
              /\ \A s \in sealed' : s.version = s.material
    PROVE  KeyInv'
<1>1. /\ keyCall' = [keyCall EXCEPT ![c] = IdleKeyCall] /\ isRunning' \in BOOLEAN
      /\ isRunning' <=> IF c = RotationJob THEN IdleKeyCall.pc # "idle" ELSE isRunning
  BY KeyTypes, IdleKeyForm DEF EndKeyCall
<1>2. IdleKeyCall.kind # "rotate" /\ IdleKeyCall.pc \notin {"fetch", "use", "mismatch"}
  BY IdleKeyForm, KeysAssumption
<1> QED
  BY <1>1, <1>2, IdleKeyForm, KeyTurns

\* What the cache and the sealed texts are known by.
LEMMA KeyFacts ==
    ASSUME KeyInv
    PROVE  ~May("overlap") =>
              /\ OneRotation
              /\ \A k \in Keys : /\ keyRow[k].version = made[k] /\ keyRow[k].material = made[k]
                                 /\ cache[k] # None => cache[k].version = cache[k].material
              /\ \A s \in sealed : s.version = s.material
              /\ \A c \in KeyCalls : KeyHolds(keyCall[c])
BY DEF KeyInv, VersionsCount

\* What a call is, and is at its next place.
LEMMA KeyForms ==
    ASSUME KeyInv, NEW c \in KeyCalls
    PROVE  /\ keyCall[c] \in KeyCall /\ KeyForm(keyCall[c])
           /\ \A pc \in {"due", "write", "history", "use"} : LET g == [keyCall[c] EXCEPT !.pc = pc] IN
                /\ g \in KeyCall /\ g.pc = pc /\ g.kind = keyCall[c].kind /\ g.key = keyCall[c].key
                /\ g.read = keyCall[c].read /\ g.wanted = keyCall[c].wanted /\ g.by = keyCall[c].by
<1>1. keyCall[c] \in KeyCall /\ KeyForm(keyCall[c])
  BY DEF KeyInv, KeyTypeOK
<1>2. ASSUME NEW pc \in {"due", "write", "history", "use"}
      PROVE  LET g == [keyCall[c] EXCEPT !.pc = pc] IN
                /\ g \in KeyCall /\ g.pc = pc /\ g.kind = keyCall[c].kind /\ g.key = keyCall[c].key
                /\ g.read = keyCall[c].read /\ g.wanted = keyCall[c].wanted /\ g.by = keyCall[c].by
  BY <1>1 DEF KeyCall
<1> QED
  BY <1>1, <1>2

\* A call has its key.
LEMMA WithKeyKeeps ==
    ASSUME KeyInv, UNCHANGED <<allowed, keyRow, made, due, rotations, certificate>>,
           NEW c \in KeyCalls, c # RotationJob, NEW call \in KeyCall, NEW key \in DecryptedKey,
           call.kind \in {"encrypt", "decrypt"}, call.key \in Keys,
           call.kind = "decrypt" => call.wanted \in EncryptionResult,
           WithKey(c, call, key), cache' \in [Keys -> DecryptedKey \cup {None}],
           ~May("overlap") =>
              /\ key.version = key.material /\ (call.by = 0 \/ key.version = call.by)
              /\ call.kind = "decrypt" => /\ call.wanted.version = call.wanted.material
                                          /\ call.by = 0 \/ call.by = call.wanted.version
              /\ \A k \in Keys : cache'[k] # None => cache'[k].version = cache'[k].material
    PROVE  KeyInv'
<1>1. CASE call.kind = "encrypt"
  <2> DEFINE s == [key |-> call.key, version |-> key.version, material |-> key.material]
  <2>1. EndKeyCall(c) /\ (sealed' = sealed \cup {s} \/ sealed' = sealed)
    BY <1>1 DEF WithKey
  <2>2. s \in EncryptionResult /\ s.version = key.version /\ s.material = key.material
    BY DEF EncryptionResult, DecryptedKey
  <2> HIDE DEF s
  <2>3. sealed' \subseteq EncryptionResult
    BY <2>1, <2>2, KeyTypes
  <2>4. ~May("overlap") => \A x \in sealed' : x.version = x.material
    BY <2>1, <2>2, KeyFacts
  <2> QED
    BY <2>1, <2>3, <2>4, KeyTypes, KeyEnds
<1>2. CASE call.kind = "decrypt"
  <2> DEFINE m1 == [IdleKeyCall EXCEPT !.pc = "mismatch"]
             m == [IdleKeyCall EXCEPT !.pc = "mismatch", !.by = call.by]
             g == IF key.material = call.wanted.material THEN IdleKeyCall ELSE m
  <2>1. UNCHANGED <<sealed, isRunning>> /\ keyCall' = [keyCall EXCEPT ![c] = g]
    BY <1>2 DEF WithKey
  <2>2. m = [m1 EXCEPT !.by = call.by] /\ call.by \in Versions
    BY DEF KeyCall
  <2>3. m1 \in KeyCall /\ m1.pc = "mismatch" /\ m1.kind = None
    BY DEF IdleKeyCall, KeyCall, Versions
  <2> HIDE DEF m, m1
  <2>4. m \in KeyCall /\ m.pc = "mismatch" /\ m.kind = None /\ m.by = call.by
    BY <2>2, <2>3 DEF KeyCall
  <2>5. g \in KeyCall /\ g.pc \in {"idle", "mismatch"} /\ g.kind = None /\ KeyForm(g)
    BY <2>4, IdleKeyForm, KeysAssumption DEF KeyForm
  <2>6. ~May("overlap") => KeyHolds(g)
    <3>1. CASE key.material = call.wanted.material
      BY <3>1, IdleKeyForm
    <3>2. CASE key.material # call.wanted.material
      BY <1>2, <2>4, <3>2, KeysAssumption DEF KeyHolds
    <3> QED
      BY <3>1, <3>2
  <2> HIDE DEF g
  <2>7. g.kind # "rotate"
    BY <2>5, KeysAssumption
  <2>8. /\ isRunning' \in BOOLEAN
        /\ isRunning' <=> IF c = RotationJob THEN g.pc # "idle" ELSE isRunning
        /\ sealed' \subseteq EncryptionResult /\ rotations' \subseteq KeyRotationHistory
    BY <2>1, KeyTypes
  <2>9. ~May("overlap") =>
              /\ KeyHolds(g)
              /\ g.kind = "rotate" => Rotating(g.key) \subseteq {c}
              /\ \A k \in Keys : cache'[k] # None => cache'[k].version = cache'[k].material
              /\ \A s \in sealed' : s.version = s.material
    BY <2>1, <2>6, <2>7, KeyFacts
  <2> QED
    BY <2>1, <2>5, <2>8, <2>9, KeyTurns
<1> QED
  BY <1>1, <1>2

\* Looking a key up in the cache keeps the invariant.
LEMMA GetDecryptedKeyKeeps ==
    ASSUME KeyInv, UNCHANGED allowed, NEW c \in KeyCalls, NEW call \in KeyCall, GetDecryptedKey(c, call),
           call.pc = "fetch", call.kind \in {"encrypt", "decrypt"}, call.key \in Keys,
           call.kind = "decrypt" => call.wanted \in sealed /\ call.by \in {0, call.wanted.version}
    PROVE  KeyInv'
<1>0. /\ c # RotationJob /\ UNCHANGED <<keyRow, made, due, rotations, cache, certificate>>
      /\ \/ Serves(cache[call.key], call.by) /\ WithKey(c, call, cache[call.key])
         \/ keyCall' = [keyCall EXCEPT ![c] = call] /\ UNCHANGED <<sealed, isRunning>>
  BY DEF GetDecryptedKey
<1>1. /\ call.kind = "decrypt" => call.wanted \in EncryptionResult
      /\ ~May("overlap") /\ call.kind = "decrypt" =>
            /\ call.wanted.version = call.wanted.material
            /\ call.by = 0 \/ call.by = call.wanted.version
  BY KeyTypes, KeyFacts
<1>2. CASE Serves(cache[call.key], call.by) /\ WithKey(c, call, cache[call.key])
  <2>1. cache[call.key] \in DecryptedKey /\ (call.by = 0 \/ cache[call.key].version = call.by) /\ cache[call.key] # None
    BY <1>2, KeyTypes DEF Serves
  <2>2. ~May("overlap") => \A k \in Keys : cache'[k] # None => cache'[k].version = cache'[k].material
    BY <1>0, KeyFacts
  <2>3. ~May("overlap") => cache[call.key].version = cache[call.key].material
    BY <2>1, KeyFacts
  <2>4. cache' \in [Keys -> DecryptedKey \cup {None}]
    BY <1>0, KeyTypes
  <2> QED
    BY <1>0, <1>1, <1>2, <2>1, <2>2, <2>3, <2>4, WithKeyKeeps
<1>3. CASE keyCall' = [keyCall EXCEPT ![c] = call] /\ UNCHANGED <<sealed, isRunning>>
  <2>1. KeyForm(call) /\ (~May("overlap") => KeyHolds(call))
    BY <1>1 DEF KeyForm, KeyHolds
  <2> QED
    BY <1>0, <1>3, <2>1, KeyTypes, KeyFacts, KeyTurns
<1> QED
  BY <1>0, <1>2, <1>3

\* Calls that seal and open begin.
LEMMA SealAndOpenKeep ==
    ASSUME KeyInv, UNCHANGED allowed, NEW c \in KeyCalls,
           \/ \E k \in Keys : Encrypt(c, k)
           \/ \E s \in sealed : Decrypt(c, s, s.version) \/ Decrypt(c, s, 0)
    PROVE  KeyInv'
<1>1. ASSUME NEW k \in Keys, Encrypt(c, k) PROVE KeyInv'
  <2> DEFINE g1 == [IdleKeyCall EXCEPT !.pc = "fetch"]
             g2 == [g1 EXCEPT !.kind = "encrypt"]
             g == [IdleKeyCall EXCEPT !.pc = "fetch", !.kind = "encrypt", !.key = k]
  <2>1. g = [g2 EXCEPT !.key = k]
    OBVIOUS
  <2>2. g1 = [pc |-> "fetch", kind |-> None, key |-> None, read |-> None, wanted |-> None, by |-> 0]
    BY DEF IdleKeyCall
  <2>3. GetDecryptedKey(c, g)
    BY <1>1, Zenon DEF Encrypt
  <2> HIDE DEF g, g1
  <2>4. g2 = [pc |-> "fetch", kind |-> "encrypt", key |-> None, read |-> None, wanted |-> None, by |-> 0]
    BY <2>2
  <2> HIDE DEF g2
  <2>5. g \in KeyCall /\ g.pc = "fetch" /\ g.kind = "encrypt" /\ g.key = k
    BY <2>1, <2>4 DEF KeyCall, Versions
  <2> QED
    BY <2>3, <2>5, GetDecryptedKeyKeeps
<1>2. ASSUME NEW s \in sealed, NEW v \in Nat, v \in {0, s.version}, Decrypt(c, s, v) PROVE KeyInv'
  <2> DEFINE g1 == [IdleKeyCall EXCEPT !.pc = "fetch"]
             g2 == [g1 EXCEPT !.kind = "decrypt"]
             g3 == [g2 EXCEPT !.key = s.key]
             g4 == [g3 EXCEPT !.wanted = s]
             g == [IdleKeyCall EXCEPT !.pc = "fetch", !.kind = "decrypt", !.key = s.key, !.wanted = s, !.by = v]
  <2>0. s \in EncryptionResult /\ s.key \in Keys
    BY KeyTypes DEF EncryptionResult
  <2>1. g = [g4 EXCEPT !.by = v]
    OBVIOUS
  <2>2. g1 = [pc |-> "fetch", kind |-> None, key |-> None, read |-> None, wanted |-> None, by |-> 0]
    BY DEF IdleKeyCall
  <2>3. GetDecryptedKey(c, g)
    BY <1>2, Zenon DEF Decrypt
  <2> HIDE DEF g, g1
  <2>4. g2 = [pc |-> "fetch", kind |-> "decrypt", key |-> None, read |-> None, wanted |-> None, by |-> 0]
    BY <2>2
  <2> HIDE DEF g2
  <2>5. g3 = [pc |-> "fetch", kind |-> "decrypt", key |-> s.key, read |-> None, wanted |-> None, by |-> 0]
    BY <2>4
  <2> HIDE DEF g3
  <2>6. g4 = [pc |-> "fetch", kind |-> "decrypt", key |-> s.key, read |-> None, wanted |-> s, by |-> 0]
    BY <2>5
  <2> HIDE DEF g4
  <2>7. g \in KeyCall /\ g.pc = "fetch" /\ g.kind = "decrypt" /\ g.key = s.key /\ g.wanted = s /\ g.by = v
    BY <2>0, <2>1, <2>6 DEF KeyCall, Versions
  <2> QED
    BY <1>2, <2>0, <2>3, <2>7, GetDecryptedKeyKeeps
<1>3. \A s \in sealed : s.version \in Nat
  BY KeyTypes DEF EncryptionResult, Versions
<1> QED
  BY <1>1, <1>2, <1>3

\* Fetching a key and using it keep the invariant.
LEMMA FetchAndUseKeep ==
    ASSUME KeyInv, UNCHANGED allowed, NEW c \in KeyCalls, FetchKey(c) \/ UseKey(c)
    PROVE  KeyInv'
<1>0. keyCall[c] \in KeyCall /\ KeyForm(keyCall[c]) /\ (~May("overlap") => KeyHolds(keyCall[c])) /\ c # RotationJob
  BY KeyForms, KeyFacts DEF KeyInv, FetchKey, UseKey
<1>1. CASE FetchKey(c)
  <2> DEFINE row == keyRow[keyCall[c].key]
             r == [version |-> row.version, material |-> row.material]
             g == [keyCall[c] EXCEPT !.pc = "use", !.read = r]
  <2>1. /\ keyCall[c].pc = "fetch" /\ UNCHANGED <<keyRow, cache, made, due, rotations, sealed, certificate>>
        /\ \/ Usable(row, keyCall[c].by) /\ keyCall' = [keyCall EXCEPT ![c] = g] /\ UNCHANGED isRunning
           \/ EndKeyCall(c)
    BY <1>1 DEF FetchKey, unchangedCrypto
  <2>2. CASE EndKeyCall(c)
    BY <2>1, <2>2, KeyTypes, KeyFacts, KeyEnds
  <2>3. CASE Usable(row, keyCall[c].by) /\ keyCall' = [keyCall EXCEPT ![c] = g] /\ UNCHANGED isRunning
    <3>1. r \in DecryptedKey /\ r.version = row.version /\ r.material = row.material
      BY <1>0, <2>1, KeyTypes DEF KeyForm, DecryptedKey, EncryptionKey
    <3>2. ~May("overlap") => row.version = row.material
      BY <1>0, <2>1, KeyFacts DEF KeyForm
    <3> HIDE DEF r
    <3>3. /\ g \in KeyCall /\ g.pc = "use" /\ g.kind = keyCall[c].kind /\ g.key = keyCall[c].key
          /\ g.read = r /\ g.wanted = keyCall[c].wanted /\ g.by = keyCall[c].by
      <4> DEFINE m == [keyCall[c] EXCEPT !.pc = "use"]
      <4>1. g = [m EXCEPT !.read = r] /\ m = [keyCall[c] EXCEPT !.pc = "use"]
        OBVIOUS
      <4>2. /\ m \in KeyCall /\ m.pc = "use" /\ m.kind = keyCall[c].kind /\ m.key = keyCall[c].key
            /\ m.wanted = keyCall[c].wanted /\ m.by = keyCall[c].by
        BY KeyForms
      <4> HIDE DEF g, m
      <4> QED
        BY <3>1, <4>1, <4>2 DEF KeyCall
    <3> HIDE DEF g
    <3>4. KeyForm(g) /\ g.kind # "rotate"
      BY <1>0, <2>1, <3>1, <3>3 DEF KeyForm
    <3>5. ~May("overlap") => KeyHolds(g)
      BY <1>0, <2>1, <2>3, <3>1, <3>2, <3>3 DEF KeyHolds, Usable
    <3> QED
      BY <1>0, <2>1, <2>3, <3>3, <3>4, <3>5, KeyTypes, KeyFacts, KeyTurns
  <2> QED
    BY <2>1, <2>2, <2>3
<1>2. CASE UseKey(c)
  <2>1. /\ keyCall[c].pc = "use" /\ cache' = [cache EXCEPT ![keyCall[c].key] = keyCall[c].read]
        /\ WithKey(c, keyCall[c], keyCall[c].read) /\ UNCHANGED <<keyRow, made, due, rotations, certificate>>
    BY <1>2 DEF UseKey
  <2>2. /\ keyCall[c].kind \in {"encrypt", "decrypt"} /\ keyCall[c].key \in Keys /\ keyCall[c].read \in DecryptedKey
        /\ keyCall[c].kind = "decrypt" => keyCall[c].wanted \in EncryptionResult
    BY <1>0, <2>1 DEF KeyForm
  <2>3. ~May("overlap") =>
              /\ keyCall[c].read.version = keyCall[c].read.material
              /\ keyCall[c].by = 0 \/ keyCall[c].read.version = keyCall[c].by
              /\ keyCall[c].kind = "decrypt" => /\ keyCall[c].wanted.version = keyCall[c].wanted.material
                                                /\ keyCall[c].by = 0 \/ keyCall[c].by = keyCall[c].wanted.version
    BY <1>0, <2>1 DEF KeyHolds
  <2>4. cache' \in [Keys -> DecryptedKey \cup {None}]
    BY <2>1, <2>2, KeyTypes
  <2>5. ~May("overlap") => \A k \in Keys : cache'[k] # None => cache'[k].version = cache'[k].material
    BY <2>1, <2>2, <2>3, KeyFacts, KeyTypes
  <2> QED
    BY <1>0, <2>1, <2>2, <2>3, <2>4, <2>5, WithKeyKeeps
<1> QED
  BY <1>1, <1>2

\* A rotation begins, reads the key and records its history.
LEMMA RotationsKeep ==
    ASSUME KeyInv, UNCHANGED allowed, NEW c \in KeyCalls,
           (\E k \in Keys : RotateKey(c, k)) \/ GetKeyById(c) \/ RecordRotation(c)
    PROVE  KeyInv'
<1>0. keyCall[c] \in KeyCall /\ KeyForm(keyCall[c]) /\ (~May("overlap") => KeyHolds(keyCall[c]))
  BY KeyForms, KeyFacts
<1>1. ASSUME NEW k \in Keys, RotateKey(c, k) PROVE KeyInv'
  <2> DEFINE g1 == [IdleKeyCall EXCEPT !.kind = "rotate"]
             g2 == [g1 EXCEPT !.key = k]
             g == [IdleKeyCall EXCEPT !.kind = "rotate", !.key = k, !.pc = "row"]
  <2>1. g = [g2 EXCEPT !.pc = "row"]
    OBVIOUS
  <2>2. g1 = [pc |-> "idle", kind |-> "rotate", key |-> None, read |-> None, wanted |-> None, by |-> 0]
    BY DEF IdleKeyCall
  <2>3. /\ c # RotationJob /\ keyRow[k].status # "none" /\ RotationsApart(k) /\ keyCall' = [keyCall EXCEPT ![c] = g]
        /\ UNCHANGED <<keyRow, cache, isRunning, made, due, rotations, sealed, certificate>>
    BY <1>1, Zenon DEF RotateKey, unchangedCrypto
  <2> HIDE DEF g, g1
  <2>4. g2 = [pc |-> "idle", kind |-> "rotate", key |-> k, read |-> None, wanted |-> None, by |-> 0]
    BY <2>2
  <2> HIDE DEF g2
  <2>5. g \in KeyCall /\ g.pc = "row" /\ g.kind = "rotate" /\ g.key = k
    BY <2>1, <2>4 DEF KeyCall, Versions
  <2>6. KeyForm(g) /\ KeyHolds(g)
    BY <2>3, <2>5 DEF KeyForm, KeyHolds
  <2>7. ~May("overlap") => Rotating(k) \subseteq {c}
    BY <2>3 DEF RotationsApart
  <2> QED
    BY <2>3, <2>5, <2>6, <2>7, KeyTypes, KeyFacts, KeyTurns
<1>2. CASE GetKeyById(c)
  <2> DEFINE row == keyRow[keyCall[c].key]
             r == [version |-> row.version, material |-> 0]
             g == [keyCall[c] EXCEPT !.pc = "write", !.read = r]
  <2>1. /\ keyCall[c].pc = "row" /\ UNCHANGED <<keyRow, cache, made, due, rotations, sealed, certificate>>
        /\ \/ keyCall' = [keyCall EXCEPT ![c] = g] /\ UNCHANGED isRunning
           \/ EndKeyCall(c)
    BY <1>2 DEF GetKeyById, unchangedCrypto
  <2>2. CASE EndKeyCall(c)
    BY <2>1, <2>2, KeyTypes, KeyFacts, KeyEnds
  <2>3. CASE keyCall' = [keyCall EXCEPT ![c] = g] /\ UNCHANGED isRunning
    <3>1. r \in DecryptedKey /\ r.version = row.version
      BY <1>0, <2>1, KeyTypes DEF KeyForm, DecryptedKey, EncryptionKey, Versions
    <3> HIDE DEF r
    <3>2. /\ g \in KeyCall /\ g.pc = "write" /\ g.kind = keyCall[c].kind /\ g.key = keyCall[c].key
          /\ g.read = r /\ g.wanted = keyCall[c].wanted /\ g.by = keyCall[c].by
      <4> DEFINE m == [keyCall[c] EXCEPT !.pc = "write"]
      <4>1. g = [m EXCEPT !.read = r] /\ m = [keyCall[c] EXCEPT !.pc = "write"]
        OBVIOUS
      <4>2. /\ m \in KeyCall /\ m.pc = "write" /\ m.kind = keyCall[c].kind /\ m.key = keyCall[c].key
            /\ m.wanted = keyCall[c].wanted /\ m.by = keyCall[c].by
        BY KeyForms
      <4> HIDE DEF g, m
      <4> QED
        BY <3>1, <4>1, <4>2 DEF KeyCall
    <3> HIDE DEF g
    <3>3. KeyForm(g)
      BY <1>0, <2>1, <3>1, <3>2 DEF KeyForm
    <3>4. ~May("overlap") => KeyHolds(g)
      BY <1>0, <2>1, <3>1, <3>2 DEF KeyHolds
    <3>5. ~May("overlap") => Rotating(g.key) \subseteq {c}
      BY <1>0, <2>1, <3>2, KeyFacts DEF KeyForm, OneRotation, Rotating
    <3>6. isRunning' <=> IF c = RotationJob THEN g.pc # "idle" ELSE isRunning
      BY <2>1, <2>3, <3>2 DEF KeyInv
    <3> QED
      BY <2>1, <2>3, <3>2, <3>3, <3>4, <3>5, <3>6, KeyTypes, KeyFacts, KeyTurns
  <2> QED
    BY <2>1, <2>2, <2>3
<1>3. CASE RecordRotation(c)
  <2> DEFINE n == NewVersion(keyCall[c].read)
             entry == [key |-> keyCall[c].key, old |-> keyCall[c].read.version, new |-> n]
  <2>1. /\ keyCall[c].pc = "history" /\ EndKeyCall(c) /\ UNCHANGED <<keyRow, made, due, sealed, certificate>>
        /\ cache' = [cache EXCEPT ![keyCall[c].key] = None]
        /\ rotations' = rotations \cup {entry} \/ rotations' = rotations
    BY <1>3 DEF RecordRotation
  <2>2. entry \in KeyRotationHistory
    BY <1>0, <2>1 DEF KeyForm, KeyRotationHistory, DecryptedKey, Versions, NewVersion
  <2> HIDE DEF entry
  <2>3. rotations' \subseteq KeyRotationHistory /\ cache' \in [Keys -> DecryptedKey \cup {None}]
    BY <2>1, <2>2, KeyTypes
  <2>4. ~May("overlap") => \A k \in Keys : cache'[k] # None => cache'[k].version = cache'[k].material
    BY <2>1, KeyFacts, KeyTypes
  <2> QED
    BY <2>1, <2>3, <2>4, KeyTypes, KeyFacts, KeyEnds
<1> QED
  BY <1>1, <1>2, <1>3

\* The rotation job looks up the keys that are due.
LEMMA RotationJobKeeps ==
    ASSUME KeyInv, UNCHANGED allowed, CheckKeyRotation \/ GetKeysNeedingRotation
    PROVE  KeyInv'
<1> DEFINE c == RotationJob
<1>0. c \in KeyCalls /\ keyCall[c] \in KeyCall /\ KeyForm(keyCall[c]) /\ (~May("overlap") => KeyHolds(keyCall[c]))
  BY KeyForms, KeyFacts, KeysAssumption
<1>1. CASE CheckKeyRotation
  <2> DEFINE g == [IdleKeyCall EXCEPT !.pc = "due"]
  <2>1. /\ ~isRunning /\ isRunning' = TRUE /\ keyCall' = [keyCall EXCEPT ![c].pc = "due"]
        /\ UNCHANGED <<keyRow, cache, made, due, rotations, sealed, certificate>>
    BY <1>1 DEF CheckKeyRotation, unchangedCrypto
  <2>2. keyCall[c] = IdleKeyCall
    BY <1>0, <2>1 DEF KeyInv, KeyForm
  <2>3. keyCall' = [keyCall EXCEPT ![c] = g]
    BY <2>1, <2>2
  <2>4. g \in KeyCall /\ g.pc = "due" /\ g.kind = None
    BY DEF IdleKeyCall, KeyCall, Versions
  <2> HIDE DEF g
  <2>5. KeyForm(g) /\ KeyHolds(g) /\ g.kind # "rotate"
    BY <2>4, KeysAssumption DEF KeyForm, KeyHolds
  <2> QED
    BY <1>0, <2>1, <2>3, <2>4, <2>5, KeyTypes, KeyFacts, KeyTurns
<1>2. CASE GetKeysNeedingRotation
  <2> DEFINE needing == {i \in DOMAIN due : keyRow[due[i]].status = "active"}
  <2>1. /\ keyCall[c].pc = "due" /\ UNCHANGED <<keyRow, cache, made, due, rotations, sealed, certificate>>
        /\ \/ \E i \in needing : /\ RotationsApart(due[i])
                                 /\ keyCall' = [keyCall EXCEPT ![c] =
                                       [IdleKeyCall EXCEPT !.kind = "rotate", !.key = due[i], !.pc = "row"]]
                                 /\ UNCHANGED isRunning
           \/ EndKeyCall(c)
    BY <1>2, Zenon DEF GetKeysNeedingRotation, unchangedCrypto
  <2>2. CASE EndKeyCall(c)
    BY <1>0, <2>1, <2>2, KeyTypes, KeyFacts, KeyEnds
  <2>3. ASSUME NEW i \in needing, RotationsApart(due[i]), UNCHANGED isRunning,
               keyCall' = [keyCall EXCEPT ![c] = [IdleKeyCall EXCEPT !.kind = "rotate", !.key = due[i], !.pc = "row"]]
        PROVE  KeyInv'
    <3>k. PICK k \in Keys : k = due[i] /\ keyRow[k].status # "none"
      BY KeyTypes DEF KeyInv
    <3> DEFINE g1 == [IdleKeyCall EXCEPT !.kind = "rotate"]
               g2 == [g1 EXCEPT !.key = k]
               g == [IdleKeyCall EXCEPT !.kind = "rotate", !.key = k, !.pc = "row"]
    <3>1. g = [g2 EXCEPT !.pc = "row"]
      OBVIOUS
    <3>2. g1 = [pc |-> "idle", kind |-> "rotate", key |-> None, read |-> None, wanted |-> None, by |-> 0]
      BY DEF IdleKeyCall
    <3>3. keyCall' = [keyCall EXCEPT ![c] = g] /\ RotationsApart(k)
      BY <2>3, <3>k
    <3> HIDE DEF g, g1
    <3>4. g2 = [pc |-> "idle", kind |-> "rotate", key |-> k, read |-> None, wanted |-> None, by |-> 0]
      BY <3>2
    <3> HIDE DEF g2
    <3>5. g \in KeyCall /\ g.pc = "row" /\ g.kind = "rotate" /\ g.key = k
      BY <3>1, <3>4 DEF KeyCall, Versions
    <3>6. KeyForm(g) /\ KeyHolds(g)
      BY <3>k, <3>5 DEF KeyForm, KeyHolds
    <3>7. ~May("overlap") => Rotating(k) \subseteq {c}
      BY <3>3 DEF RotationsApart
    <3>8. isRunning' <=> IF c = RotationJob THEN g.pc # "idle" ELSE isRunning
      BY <2>1, <2>3, <3>5, Zenon DEF KeyInv
    <3> QED
      BY <1>0, <2>1, <3>3, <3>5, <3>6, <3>7, <3>8, KeyTypes, KeyFacts, KeyTurns, Zenon
  <2> QED
    BY <2>1, <2>2, <2>3, ZenonT(40)
<1> QED
  BY <1>1, <1>2

\* The keys that are left are among those that were due.
LEMMA RemovedKeys ==
    ASSUME NEW s \in Seq(Keys), NEW i \in DOMAIN s
    PROVE  /\ RemoveAt(s, i) \in Seq(Keys)
           /\ \A j \in DOMAIN RemoveAt(s, i) : \E m \in DOMAIN s : RemoveAt(s, i)[j] = s[m]
<1> DEFINE a == SubSeq(s, 1, i - 1)
           b == SubSeq(s, i + 1, Len(s))
<1>0. DOMAIN s = 1..Len(s) /\ i \in 1..Len(s) /\ Len(s) \in Nat
  OBVIOUS
<1>1. a \in Seq(Keys) /\ Len(a) = i - 1 /\ \A j \in 1..Len(a) : a[j] = s[j]
  BY <1>0, SubSeqProperties
<1>2. b \in Seq(Keys) /\ Len(b) = Len(s) - i /\ \A j \in 1..Len(b) : b[j] = s[i + j]
  <2>1. i + 1 \in Int /\ Len(s) \in Int /\ \A j \in (i + 1)..Len(s) : s[j] \in Keys
    BY <1>0
  <2>2. /\ b \in Seq(Keys) /\ Len(b) = IF i + 1 <= Len(s) THEN Len(s) - (i + 1) + 1 ELSE 0
        /\ \A j \in 1..(Len(s) - (i + 1) + 1) : b[j] = s[i + 1 + j - 1]
    BY <2>1, SubSeqProperties
  <2> HIDE DEF b
  <2>3. Len(b) = Len(s) - i /\ Len(s) - (i + 1) + 1 = Len(s) - i
    BY <1>0, <2>2
  <2>4. ASSUME NEW j \in 1..Len(b) PROVE b[j] = s[i + j]
    <3>1. j \in 1..(Len(s) - (i + 1) + 1) /\ i + 1 + j - 1 = i + j
      BY <1>0, <2>3, <2>4
    <3> QED
      BY <2>2, <3>1
  <2> QED
    BY <2>2, <2>3, <2>4
<1> HIDE DEF a, b
<1>3. a \o b \in Seq(Keys) /\ Len(a \o b) = Len(s) - 1
      /\ \A j \in 1..Len(a \o b) : (a \o b)[j] = IF j <= i - 1 THEN a[j] ELSE b[j - (i - 1)]
  <2>1. a \in Seq(Keys) /\ b \in Seq(Keys)
    BY <1>1, <1>2
  <2>2. /\ a \o b \in Seq(Keys) /\ Len(a \o b) = Len(a) + Len(b)
        /\ \A j \in 1..(Len(a) + Len(b)) : (a \o b)[j] = IF j <= Len(a) THEN a[j] ELSE b[j - Len(a)]
    BY <2>1, ConcatProperties
  <2>3. Len(a) + Len(b) = Len(s) - 1
    BY <1>0, <1>1, <1>2
  <2> QED
    BY <1>1, <2>2, <2>3
<1>4. RemoveAt(s, i) = a \o b
  BY DEF RemoveAt, a, b
<1>5. ASSUME NEW j \in DOMAIN (a \o b) PROVE \E m \in DOMAIN s : (a \o b)[j] = s[m]
  <2>1. j \in 1..Len(a \o b) /\ j \in 1..(Len(s) - 1)
    BY <1>3
  <2>2. CASE j <= i - 1
    <3>1. (a \o b)[j] = s[j] /\ j \in DOMAIN s
      BY <1>0, <1>1, <1>3, <2>1, <2>2
    <3> QED
      BY <3>1
  <2>3. CASE ~(j <= i - 1)
    <3>1. j - (i - 1) \in 1..Len(b)
      BY <1>0, <1>2, <2>1, <2>3
    <3>2. (a \o b)[j] = s[j + 1] /\ j + 1 \in DOMAIN s
      <4>1. (a \o b)[j] = b[j - (i - 1)]
        BY <1>3, <2>1, <2>3
      <4>2. b[j - (i - 1)] = s[i + (j - (i - 1))] /\ i + (j - (i - 1)) = j + 1
        BY <1>0, <1>2, <2>1, <3>1
      <4> QED
        BY <1>0, <2>1, <2>3, <4>1, <4>2
    <3> QED
      BY <3>2
  <2> QED
    BY <2>2, <2>3
<1> QED
  BY <1>3, <1>4, <1>5

\* New material is written with its version; no other request was about to write the key.
LEMMA UpdateKeyKeeps ==
    ASSUME KeyInv, UNCHANGED allowed, NEW c \in KeyCalls, UpdateKey(c)
    PROVE  KeyInv'
<1>0. keyCall[c] \in KeyCall /\ KeyForm(keyCall[c]) /\ keyCall[c].pc = "write"
  BY KeyForms DEF UpdateKey
<1>k. PICK k \in Keys : k = keyCall[c].key
  BY <1>0 DEF KeyForm
<1> DEFINE n == made[k] + 1
           v == NewVersion(keyCall[c].read)
           r == [status |-> "active", version |-> v, material |-> n]
           g == [keyCall[c] EXCEPT !.pc = "history"]
<1>1. /\ UNCHANGED <<rotations, cache, sealed, certificate>>
      /\ \/ /\ made' = [made EXCEPT ![k] = n] /\ keyRow' = [keyRow EXCEPT ![k] = r]
            /\ due' = (IF Contains(due, k) THEN RemoveAt(due, CHOOSE i \in DOMAIN due : due[i] = k) ELSE due)
            /\ keyCall' = [keyCall EXCEPT ![c] = g] /\ UNCHANGED isRunning
         \/ EndKeyCall(c) /\ UNCHANGED <<made, keyRow, due>>
  BY <1>k DEF UpdateKey
<1>2. CASE EndKeyCall(c) /\ UNCHANGED <<made, keyRow, due>>
  BY <1>1, <1>2, KeyTypes, KeyFacts, KeyEnds
<1>3. CASE /\ made' = [made EXCEPT ![k] = n] /\ keyRow' = [keyRow EXCEPT ![k] = r]
           /\ due' = (IF Contains(due, k) THEN RemoveAt(due, CHOOSE i \in DOMAIN due : due[i] = k) ELSE due)
           /\ keyCall' = [keyCall EXCEPT ![c] = g] /\ UNCHANGED isRunning
  <2>1. v \in Nat /\ n \in Nat /\ v = keyCall[c].read.version + 1 /\ made[k] \in Nat
    BY <1>0, KeyTypes DEF KeyForm, NewVersion, DecryptedKey, Versions
  <2> HIDE DEF n, v
  <2>2. r \in EncryptionKey /\ r.status = "active" /\ r.version = v /\ r.material = n
    BY <2>1 DEF EncryptionKey, Versions
  <2> HIDE DEF r
  <2>3. /\ g \in KeyCall /\ g.pc = "history" /\ g.kind = keyCall[c].kind /\ g.key = keyCall[c].key
        /\ g.read = keyCall[c].read /\ g.wanted = keyCall[c].wanted /\ g.by = keyCall[c].by
    BY KeyForms
  <2> HIDE DEF g
  <2>4. /\ keyCall'[c] = g /\ (\A d \in KeyCalls \ {c} : keyCall'[d] = keyCall[d]) /\ keyCall' \in [KeyCalls -> KeyCall]
        /\ keyRow'[k] = r /\ (\A j \in Keys \ {k} : keyRow'[j] = keyRow[j]) /\ keyRow' \in [Keys -> EncryptionKey]
        /\ made'[k] = n /\ (\A j \in Keys \ {k} : made'[j] = made[j]) /\ made' \in [Keys -> Versions]
    BY <1>3, <2>1, <2>2, <2>3, KeyTypes DEF Versions
  <2>5. due' \in Seq(Keys) /\ \A j \in DOMAIN due' : \E m \in DOMAIN due : due'[j] = due[m]
    <3>1. CASE Contains(due, k)
      <4> DEFINE i == CHOOSE i \in DOMAIN due : due[i] = k
      <4>1. \E j \in DOMAIN due : due[j] = k
        BY <3>1, KeyTypes DEF Contains
      <4>2. i \in DOMAIN due
        BY <4>1
      <4>3. due' = RemoveAt(due, i)
        BY <1>3, <3>1
      <4> HIDE DEF i
      <4> QED
        BY <4>2, <4>3, KeyTypes, RemovedKeys
    <3>2. CASE ~Contains(due, k)
      BY <1>3, <3>2, KeyTypes
    <3> QED
      BY <3>1, <3>2
  <2>6. \A j \in Keys : keyRow[j].status # "none" => keyRow'[j].status # "none"
    BY <2>2, <2>4
  <2>7. (\A i \in DOMAIN due : keyRow[due[i]].status # "none")'
    <3> SUFFICES ASSUME NEW j \in DOMAIN due' PROVE keyRow'[due'[j]].status # "none"
      OBVIOUS
    <3>1. PICK m \in DOMAIN due : due'[j] = due[m]
      BY <2>5
    <3>2. due[m] \in Keys /\ keyRow[due[m]].status # "none"
      BY KeyTypes DEF KeyInv
    <3> QED
      BY <2>6, <3>1, <3>2
  <2>8. KeyTypeOK'
    BY <1>1, <1>3, <2>4, <2>5, KeyTypes DEF KeyTypeOK
  <2>9. KeyForm(g)
    BY <1>0, <2>3 DEF KeyForm
  <2>10. (\A d \in KeyCalls : KeyForm(keyCall[d]))'
    <3>1. \A d \in KeyCalls : KeyForm(keyCall'[d])
      BY <2>4, <2>9 DEF KeyInv
    <3> QED
      BY <3>1 DEF KeyForm
  <2>11. /\ isRunning' <=> keyCall'[RotationJob].pc # "idle"
         /\ keyCall'[RotationJob].pc \notin {"fetch", "use", "mismatch"}
    BY <1>0, <1>3, <2>3, <2>4, KeysAssumption DEF KeyInv
  <2>12. ASSUME ~May("overlap") PROVE OneRotation' /\ VersionsCount'
    <3>0. OneRotation /\ VersionsCount
      BY <2>12 DEF KeyInv
    <3>1. OneRotation'
      BY <2>3, <2>4, <3>0 DEF OneRotation
    <3>2. keyCall[c].read.version = keyRow[k].version /\ v = n
      BY <1>0, <1>k, <2>1, <3>0 DEF VersionsCount, KeyHolds, n
    <3>3. \A j \in Keys : /\ keyRow'[j].version = made'[j] /\ keyRow'[j].material = made'[j]
                          /\ keyRow'[j].status = "none" => made'[j] = 0
                          /\ cache'[j] # None => cache'[j].version = cache'[j].material
      BY <1>1, <2>2, <2>4, <3>0, <3>2 DEF VersionsCount
    <3>4. ASSUME NEW d \in KeyCalls PROVE KeyHolds(keyCall[d])'
      <4>1. CASE d = c
        BY <1>0, <2>3, <2>4, <3>0, <4>1 DEF VersionsCount, KeyHolds, KeyForm
      <4>2. CASE d # c
        <5>1. keyCall'[d] = keyCall[d] /\ KeyHolds(keyCall[d]) /\ KeyForm(keyCall[d])
          BY <2>4, <3>0, <4>2 DEF VersionsCount, KeyInv
        <5>2. keyCall[d].pc \in {"row", "write"} => keyCall[d].key \in Keys \ {k}
          BY <1>0, <1>k, <3>0, <4>2, <5>1 DEF OneRotation, KeyForm
        <5> QED
          BY <2>4, <5>1, <5>2 DEF KeyHolds
      <4> QED
        BY <4>1, <4>2
    <3>5. \A s \in sealed' : s.version = s.material
      BY <1>1, <3>0 DEF VersionsCount
    <3> QED
      BY <3>1, <3>3, <3>4, <3>5 DEF VersionsCount
  <2>13. May("overlap")' <=> May("overlap")
    BY DEF May
  <2> QED
    BY <2>7, <2>8, <2>10, <2>11, <2>12, <2>13 DEF KeyInv
<1> QED
  BY <1>1, <1>2, <1>3

\* The steps that no request takes.
LEMMA KeyTablesKeep ==
    ASSUME KeyInv, UNCHANGED allowed,
           \/ \E k \in Keys : GenerateKey(k) \/ DestroyKey(k) \/ KeyFallsDue(k) \/ CacheExpires(k)
           \/ /\ \E x \in Certs : \/ ImportCertificate(x) \/ RevokeCertificate(x)
                                  \/ InitiateCertificateRenewal(x) \/ NotAfterPasses(x)
              /\ UNCHANGED <<keyRow, made, due, rotations, cache, sealed, keyCall, isRunning>>
    PROVE  KeyInv'
<1>0. /\ UNCHANGED <<keyCall, isRunning, rotations, sealed>> /\ (May("overlap")' <=> May("overlap"))
  BY DEF GenerateKey, DestroyKey, KeyFallsDue, CacheExpires, unchangedCrypto, May
<1>1. /\ (\A c \in KeyCalls : KeyForm(keyCall[c]))'
      /\ (isRunning <=> keyCall[RotationJob].pc # "idle")'
      /\ (keyCall[RotationJob].pc \notin {"fetch", "use", "mismatch"})'
      /\ ~May("overlap") => OneRotation'
  BY <1>0 DEF KeyInv, KeyForm, OneRotation
<1>2. ASSUME keyRow' \in [Keys -> EncryptionKey], made' \in [Keys -> Versions], due' \in Seq(Keys),
             cache' \in [Keys -> DecryptedKey \cup {None}], certificate' \in [Certs -> Certificate],
             \A i \in DOMAIN due' : keyRow'[due'[i]].status # "none",
             \A k \in Keys : keyRow[k].status # "none" => keyRow'[k].status # "none" /\ keyRow'[k].version = keyRow[k].version,
             ~May("overlap") => \A k \in Keys :
                /\ keyRow'[k].version = made'[k] /\ keyRow'[k].material = made'[k]
                /\ keyRow'[k].status = "none" => made'[k] = 0
                /\ cache'[k] # None => cache'[k].version = cache'[k].material
      PROVE  KeyInv'
  <2>1. KeyTypeOK'
    BY <1>0, <1>2, KeyTypes DEF KeyTypeOK
  <2>2. ASSUME ~May("overlap") PROVE VersionsCount'
    <3>1. ASSUME NEW c \in KeyCalls PROVE KeyHolds(keyCall[c])'
      <4>1. KeyHolds(keyCall[c]) /\ KeyForm(keyCall[c])
        BY <2>2, KeyFacts DEF KeyInv
      <4>2. keyCall[c].pc \in {"row", "write"} => keyCall[c].key \in Keys
        BY <4>1 DEF KeyForm
      <4> QED
        BY <1>0, <1>2, <4>1, <4>2 DEF KeyHolds
    <3> QED
      BY <1>0, <1>2, <2>2, <3>1, KeyFacts DEF VersionsCount
  <2> QED
    BY <1>0, <1>1, <1>2, <2>1, <2>2 DEF KeyInv
<1>3. /\ \A i \in DOMAIN due : due[i] \in Keys /\ keyRow[due[i]].status # "none"
      /\ ~May("overlap") => \A k \in Keys :
                /\ keyRow[k].version = made[k] /\ keyRow[k].material = made[k]
                /\ keyRow[k].status = "none" => made[k] = 0
                /\ cache[k] # None => cache[k].version = cache[k].material
  BY KeyTypes DEF KeyInv, VersionsCount
<1>4. ASSUME NEW k \in Keys, GenerateKey(k) PROVE KeyInv'
  <2> DEFINE r == [status |-> "active", version |-> 1, material |-> 1]
  <2>1. /\ keyRow[k].status = "none" /\ keyRow' = [keyRow EXCEPT ![k] = r] /\ made' = [made EXCEPT ![k] = 1]
        /\ UNCHANGED <<due, cache, certificate>>
    BY <1>4 DEF GenerateKey
  <2>2. r \in EncryptionKey /\ r.status = "active" /\ r.version = 1 /\ r.material = 1
    BY DEF EncryptionKey, Versions
  <2> HIDE DEF r
  <2>3. /\ keyRow'[k] = r /\ (\A j \in Keys \ {k} : keyRow'[j] = keyRow[j]) /\ keyRow' \in [Keys -> EncryptionKey]
        /\ made'[k] = 1 /\ (\A j \in Keys \ {k} : made'[j] = made[j]) /\ made' \in [Keys -> Versions]
    BY <2>1, <2>2, KeyTypes DEF Versions
  <2>4. \A i \in DOMAIN due' : keyRow'[due'[i]].status # "none"
    BY <1>3, <2>1, <2>2, <2>3
  <2>5. ~May("overlap") => \A j \in Keys :
                /\ keyRow'[j].version = made'[j] /\ keyRow'[j].material = made'[j]
                /\ keyRow'[j].status = "none" => made'[j] = 0
                /\ cache'[j] # None => cache'[j].version = cache'[j].material
    BY <1>3, <2>1, <2>2, <2>3
  <2> QED
    BY <1>2, <2>1, <2>2, <2>3, <2>4, <2>5, KeyTypes
<1>5. ASSUME NEW k \in Keys, DestroyKey(k) PROVE KeyInv'
  <2> DEFINE r == [keyRow[k] EXCEPT !.status = "destroyed"]
  <2>1. keyRow[k].status = "active" /\ keyRow' = [keyRow EXCEPT ![k] = r] /\ UNCHANGED <<made, due, cache, certificate>>
    BY <1>5 DEF DestroyKey, unchangedCrypto
  <2>2. /\ r \in EncryptionKey /\ r.status = "destroyed"
        /\ r.version = keyRow[k].version /\ r.material = keyRow[k].material
    BY KeyTypes DEF EncryptionKey
  <2> HIDE DEF r
  <2>3. keyRow'[k] = r /\ (\A j \in Keys \ {k} : keyRow'[j] = keyRow[j]) /\ keyRow' \in [Keys -> EncryptionKey]
    BY <2>1, <2>2, KeyTypes
  <2>4. \A i \in DOMAIN due' : keyRow'[due'[i]].status # "none"
    BY <1>3, <2>1, <2>2, <2>3
  <2>5. ~May("overlap") => \A j \in Keys :
                /\ keyRow'[j].version = made'[j] /\ keyRow'[j].material = made'[j]
                /\ keyRow'[j].status = "none" => made'[j] = 0
                /\ cache'[j] # None => cache'[j].version = cache'[j].material
    BY <1>3, <2>1, <2>2, <2>3
  <2> QED
    BY <1>2, <2>1, <2>2, <2>3, <2>4, <2>5, KeyTypes
<1>6. ASSUME NEW k \in Keys, KeyFallsDue(k) PROVE KeyInv'
  <2>1. keyRow[k].status = "active" /\ due' = Append(due, k) /\ UNCHANGED <<keyRow, made, cache, certificate>>
    BY <1>6 DEF KeyFallsDue
  <2>2. /\ due' \in Seq(Keys) /\ Len(due') = Len(due) + 1 /\ Len(due) \in Nat
        /\ \A i \in 1..Len(due') : due'[i] = IF i = Len(due) + 1 THEN k ELSE due[i]
    BY <2>1, KeyTypes
  <2>3. \A i \in DOMAIN due' : keyRow'[due'[i]].status # "none"
    <3> SUFFICES ASSUME NEW i \in 1..Len(due') PROVE keyRow[due'[i]].status # "none"
      BY <2>1, <2>2
    <3>1. CASE i = Len(due) + 1
      BY <2>1, <2>2, <3>1
    <3>2. CASE i # Len(due) + 1
      <4>1. i \in DOMAIN due
        BY <2>2, <3>2, KeyTypes
      <4> QED
        BY <1>3, <2>2, <3>2, <4>1
    <3> QED
      BY <3>1, <3>2
  <2> QED
    BY <1>2, <1>3, <2>1, <2>2, <2>3, KeyTypes
<1>7. ASSUME NEW k \in Keys, CacheExpires(k) PROVE KeyInv'
  <2>1. cache' = [cache EXCEPT ![k] = None] /\ UNCHANGED <<keyRow, made, due, certificate>>
    BY <1>7 DEF CacheExpires, unchangedCrypto
  <2> QED
    BY <1>2, <1>3, <2>1, KeyTypes
<1>8. ASSUME NEW x \in Certs, UNCHANGED <<keyRow, made, due, cache>>,
             ImportCertificate(x) \/ RevokeCertificate(x) \/ InitiateCertificateRenewal(x) \/ NotAfterPasses(x)
      PROVE  KeyInv'
  <2>1. certificate[x] \in Certificate
    BY KeyTypes
  <2>2. CASE ImportCertificate(x)
    <3>1. certificate' = [certificate EXCEPT ![x].status = "active"]
      BY <2>2 DEF ImportCertificate
    <3>2. certificate' \in [Certs -> Certificate]
      BY <3>1, KeyTypes DEF Certificate
    <3> QED
      BY <1>2, <1>3, <1>8, <3>2, KeyTypes
  <2>3. CASE RevokeCertificate(x)
    <3> DEFINE r == [certificate[x] EXCEPT !.status = "revoked"]
    <3>1. certificate' = [certificate EXCEPT ![x] = Touched(r)]
      BY <2>3 DEF RevokeCertificate
    <3>2. r \in Certificate /\ r.status = "revoked"
      BY <2>1 DEF Certificate
    <3> HIDE DEF r
    <3>3. Touched(r) = r
      BY <3>2 DEF Touched
    <3>4. certificate' \in [Certs -> Certificate]
      BY <3>1, <3>2, <3>3, KeyTypes
    <3> QED
      BY <1>2, <1>3, <1>8, <3>4, KeyTypes
  <2>4. CASE InitiateCertificateRenewal(x)
    <3>1. certificate' = [certificate EXCEPT ![x].renewals = certificate[x].renewals + 1] /\ certificate[x].renewals < 2
      BY <2>4 DEF InitiateCertificateRenewal
    <3>2. certificate' \in [Certs -> Certificate]
      BY <2>1, <3>1, KeyTypes DEF Certificate
    <3> QED
      BY <1>2, <1>3, <1>8, <3>2, KeyTypes
  <2>5. CASE NotAfterPasses(x)
    <3>1. certificate' = [certificate EXCEPT ![x].over = TRUE]
      BY <2>5 DEF NotAfterPasses
    <3>2. certificate' \in [Certs -> Certificate]
      BY <3>1, KeyTypes DEF Certificate
    <3> QED
      BY <1>2, <1>3, <1>8, <3>2, KeyTypes
  <2> QED
    BY <1>8, <2>2, <2>3, <2>4, <2>5
<1> QED
  BY <1>4, <1>5, <1>6, <1>7, <1>8

\* The death of the backend empties the cache and ends the calls.
LEMMA KeyBackendDiesKeeps == ASSUME KeyInv, UNCHANGED allowed, KeyBackendDies PROVE KeyInv'
<1>0. /\ cache' = [k \in Keys |-> None] /\ isRunning' = FALSE /\ keyCall' = [c \in KeyCalls |-> IdleKeyCall]
      /\ UNCHANGED <<keyRow, made, due, rotations, sealed, certificate>>
  BY DEF KeyBackendDies, unchangedCrypto
<1>1. KeyTypeOK'
  BY <1>0, IdleKeyForm, KeyTypes DEF KeyTypeOK
<1>2. \A c \in KeyCalls : keyCall'[c] = IdleKeyCall
  BY <1>0
<1>3. (\A c \in KeyCalls : KeyForm(keyCall[c]))'
  <2>1. \A c \in KeyCalls : KeyForm(keyCall'[c])
    BY <1>2, IdleKeyForm
  <2> QED
    BY <2>1 DEF KeyForm
<1>4. (\A c \in KeyCalls : KeyHolds(keyCall[c]))'
  <2>1. \A c \in KeyCalls : KeyHolds(keyCall'[c])
    BY <1>2, IdleKeyForm
  <2> QED
    BY <1>0, <2>1 DEF KeyHolds
<1>5. OneRotation'
  BY <1>2, IdleKeyForm, KeysAssumption DEF OneRotation
<1>6. ~May("overlap") => VersionsCount'
  BY <1>0, <1>4 DEF KeyInv, VersionsCount
<1> QED
  BY <1>0, <1>1, <1>2, <1>3, <1>5, <1>6, IdleKeyForm, KeysAssumption DEF KeyInv, May

\* Every step of keys and certificates keeps the invariant.
LEMMA KeysKeep == ASSUME KeyInv, UNCHANGED allowed, KeyNext PROVE KeyInv'
<1>1. ASSUME NEW c \in KeyCalls, KeyCallStep(c) PROVE KeyInv'
  BY <1>1, RotationsKeep, UpdateKeyKeeps, FetchAndUseKeep DEF KeyCallStep
<1>2. ASSUME NEW c \in KeyCalls, NEW k \in Keys, RotateKey(c, k) \/ Encrypt(c, k) PROVE KeyInv'
  BY <1>2, RotationsKeep, SealAndOpenKeep
<1>3. ASSUME NEW c \in KeyCalls, NEW s \in sealed, Decrypt(c, s, s.version) \/ Decrypt(c, s, 0) PROVE KeyInv'
  BY <1>3, SealAndOpenKeep
<1> QED
  BY <1>1, <1>2, <1>3, RotationJobKeeps, KeyTablesKeep, KeyBackendDiesKeeps DEF KeyNext

\* So does a step of something else.
LEMMA KeysRest == ASSUME KeyInv, UNCHANGED allowed, UNCHANGED keyVars PROVE KeyInv'
<1>1. UNCHANGED <<keyRow, made, due, rotations, cache, sealed, keyCall, isRunning, certificate>>
  BY DEF keyVars
<1>2. KeyTypeOK' /\ (\A c \in KeyCalls : KeyForm(keyCall[c]))'
  BY <1>1 DEF KeyInv, KeyTypeOK, KeyForm
<1>3. ~May("overlap") => OneRotation' /\ VersionsCount'
  BY <1>1 DEF KeyInv, OneRotation, VersionsCount, KeyHolds
<1> QED
  BY <1>1, <1>2, <1>3 DEF KeyInv, May

-----------------------------------------------------------------------------
(* Incidents, evidence and cases.                                                                *)

\* What a request carries, and where it may stand.
IncForm(m) ==
    /\ m.pc = "idle" <=> m.kind = None
    /\ m.kind = "create" => /\ m.pc \in {"number", "insert", "event", "team", "commander"}
                            /\ m.pc # "number" => m.on \in Numbers
                            /\ m.pc \in {"team", "commander"} => m.urgent
    /\ m.kind \in Amendments => m.on \in Numbers /\ m.pc \in {"read", "write", "event", "comm"}
    /\ m.pc = "comm" => m.kind = "pta"
    /\ m.kind = "indicators" => m.pc = "read"
    /\ m.kind = "status" => /\ m.arg \in IncidentStatus
                            /\ m.pc \in {"write", "event"} => m.status \in IncidentStatus
    /\ m.kind = "items" => m.arg \in Items /\ (m.pc = "write" => m.listed \subseteq Items)
    /\ m.kind = "collect" => m.on \in Evidence /\ m.pc \in {"write", "custody"}
    /\ m.kind \in {"verify", "transfer"} => m.on \in Evidence /\ m.pc \in {"read", "write"}
    /\ m.kind = "activity" => m.on \in Evidence /\ m.pc \in {"write", "mark"}
    /\ m.kind = "list" => /\ m.on \in Cases /\ m.arg \in Evidence /\ m.pc \in {"read", "write"}
                          /\ m.pc = "write" => m.listed \subseteq Evidence
    /\ m.kind = "move" => m.on \in Cases /\ m.arg \in ForensicStatus /\ m.pc \in {"read", "write"}

\* What does not overlap, unless overlaps are considered; a piece is collected by one request.
Serial == ~May("overlap")
Crosses(k, m) ==
    /\ k.on = m.on
    /\ \/ k.kind = m.kind /\ k.kind = "collect"
       \/ Serial /\ k.kind = m.kind /\ k.kind \in Amendments \cup Examinations
       \/ Serial /\ k.kind = "verify" /\ m.kind = "transfer"
       \/ Serial /\ k.kind = "transfer" /\ m.kind = "verify"
ApartAll == \A c, d \in IncidentCalls : c # d => ~Crosses(incCall[c], incCall[d])

\* What a request has read of an incident still holds when it writes; the status it was checked
\* on, and the list, where no request of its kind overlaps it.
KnowsIncident(m) ==
    /\ m.kind \in Amendments /\ m.pc \in {"write", "event"} => incident[m.on].status # None
    /\ m.kind = "create" /\ m.pc \in {"event", "team", "commander"} =>
          incident[m.on].status # None /\ (incident[m.on].urgent <=> m.urgent)
    /\ Serial /\ m.kind = "status" /\ m.pc = "write" =>
          m.status = incident[m.on].status /\ m.arg \in ValidTransitions[m.status]
    /\ Serial /\ m.kind = "status" /\ m.pc = "event" => m.arg = incident[m.on].status
    /\ Serial /\ m.kind = "escalate" /\ m.pc = "write" => m.level > incident[m.on].level
    /\ Serial /\ m.kind = "items" /\ m.pc = "write" => m.listed = incident[m.on].items
    /\ CalmIncidents /\ Serial /\ m.kind = "status" /\ m.pc = "event" => m.status = timeline[m.on].last
\* And of evidence and cases.
KnowsEvidence(m) ==
    /\ m.kind = "collect" /\ m.pc = "write" => ~evidence[m.on].exists
    /\ m.kind \in {"verify", "transfer"} /\ m.pc = "write" => evidence[m.on].exists
    /\ Serial /\ m.kind = "transfer" /\ m.pc = "write" => (m.verified <=> evidence[m.on].verified)
    /\ m.kind = "activity" /\ m.pc = "mark" => evidence[m.on].activity # "none"
    /\ m.kind = "list" /\ m.pc = "write" => /\ case[m.on].status # None
                                            /\ Serial => m.listed = case[m.on].listed
    /\ m.kind = "move" /\ m.pc = "write" => case[m.on].status # None

Telling(m, n) == m.kind = "status" /\ m.on = n /\ m.pc = "event"
Commanding(m, n) == m.kind = "create" /\ m.on = n /\ m.pc \in {"event", "team", "commander"}
IncidentsHold ==
    /\ \A n \in Numbers :
          /\ incident[n].status = None => incident[n].items = {} /\ timeline[n].last = "DETECTED"
          /\ CalmIncidents /\ Serial => ~timeline[n].gap
          /\ CalmIncidents /\ Serial /\ incident[n].status # None =>
                \/ timeline[n].last = incident[n].status
                \/ \E c \in IncidentCalls : Telling(incCall[c], n)
          /\ CalmIncidents /\ ~May("unstaffed") /\ incident[n].status # None /\ incident[n].urgent =>
                \/ incident[n].commander
                \/ \E c \in IncidentCalls : Commanding(incCall[c], n)
    /\ Serial => \A t \in added : \E n \in Numbers : t \in incident[n].items
Starting(m, e) == m.kind = "collect" /\ m.on = e /\ m.pc = "custody"
EvidenceHolds ==
    /\ \A e \in Evidence :
          /\ (Serial => ~evidence[e].untold) /\ (evidence[e].analyzed => evidence[e].activity # "none")
          /\ CalmIncidents /\ evidence[e].exists =>
                evidence[e].started \/ \E c \in IncidentCalls : Starting(incCall[c], e)
    /\ Serial => \A f \in Cases : case[f].taken \subseteq case[f].listed

IncInv ==
    /\ IncidentTypeOK /\ (\A c \in IncidentCalls : IncForm(incCall[c])) /\ ApartAll
    /\ \A c \in IncidentCalls : KnowsIncident(incCall[c]) /\ KnowsEvidence(incCall[c])
    /\ IncidentsHold /\ EvidenceHolds
IncidentSafety4 == TimelineIsComplete /\ UrgentIsCommanded /\ NothingAddedIsLost /\ CustodyIsTrue
\* The invariant of incidents and forensics implies what the run checks of them.
LEMMA IncidentsSafe == IncInv => IncidentSafety4
<1> SUFFICES ASSUME IncInv PROVE IncidentSafety4
  OBVIOUS
<1>1. TimelineIsComplete
  BY DEF IncInv, IncidentsHold, TimelineIsComplete, Telling, Serial
<1>2. UrgentIsCommanded
  <2> SUFFICES ASSUME CalmIncidents, ~May("unstaffed"), NEW n \in Numbers, incident[n].status # None, incident[n].urgent,
                      \A c \in IncidentCalls : ~(incCall[c].kind = "create" /\ incCall[c].on = n)
               PROVE  incident[n].commander
    BY DEF UrgentIsCommanded
  <2>1. \A c \in IncidentCalls : ~Commanding(incCall[c], n)
    BY DEF Commanding
  <2> QED
    BY <2>1 DEF IncInv, IncidentsHold
<1>3. NothingAddedIsLost
  BY DEF IncInv, IncidentsHold, EvidenceHolds, NothingAddedIsLost, Serial
<1>4. CustodyIsTrue
  <2> SUFFICES ASSUME NEW e \in Evidence
               PROVE  /\ Serial => ~evidence[e].untold
                      /\ evidence[e].analyzed => evidence[e].activity # "none"
                      /\ CalmIncidents /\ evidence[e].exists /\ Apart("collect", e) => evidence[e].started
    BY DEF CustodyIsTrue, Serial
  <2>1. Apart("collect", e) => \A c \in IncidentCalls : ~Starting(incCall[c], e)
    BY DEF Apart, Starting
  <2> QED
    BY <2>1 DEF IncInv, EvidenceHolds
<1> QED
  BY <1>1, <1>2, <1>3, <1>4 DEF IncidentSafety4

\* A request that ended holds nothing.
LEMMA IdleIncForm ==
    /\ IdleIncCall \in IncidentCall /\ IdleIncCall.pc = "idle" /\ IdleIncCall.kind = None
    /\ IncForm(IdleIncCall) /\ KnowsIncident(IdleIncCall) /\ KnowsEvidence(IdleIncCall)
<1>1. IdleIncCall \in IncidentCall /\ IdleIncCall.pc = "idle" /\ IdleIncCall.kind = None
  BY IncidentsAssumption DEF IdleIncCall, IncidentCall
<1> QED
  BY <1>1, IncidentsAssumption DEF IncForm, KnowsIncident, KnowsEvidence, Amendments, Examinations

\* At the start there are no incidents, no evidence and no cases.
LEMMA IncidentInitHolds == IncidentInit => IncInv
<1> SUFFICES ASSUME IncidentInit PROVE IncInv
  OBVIOUS
<1>1. \A c \in IncidentCalls : incCall[c] = IdleIncCall
  BY DEF IncidentInit
<1>2. NoIncident \in SecurityIncident /\ NoIncident.status = None /\ NoIncident.items = {}
  BY IncidentsAssumption DEF NoIncident, SecurityIncident
<1>3. /\ NoEvidence \in DigitalEvidence /\ ~NoEvidence.untold /\ ~NoEvidence.analyzed /\ ~NoEvidence.exists
  BY DEF NoEvidence, DigitalEvidence
<1>4. IncidentTypeOK
  <2>1. timeline \in [Numbers -> IncidentTimeline] /\ case \in [Cases -> ForensicCase]
    BY DEF IncidentInit, IncidentTimeline, IncidentStatus, ForensicCase
  <2> QED
    BY <1>2, <1>3, <2>1, IdleIncForm DEF IncidentInit, IncidentTypeOK
<1>5. ApartAll
  BY <1>1, IdleIncForm, IncidentsAssumption DEF ApartAll, Crosses, Amendments, Examinations
<1>6. IncidentsHold /\ EvidenceHolds
  BY <1>2, <1>3 DEF IncidentInit, IncidentsHold, EvidenceHolds
<1> QED
  BY <1>1, <1>4, <1>5, <1>6, IdleIncForm DEF IncInv

\* The types of the tables.
LEMMA IncTypes ==
    ASSUME IncInv
    PROVE  /\ incident \in [Numbers -> SecurityIncident] /\ timeline \in [Numbers -> IncidentTimeline]
           /\ informed \subseteq Numbers /\ added \subseteq Items
           /\ evidence \in [Evidence -> DigitalEvidence] /\ case \in [Cases -> ForensicCase]
           /\ incCall \in [IncidentCalls -> IncidentCall]
BY DEF IncInv, IncidentTypeOK

\* What a request still stands for: a status to be told, a commander, a chain to be begun.
Tells3(m, g) ==
    /\ CalmIncidents => \A n \in Numbers : Telling(m, n) => Telling(g, n)
    /\ CalmIncidents /\ ~May("unstaffed") => \A n \in Numbers :
          Commanding(m, n) /\ incident[n].urgent => Commanding(g, n)
Starts3(m, g) == CalmIncidents => \A e \in Evidence : Starting(m, e) => Starting(g, e)

\* A request moves: what is known of the other half of the service stays.
LEMMA IncMoves ==
    ASSUME IncInv, UNCHANGED allowed, NEW c \in IncidentCalls, NEW g \in IncidentCall,
           incCall' = [incCall EXCEPT ![c] = g], IncForm(g),
           \/ g.kind = None
           \/ g.kind = incCall[c].kind /\ (g.on = incCall[c].on \/ g.kind = "create")
           \/ \A d \in IncidentCalls \ {c} : ~Crosses(g, incCall[d]) /\ ~Crosses(incCall[d], g),
           incident' \in [Numbers -> SecurityIncident], timeline' \in [Numbers -> IncidentTimeline],
           informed' \subseteq Numbers, added' \subseteq Items,
           evidence' \in [Evidence -> DigitalEvidence], case' \in [Cases -> ForensicCase],
           \/ (\A d \in IncidentCalls : KnowsIncident(incCall[d]))' /\ IncidentsHold'
           \/ UNCHANGED <<incident, timeline, added>> /\ KnowsIncident(g) /\ Tells3(incCall[c], g),
           \/ (\A d \in IncidentCalls : KnowsEvidence(incCall[d]))' /\ EvidenceHolds'
           \/ UNCHANGED <<evidence, case>> /\ KnowsEvidence(g) /\ Starts3(incCall[c], g)
    PROVE  IncInv'
<1>0. /\ incCall \in [IncidentCalls -> IncidentCall] /\ incCall'[c] = g
      /\ \A d \in IncidentCalls \ {c} : incCall'[d] = incCall[d]
  BY IncTypes
<1>1. IncidentTypeOK'
  BY <1>0 DEF IncidentTypeOK
<1>2. (\A d \in IncidentCalls : IncForm(incCall[d]))'
  <2>1. \A d \in IncidentCalls : IncForm(incCall'[d])
    BY <1>0 DEF IncInv
  <2> QED
    BY <2>1 DEF IncForm
<1>3. ApartAll'
  BY <1>0, IncidentsAssumption DEF IncInv, ApartAll, Crosses, Amendments, Examinations, Serial, May
<1>4. (\A d \in IncidentCalls : KnowsIncident(incCall[d]))' /\ IncidentsHold'
  <2> SUFFICES ASSUME UNCHANGED <<incident, timeline, added>>, KnowsIncident(g), Tells3(incCall[c], g)
               PROVE  (\A d \in IncidentCalls : KnowsIncident(incCall[d]))' /\ IncidentsHold'
    OBVIOUS
  <2>1. \A d \in IncidentCalls : KnowsIncident(incCall'[d])
    BY <1>0 DEF IncInv
  <2>2. UNCHANGED CalmIncidents /\ UNCHANGED May("unstaffed") /\ UNCHANGED Serial
    BY Zenon DEF Serial, CalmIncidents, IncWritesFail, IncReadsFail, May
  <2>3. (\A d \in IncidentCalls : KnowsIncident(incCall[d]))'
    <3> SUFFICES ASSUME NEW d \in IncidentCalls PROVE KnowsIncident(incCall[d])'
      OBVIOUS
    <3>1. KnowsIncident(incCall'[d])
      BY <2>1
    <3>2. (CalmIncidents' <=> CalmIncidents) /\ (Serial' <=> Serial)
      BY <2>2
    <3> QED
      BY <3>1, <3>2, Zenon DEF KnowsIncident
  <2>4. ASSUME CalmIncidents, NEW n \in Numbers, NEW d \in IncidentCalls, Telling(incCall[d], n)
        PROVE  \E b \in IncidentCalls : Telling(incCall'[b], n)
    BY <1>0, <2>4 DEF Tells3
  <2>5. ASSUME CalmIncidents, ~May("unstaffed"), NEW n \in Numbers, incident[n].urgent, NEW d \in IncidentCalls,
               Commanding(incCall[d], n)
        PROVE  \E b \in IncidentCalls : Commanding(incCall'[b], n)
    BY <1>0, <2>5 DEF Tells3
  <2>6. ASSUME NEW n \in Numbers
        PROVE  /\ incident[n].status = None => incident[n].items = {} /\ timeline[n].last = "DETECTED"
               /\ CalmIncidents /\ Serial => ~timeline[n].gap
               /\ CalmIncidents /\ Serial /\ incident[n].status # None =>
                     \/ timeline[n].last = incident[n].status
                     \/ \E d \in IncidentCalls : Telling(incCall'[d], n)
               /\ CalmIncidents /\ ~May("unstaffed") /\ incident[n].status # None /\ incident[n].urgent =>
                     \/ incident[n].commander
                     \/ \E d \in IncidentCalls : Commanding(incCall'[d], n)
    BY <2>4, <2>5 DEF IncInv, IncidentsHold
  <2>7. \A d \in IncidentCalls, n \in Numbers : /\ Telling(incCall[d], n)' <=> Telling(incCall'[d], n)
                                                /\ Commanding(incCall[d], n)' <=> Commanding(incCall'[d], n)
    BY DEF Telling, Commanding
  <2>8. Serial => \A t \in added : \E n \in Numbers : t \in incident[n].items
    BY DEF IncInv, IncidentsHold
  <2> QED
    BY <2>2, <2>3, <2>6, <2>7, <2>8 DEF IncidentsHold
<1>5. (\A d \in IncidentCalls : KnowsEvidence(incCall[d]))' /\ EvidenceHolds'
  <2> SUFFICES ASSUME UNCHANGED <<evidence, case>>, KnowsEvidence(g), Starts3(incCall[c], g)
               PROVE  (\A d \in IncidentCalls : KnowsEvidence(incCall[d]))' /\ EvidenceHolds'
    OBVIOUS
  <2>1. \A d \in IncidentCalls : KnowsEvidence(incCall'[d])
    BY <1>0 DEF IncInv
  <2>2. UNCHANGED CalmIncidents /\ UNCHANGED Serial
    BY Zenon DEF Serial, CalmIncidents, IncWritesFail, IncReadsFail, May
  <2>3. (\A d \in IncidentCalls : KnowsEvidence(incCall[d]))'
    <3> SUFFICES ASSUME NEW d \in IncidentCalls PROVE KnowsEvidence(incCall[d])'
      OBVIOUS
    <3>1. KnowsEvidence(incCall'[d])
      BY <2>1
    <3>2. Serial' <=> Serial
      BY <2>2
    <3> QED
      BY <3>1, <3>2, Zenon DEF KnowsEvidence
  <2>4. ASSUME CalmIncidents, NEW e \in Evidence, NEW d \in IncidentCalls, Starting(incCall[d], e)
        PROVE  \E b \in IncidentCalls : Starting(incCall'[b], e)
    BY <1>0, <2>4 DEF Starts3
  <2>5. \A d \in IncidentCalls, e \in Evidence : Starting(incCall[d], e)' <=> Starting(incCall'[d], e)
    BY DEF Starting
  <2>6. \A e \in Evidence :
          /\ (Serial => ~evidence[e].untold) /\ (evidence[e].analyzed => evidence[e].activity # "none")
          /\ CalmIncidents /\ evidence[e].exists =>
                evidence[e].started \/ \E d \in IncidentCalls : Starting(incCall'[d], e)
    BY <2>4 DEF IncInv, EvidenceHolds
  <2>7. Serial => \A f \in Cases : case[f].taken \subseteq case[f].listed
    BY DEF IncInv, EvidenceHolds
  <2> QED
    BY <2>2, <2>3, <2>5, <2>6, <2>7 DEF EvidenceHolds
<1> QED
  BY <1>1, <1>2, <1>3, <1>4, <1>5 DEF IncInv

IncPlaces == {"idle", "number", "insert", "event", "team", "commander", "read",
              "write", "comm", "custody", "mark"}

\* A request that was idle takes a place where it crosses no other.
LEMMA IncBegins ==
    ASSUME IncInv, UNCHANGED allowed, NEW c \in IncidentCalls, NEW g \in IncidentCall,
           incCall[c].pc = "idle", incCall' = [incCall EXCEPT ![c] = g],
           IncForm(g), KnowsIncident(g), KnowsEvidence(g),
           \A d \in IncidentCalls \ {c} : ~Crosses(g, incCall[d]) /\ ~Crosses(incCall[d], g),
           UNCHANGED <<registerVars, forensicVars>>
    PROVE  IncInv'
<1>1. incCall[c].kind = None
  BY DEF IncInv, IncForm
<1>2. Tells3(incCall[c], g) /\ Starts3(incCall[c], g)
  BY <1>1, IncidentsAssumption DEF Tells3, Starts3, Telling, Commanding, Starting, Amendments, Examinations
<1> QED
  BY <1>2, IncMoves, IncTypes DEF registerVars, forensicVars

\* A request that reads or collects begins.
LEMMA BeginIncHolds ==
    ASSUME IncInv, UNCHANGED allowed, NEW c \in IncidentCalls,
           NEW kind \in Amendments \cup Examinations \cup {"indicators"}, NEW x \in Numbers \cup Evidence \cup Cases,
           NEW arg \in IncidentStatus \cup ForensicStatus \cup Items \cup Evidence \cup {None},
           NEW pc \in {"read", "write"}, BeginInc(c, kind, x, arg, pc),
           kind \in Amendments \cup {"indicators"} => x \in Numbers /\ pc = "read",
           kind = "status" => arg \in IncidentStatus, kind = "items" => arg \in Items,
           kind = "collect" => x \in Evidence /\ pc = "write" /\ ~evidence[x].exists,
           kind \in {"verify", "transfer"} => x \in Evidence /\ pc = "read",
           kind = "activity" => x \in Evidence /\ pc = "write",
           kind = "list" => x \in Cases /\ arg \in Evidence /\ pc = "read",
           kind = "move" => x \in Cases /\ arg \in ForensicStatus /\ pc = "read",
           kind = "collect" => Apart("collect", x),
           kind = "verify" => MayBegin("transfer", x), kind = "transfer" => MayBegin("verify", x)
    PROVE  IncInv'
<1> DEFINE h1 == [IdleIncCall EXCEPT !.kind = kind]
           h2 == [h1 EXCEPT !.on = x]
           h3 == [h2 EXCEPT !.arg = arg]
           g == [h3 EXCEPT !.pc = pc]
<1>1. incCall' = [incCall EXCEPT ![c] = g] /\ incCall[c].pc = "idle"
  BY DEF BeginInc, Idle
<1>2. /\ g \in IncidentCall
      /\ g.pc = pc /\ g.kind = kind /\ g.on = x /\ g.arg = arg
  <2>1. h1 \in IncidentCall /\ h1.kind = kind
    BY IdleIncForm DEF IncidentCall, Amendments, Examinations
  <2> HIDE DEF h1
  <2>2. h2 \in IncidentCall /\ h2.kind = kind /\ h2.on = x
    BY <2>1 DEF IncidentCall
  <2> HIDE DEF h2
  <2>3. h3 \in IncidentCall /\ h3.kind = kind /\ h3.on = x /\ h3.arg = arg
    BY <2>2 DEF IncidentCall
  <2> HIDE DEF h3
  <2> QED
    BY <2>3 DEF IncidentCall
<1> HIDE DEF g
<1>3. kind # None /\ kind # "create"
  BY IncidentsAssumption DEF Amendments, Examinations
<1>4. IncForm(g)
  BY <1>2, <1>3 DEF IncForm, Amendments, Examinations
<1>5. KnowsIncident(g) /\ KnowsEvidence(g)
  BY <1>2, <1>3 DEF KnowsIncident, KnowsEvidence, Amendments, Examinations
<1>6. \A d \in IncidentCalls \ {c} : ~Crosses(g, incCall[d]) /\ ~Crosses(incCall[d], g)
  BY <1>2 DEF Crosses, BeginInc, MayBegin, Apart, Serial
<1> QED
  BY <1>1, <1>2, <1>4, <1>5, <1>6, IncBegins DEF BeginInc

\* The creation of an incident begins.
LEMMA CreateIncidentHolds ==
    ASSUME IncInv, UNCHANGED allowed, NEW c \in IncidentCalls, NEW urgent \in BOOLEAN, CreateIncident(c, urgent)
    PROVE  IncInv'
<1> DEFINE m == incCall[c]
           g1 == [m EXCEPT !.kind = "create"]
           g2 == [g1 EXCEPT !.urgent = urgent]
           g == [g2 EXCEPT !.pc = "number"]
<1>0. m \in IncidentCall
  BY IncTypes
<1>1. incCall' = [incCall EXCEPT ![c] = g] /\ m.pc = "idle"
  BY <1>0, IncTypes DEF CreateIncident, Idle
<1> HIDE DEF m
<1>2. g1 \in IncidentCall /\ g1.kind = "create"
  BY <1>0 DEF IncidentCall
<1> HIDE DEF g1
<1>3. g2 \in IncidentCall /\ g2.kind = "create"
  BY <1>2 DEF IncidentCall
<1> HIDE DEF g2
<1>4. g \in IncidentCall /\ g.kind = "create" /\ g.pc = "number"
  BY <1>3 DEF IncidentCall
<1> HIDE DEF g
<1>5. IncForm(g) /\ KnowsIncident(g) /\ KnowsEvidence(g)
  BY <1>4, IncidentsAssumption DEF IncForm, KnowsIncident, KnowsEvidence, Amendments, Examinations
<1>6. \A d \in IncidentCalls \ {c} : ~Crosses(g, incCall[d]) /\ ~Crosses(incCall[d], g)
  BY <1>4 DEF Crosses, Amendments, Examinations
<1> QED
  BY <1>1, <1>4, <1>5, <1>6, IncBegins DEF CreateIncident, m

\* An escalation begins.
LEMMA EscalateIncidentHolds ==
    ASSUME IncInv, UNCHANGED allowed, NEW c \in IncidentCalls, NEW n \in Numbers, NEW level \in 1..MaxLevel,
           EscalateIncident(c, n, level)
    PROVE  IncInv'
<1> DEFINE h1 == [IdleIncCall EXCEPT !.kind = "escalate"]
           h2 == [h1 EXCEPT !.on = n]
           h3 == [h2 EXCEPT !.level = level]
           g == [h3 EXCEPT !.pc = "read"]
<1>1. incCall' = [incCall EXCEPT ![c] = g] /\ incCall[c].pc = "idle"
  BY DEF EscalateIncident, Idle
<1>2. /\ g \in IncidentCall
      /\ g.pc = "read" /\ g.kind = "escalate" /\ g.on = n
  <2>1. h1 \in IncidentCall /\ h1.kind = "escalate"
    BY IdleIncForm DEF IncidentCall, Amendments, Examinations
  <2> HIDE DEF h1
  <2>2. h2 \in IncidentCall /\ h2.kind = "escalate" /\ h2.on = n
    BY <2>1 DEF IncidentCall
  <2> HIDE DEF h2
  <2>3. h3 \in IncidentCall /\ h3.kind = "escalate" /\ h3.on = n
    BY <2>2 DEF IncidentCall
  <2> HIDE DEF h3
  <2> QED
    BY <2>3 DEF IncidentCall
<1> HIDE DEF g
<1>3. None # "escalate"
  BY IncidentsAssumption DEF Amendments
<1>4. IncForm(g)
  BY <1>2, <1>3 DEF IncForm, Amendments
<1>5. KnowsIncident(g) /\ KnowsEvidence(g)
  BY <1>2, <1>3 DEF KnowsIncident, KnowsEvidence
<1>6. \A d \in IncidentCalls \ {c} : ~Crosses(g, incCall[d]) /\ ~Crosses(incCall[d], g)
  BY <1>2 DEF Crosses, EscalateIncident, MayBegin, Apart, Serial
<1> QED
  BY <1>1, <1>2, <1>4, <1>5, <1>6, IncBegins DEF EscalateIncident

\* So does each kind of request.
LEMMA IncidentBegins ==
    ASSUME IncInv, UNCHANGED allowed, NEW c \in IncidentCalls,
           \/ \E urgent \in BOOLEAN : CreateIncident(c, urgent)
           \/ \E n \in Numbers :
                \/ \E s \in IncidentStatus : AmendIncident(c, "status", n, s)
                \/ \E l \in 1..MaxLevel : EscalateIncident(c, n, l)
                \/ AmendIncident(c, "assign", n, None) \/ AmendIncident(c, "pta", n, None)
                \/ AddIndicators(c, n) \/ \E t \in Items : AddItem(c, n, t)
           \/ \E e \in Evidence : \/ CollectEvidence(c, e) \/ AddForensicActivity(c, e)
                                  \/ Examine(c, "verify", e, None) \/ Examine(c, "transfer", e, None)
           \/ \E f \in Cases : \/ \E e \in Evidence : Examine(c, "list", f, e)
                               \/ \E s \in ForensicStatus : Examine(c, "move", f, s)
    PROVE  IncInv'
<1>1. ASSUME NEW urgent \in BOOLEAN, CreateIncident(c, urgent) PROVE IncInv'
  BY <1>1, CreateIncidentHolds
<1>2. ASSUME NEW n \in Numbers, NEW s \in IncidentStatus, AmendIncident(c, "status", n, s) PROVE IncInv'
  BY <1>2, BeginIncHolds DEF AmendIncident, Amendments
<1>3. ASSUME NEW n \in Numbers, NEW l \in 1..MaxLevel, EscalateIncident(c, n, l) PROVE IncInv'
  BY <1>3, EscalateIncidentHolds
<1>4. ASSUME NEW n \in Numbers, AmendIncident(c, "assign", n, None) PROVE IncInv'
  BY <1>4, BeginIncHolds DEF AmendIncident, Amendments
<1>5. ASSUME NEW n \in Numbers, AmendIncident(c, "pta", n, None) PROVE IncInv'
  BY <1>5, BeginIncHolds DEF AmendIncident, Amendments
<1>6. ASSUME NEW n \in Numbers, NEW t \in Items, AddItem(c, n, t) PROVE IncInv'
  BY <1>6, BeginIncHolds DEF AddItem, Amendments
<1>7. ASSUME NEW e \in Evidence, CollectEvidence(c, e) PROVE IncInv'
  BY <1>7, BeginIncHolds DEF CollectEvidence, Amendments, Examinations
<1>8. ASSUME NEW e \in Evidence, AddForensicActivity(c, e) PROVE IncInv'
  BY <1>8, BeginIncHolds DEF AddForensicActivity, Amendments, Examinations
<1>9. ASSUME NEW e \in Evidence, Examine(c, "verify", e, None) PROVE IncInv'
  BY <1>9, BeginIncHolds DEF Examine, Amendments, Examinations
<1>10. ASSUME NEW e \in Evidence, Examine(c, "transfer", e, None) PROVE IncInv'
  BY <1>10, BeginIncHolds DEF Examine, Amendments, Examinations
<1>11. ASSUME NEW f \in Cases, NEW e \in Evidence, Examine(c, "list", f, e) PROVE IncInv'
  BY <1>11, BeginIncHolds DEF Examine, Amendments, Examinations
<1>12. ASSUME NEW f \in Cases, NEW s \in ForensicStatus, Examine(c, "move", f, s) PROVE IncInv'
  BY <1>12, BeginIncHolds DEF Examine, Amendments, Examinations
<1>13. ASSUME NEW n \in Numbers, AddIndicators(c, n) PROVE IncInv'
  BY <1>13, BeginIncHolds DEF AddIndicators, Amendments, Examinations
<1> QED
  BY <1>1, <1>2, <1>3, <1>4, <1>5, <1>6, <1>7, <1>8, <1>9, <1>10, <1>11, <1>12, <1>13

\* A request at another place.
At(m, p) == [m EXCEPT !.pc = p]
\* What else a request holds stays.
LEMMA AtFields ==
    ASSUME NEW m \in IncidentCall, NEW p \in IncPlaces
    PROVE  /\ At(m, p) \in IncidentCall /\ At(m, p).pc = p /\ At(m, p).kind = m.kind
           /\ At(m, p).on = m.on /\ At(m, p).arg = m.arg /\ At(m, p).level = m.level
           /\ At(m, p).urgent = m.urgent /\ At(m, p).status = m.status
           /\ At(m, p).listed = m.listed /\ At(m, p).verified = m.verified
BY DEF At, IncidentCall, IncPlaces
\* What the invariant says of one request.
LEMMA IncCallMoves ==
    ASSUME IncInv, NEW c \in IncidentCalls
    PROVE  /\ incCall[c] \in IncidentCall /\ IncForm(incCall[c])
           /\ KnowsIncident(incCall[c]) /\ KnowsEvidence(incCall[c])
           /\ \A p : IncAt(c, p) => incCall' = [incCall EXCEPT ![c] = At(incCall[c], p)]
BY IncTypes DEF IncInv, IncAt, At

\* A request ends without a write.
LEMMA IncEndsHolds ==
    ASSUME IncInv, UNCHANGED allowed, NEW c \in IncidentCalls, IncEnds(c),
           UNCHANGED <<registerVars, forensicVars>>,
           Tells3(incCall[c], IdleIncCall), Starts3(incCall[c], IdleIncCall)
    PROVE  IncInv'
BY IncMoves, IncTypes, IdleIncForm DEF IncEnds, registerVars, forensicVars
\* Where something may fail, and in most places, a request that ends owes nothing.
LEMMA NothingLeft ==
    ASSUME NEW m, \/ ~CalmIncidents
                  \/ m.pc \notin {"event", "team", "commander", "custody"}
                  \/ m.pc = "team" /\ m.kind = "create" /\ May("unstaffed")
    PROVE  Tells3(m, IdleIncCall) /\ Starts3(m, IdleIncCall)
BY DEF Tells3, Starts3, Telling, Commanding, Starting

\* A request reads and goes on.
LEMMA IncGoesOn ==
    ASSUME IncInv, UNCHANGED allowed, NEW c \in IncidentCalls, NEW g \in IncidentCall,
           incCall' = [incCall EXCEPT ![c] = g],
           g.kind = incCall[c].kind, g.on = incCall[c].on \/ g.kind = "create",
           IncForm(g), KnowsIncident(g), KnowsEvidence(g),
           Tells3(incCall[c], g), Starts3(incCall[c], g),
           UNCHANGED <<registerVars, forensicVars>>
    PROVE  IncInv'
BY IncMoves, IncTypes DEF registerVars, forensicVars

\* A number is generated.
LEMMA GenerateIncidentNumberHolds ==
    ASSUME IncInv, UNCHANGED allowed, NEW c \in IncidentCalls, GenerateIncidentNumber(c)
    PROVE  IncInv'
<1> DEFINE m == incCall[c]
           n == Cardinality({k \in Numbers : incident[k].status # None}) + 1
<1>1. m.pc = "number" /\ m \in IncidentCall /\ IncForm(m)
  BY IncCallMoves DEF GenerateIncidentNumber
<1>2. CASE n \in Numbers
  <2> DEFINE g1 == [m EXCEPT !.pc = "insert"]
             g == [g1 EXCEPT !.on = n]
  <2>1. incCall' = [incCall EXCEPT ![c] = g]
    BY <1>2, IncTypes DEF GenerateIncidentNumber
  <2> HIDE DEF n, m
  <2>2. g1 \in IncidentCall /\ g1.pc = "insert" /\ g1.kind = m.kind
    BY <1>1 DEF IncidentCall
  <2> HIDE DEF g1
  <2>3. g \in IncidentCall /\ g.pc = "insert" /\ g.kind = m.kind /\ g.on = n
    BY <1>2, <2>2 DEF IncidentCall
  <2> HIDE DEF g
  <2>4. m.kind = "create"
    BY <1>1 DEF IncForm, IncidentCall, Amendments, Examinations
  <2>5. IncForm(g) /\ KnowsIncident(g) /\ KnowsEvidence(g)
    BY <1>2, <2>3, <2>4, IncidentsAssumption DEF IncForm, KnowsIncident, KnowsEvidence, Amendments, Examinations
  <2>6. Tells3(m, g) /\ Starts3(m, g)
    BY <1>1 DEF Tells3, Starts3, Telling, Commanding, Starting
  <2> QED
    BY <2>1, <2>3, <2>4, <2>5, <2>6, IncGoesOn DEF GenerateIncidentNumber, m
<1>3. CASE n \notin Numbers
  BY <1>1, <1>3, IncEndsHolds, NothingLeft DEF GenerateIncidentNumber
<1> QED
  BY <1>2, <1>3

\* The team on call is read.
LEMMA GetOnCallTeamHolds ==
    ASSUME IncInv, UNCHANGED allowed, NEW c \in IncidentCalls, GetOnCallTeam(c)
    PROVE  IncInv'
<1> DEFINE m == incCall[c]
<1>1. m.pc = "team" /\ m \in IncidentCall /\ IncForm(m) /\ KnowsIncident(m) /\ KnowsEvidence(m)
  BY IncCallMoves DEF GetOnCallTeam
<1>2. m.kind = "create" /\ "commander" \in IncPlaces
  BY <1>1 DEF IncForm, IncidentCall, Amendments, Examinations, IncPlaces
<1>3. CASE IncAt(c, "commander")
  <2> DEFINE g == At(m, "commander")
  <2>1. incCall' = [incCall EXCEPT ![c] = g]
    BY <1>3, IncCallMoves
  <2>2. /\ g \in IncidentCall /\ g.pc = "commander" /\ g.kind = "create"
        /\ g.on = m.on /\ (g.urgent <=> m.urgent)
    BY <1>1, <1>2, AtFields
  <2> HIDE DEF g
  <2>3. IncForm(g) /\ KnowsIncident(g) /\ KnowsEvidence(g)
    BY <1>1, <1>2, <2>2, IncidentsAssumption DEF IncForm, KnowsIncident, KnowsEvidence, Amendments, Examinations
  <2>4. Tells3(m, g) /\ Starts3(m, g)
    BY <1>1, <2>2 DEF Tells3, Starts3, Telling, Commanding, Starting
  <2> QED
    BY <1>2, <2>1, <2>2, <2>3, <2>4, IncGoesOn DEF GetOnCallTeam
<1>4. CASE (May("unstaffed") \/ IncReadsFail) /\ IncEnds(c)
  <2>1. ~CalmIncidents \/ May("unstaffed")
    BY <1>4 DEF CalmIncidents
  <2> QED
    BY <1>1, <1>2, <1>4, <2>1, IncEndsHolds, NothingLeft DEF GetOnCallTeam
<1> QED
  BY <1>3, <1>4 DEF GetOnCallTeam

\* An incident is read: what is asked for may be done to it.
LEMMA GetIncidentHolds ==
    ASSUME IncInv, UNCHANGED allowed, NEW c \in IncidentCalls, GetIncident(c)
    PROVE  IncInv'
<1> DEFINE m == incCall[c]
           row == incident[m.on]
           status == IF m.kind = "status" THEN row.status ELSE None
           listed == IF m.kind = "items" THEN row.items ELSE {}
           g1 == [m EXCEPT !.pc = "write"]
           g2 == [g1 EXCEPT !.status = status]
           g == [g2 EXCEPT !.listed = listed]
<1>1. /\ m.pc = "read" /\ m.kind \in Amendments /\ m \in IncidentCall /\ IncForm(m)
      /\ KnowsIncident(m) /\ KnowsEvidence(m)
  BY IncCallMoves DEF GetIncident
<1>2. /\ m.on \in Numbers /\ row \in SecurityIncident
  BY <1>1, IncTypes DEF IncForm
<1>3. CASE IncEnds(c)
  BY <1>1, <1>3, IncEndsHolds, NothingLeft DEF GetIncident
<1>4. CASE ~IncEnds(c)
  <2>1. incCall' = [incCall EXCEPT ![c] = g] /\ Allowed(m, row)
    BY <1>4, IncTypes DEF GetIncident
  <2>2. /\ status \in IncidentStatus \cup {None} /\ listed \subseteq Items \cup Evidence
        /\ m.kind = "status" => status = row.status
        /\ m.kind = "items" => listed = row.items /\ listed \subseteq Items
    BY <1>2 DEF SecurityIncident
  <2> HIDE DEF m, row, status, listed
  <2>3. /\ g1 \in IncidentCall /\ g1.pc = "write" /\ g1.kind = m.kind /\ g1.on = m.on /\ g1.arg = m.arg
        /\ g1.level = m.level
    BY <1>1 DEF IncidentCall
  <2> HIDE DEF g1
  <2>4. /\ g2 \in IncidentCall /\ g2.pc = "write" /\ g2.kind = m.kind /\ g2.on = m.on /\ g2.arg = m.arg
        /\ g2.level = m.level /\ g2.status = status
    BY <2>2, <2>3 DEF IncidentCall
  <2> HIDE DEF g2
  <2>5. /\ g \in IncidentCall /\ g.pc = "write" /\ g.kind = m.kind /\ g.on = m.on /\ g.arg = m.arg
        /\ g.level = m.level /\ g.status = status /\ g.listed = listed
    BY <2>2, <2>4 DEF IncidentCall
  <2> HIDE DEF g
  <2>6. row.status # None
    BY <2>1 DEF Allowed
  <2>7. IncForm(g)
    BY <1>1, <2>2, <2>5, <2>6, IncidentsAssumption DEF IncForm, Amendments, Examinations
  <2>8. KnowsIncident(g)
    BY <1>1, <2>1, <2>2, <2>5, <2>6 DEF KnowsIncident, Allowed, row, Amendments
  <2>9. KnowsEvidence(g)
    BY <1>1, <2>5 DEF KnowsEvidence, Amendments
  <2>10. Tells3(m, g) /\ Starts3(m, g)
    BY <1>1 DEF Tells3, Starts3, Telling, Commanding, Starting
  <2> QED
    BY <2>1, <2>5, <2>7, <2>8, <2>9, <2>10, IncGoesOn DEF GetIncident, m
<1> QED
  BY <1>3, <1>4

\* A piece of evidence or a case is read.
LEMMA ReadForExaminationHolds ==
    ASSUME IncInv, UNCHANGED allowed, NEW c \in IncidentCalls, ReadForExamination(c)
    PROVE  IncInv'
<1> DEFINE m == incCall[c]
           verified == m.kind = "transfer" /\ evidence[m.on].verified
           listed == IF m.kind = "list" THEN case[m.on].listed ELSE {}
           g1 == [m EXCEPT !.pc = "write"]
           g2 == [g1 EXCEPT !.verified = verified]
           g == [g2 EXCEPT !.listed = listed]
<1>1. /\ m.pc = "read" /\ m.kind \in Examinations /\ m \in IncidentCall /\ IncForm(m)
      /\ KnowsIncident(m) /\ KnowsEvidence(m)
  BY IncCallMoves DEF ReadForExamination
<1>2. /\ m.kind \in {"verify", "transfer", "list", "move"}
      /\ m.kind \in {"verify", "transfer"} => m.on \in Evidence /\ evidence[m.on] \in DigitalEvidence
      /\ m.kind \in {"list", "move"} => m.on \in Cases /\ case[m.on] \in ForensicCase
  BY <1>1, IncTypes DEF IncForm, Examinations
<1>3. CASE IncEnds(c)
  BY <1>1, <1>3, IncEndsHolds, NothingLeft DEF ReadForExamination
<1>4. CASE ~IncEnds(c)
  <2>1. incCall' = [incCall EXCEPT ![c] = g] /\ Known(m)
    BY <1>4, IncTypes DEF ReadForExamination
  <2>2. /\ verified \in BOOLEAN /\ listed \subseteq Items \cup Evidence
        /\ m.kind = "transfer" => (verified <=> evidence[m.on].verified)
        /\ m.kind = "list" => listed = case[m.on].listed /\ listed \subseteq Evidence
    BY <1>2 DEF DigitalEvidence, ForensicCase
  <2> HIDE DEF m, verified, listed
  <2>3. /\ g1 \in IncidentCall /\ g1.pc = "write" /\ g1.kind = m.kind /\ g1.on = m.on /\ g1.arg = m.arg
    BY <1>1 DEF IncidentCall
  <2> HIDE DEF g1
  <2>4. /\ g2 \in IncidentCall /\ g2.pc = "write" /\ g2.kind = m.kind /\ g2.on = m.on /\ g2.arg = m.arg
        /\ g2.verified = verified
    BY <2>2, <2>3 DEF IncidentCall
  <2> HIDE DEF g2
  <2>5. /\ g \in IncidentCall /\ g.pc = "write" /\ g.kind = m.kind /\ g.on = m.on /\ g.arg = m.arg
        /\ g.verified = verified /\ g.listed = listed
    BY <2>2, <2>4 DEF IncidentCall
  <2> HIDE DEF g
  <2>6. IncForm(g)
    BY <1>1, <1>2, <2>2, <2>5, IncidentsAssumption DEF IncForm, Amendments, Examinations
  <2>7. KnowsIncident(g)
    BY <1>2, <2>5 DEF KnowsIncident, Amendments
  <2>8. KnowsEvidence(g)
    BY <1>2, <2>1, <2>2, <2>5 DEF KnowsEvidence, Known
  <2>9. Tells3(m, g) /\ Starts3(m, g)
    BY <1>1 DEF Tells3, Starts3, Telling, Commanding, Starting
  <2> QED
    BY <2>1, <2>5, <2>6, <2>7, <2>8, <2>9, IncGoesOn DEF ReadForExamination, m
<1> QED
  BY <1>3, <1>4

\* What a request knows of an incident, its row and its part of the timeline being these.
KnowsRow(m, row, line) ==
    /\ m.kind \in Amendments /\ m.pc \in {"write", "event"} => row.status # None
    /\ m.kind = "create" /\ m.pc \in {"event", "team", "commander"} =>
          row.status # None /\ (row.urgent <=> m.urgent)
    /\ Serial /\ m.kind = "status" /\ m.pc = "write" =>
          m.status = row.status /\ m.arg \in ValidTransitions[m.status]
    /\ Serial /\ m.kind = "status" /\ m.pc = "event" => m.arg = row.status
    /\ Serial /\ m.kind = "escalate" /\ m.pc = "write" => m.level > row.level
    /\ Serial /\ m.kind = "items" /\ m.pc = "write" => m.listed = row.items
    /\ CalmIncidents /\ Serial /\ m.kind = "status" /\ m.pc = "event" => m.status = line.last
\* It is what is known of the incident the request is about.
LEMMA KnowsRowIs ==
    ASSUME NEW m
    PROVE  KnowsIncident(m) <=> KnowsRow(m, incident[m.on], timeline[m.on])
BY DEF KnowsIncident, KnowsRow

\* What holds of an incident whose requests are those.
RowHolds(n, row, line, calls) ==
    /\ row.status = None => row.items = {} /\ line.last = "DETECTED"
    /\ CalmIncidents /\ Serial => ~line.gap
    /\ CalmIncidents /\ Serial /\ row.status # None =>
          line.last = row.status \/ \E c \in IncidentCalls : Telling(calls[c], n)
    /\ CalmIncidents /\ ~May("unstaffed") /\ row.status # None /\ row.urgent =>
          row.commander \/ \E c \in IncidentCalls : Commanding(calls[c], n)

\* The write of a row and of the timeline keeps what is known, if it does for the requests
\* about the incident.
LEMMA RowWrites ==
    ASSUME IncInv, UNCHANGED allowed, NEW c \in IncidentCalls, NEW g \in IncidentCall,
           incCall' = [incCall EXCEPT ![c] = g],
           NEW n \in Numbers, NEW row \in SecurityIncident, NEW line \in IncidentTimeline,
           incident' = [incident EXCEPT ![n] = row], timeline' = [timeline EXCEPT ![n] = line],
           incCall[c].on = n, g.on = n \/ g.kind = None,
           KnowsRow(g, row, line),
           \A d \in IncidentCalls \ {c} : incCall[d].on = n => KnowsRow(incCall[d], row, line),
           RowHolds(n, row, line, incCall'),
           Serial => \A t \in added' : (t \in added /\ t \notin incident[n].items) \/ t \in row.items
    PROVE  (\A d \in IncidentCalls : KnowsIncident(incCall[d]))' /\ IncidentsHold'
<1>0. /\ incCall \in [IncidentCalls -> IncidentCall] /\ incCall'[c] = g
      /\ \A d \in IncidentCalls \ {c} : incCall'[d] = incCall[d]
      /\ incident'[n] = row /\ timeline'[n] = line
      /\ \A k \in Numbers \ {n} : incident'[k] = incident[k] /\ timeline'[k] = timeline[k]
  <2>1. incident \in [Numbers -> SecurityIncident] /\ timeline \in [Numbers -> IncidentTimeline]
    BY IncTypes
  <2> QED
    BY <2>1, IncTypes
<1>1. (CalmIncidents' <=> CalmIncidents) /\ (Serial' <=> Serial)
  BY DEF Serial, CalmIncidents, IncWritesFail, IncReadsFail, May
<1>2. May("unstaffed")' <=> May("unstaffed")
  BY DEF May
<1>3. ASSUME NEW d \in IncidentCalls PROVE KnowsIncident(incCall[d])'
  <2>1. KnowsRow(incCall'[d], incident'[incCall'[d].on], timeline'[incCall'[d].on])
    <3>1. CASE d = c /\ g.on = n
      BY <1>0, <3>1
    <3>2. CASE d = c /\ g.kind = None
      BY <1>0, <3>2, IncidentsAssumption DEF KnowsRow, Amendments
    <3>3. CASE d # c /\ incCall[d].on = n
      BY <1>0, <3>3
    <3>4. CASE d # c /\ incCall[d].on # n
      <4>1. KnowsRow(incCall[d], incident[incCall[d].on], timeline[incCall[d].on]) /\ incCall'[d] = incCall[d]
        BY <1>0, <3>4, KnowsRowIs DEF IncInv
      <4>2. CASE incCall[d].on \in Numbers
        BY <1>0, <3>4, <4>1, <4>2
      <4>3. CASE incCall[d].on \notin Numbers
        <5>1. IncForm(incCall[d])
          BY DEF IncInv
        <5>2. incCall[d].kind \notin Amendments /\ (incCall[d].kind = "create" => incCall[d].pc = "number")
          BY <4>3, <5>1 DEF IncForm
        <5> QED
          BY <4>1, <5>2 DEF KnowsRow, Amendments
      <4> QED
        BY <4>2, <4>3
    <3> QED
      BY <3>1, <3>2, <3>3, <3>4
  <2> QED
    BY <2>1, <1>1 DEF KnowsRow, KnowsIncident
<1>4. ASSUME NEW k \in Numbers PROVE RowHolds(k, incident'[k], timeline'[k], incCall')
  <2>1. CASE k = n
    BY <1>0, <2>1
  <2>2. CASE k # n
    <3>1. RowHolds(k, incident[k], timeline[k], incCall)
      BY DEF RowHolds, IncInv, IncidentsHold
    <3>2. \A d \in IncidentCalls : /\ Telling(incCall[d], k) => Telling(incCall'[d], k)
                                   /\ Commanding(incCall[d], k) => Commanding(incCall'[d], k)
      BY <1>0, <2>2 DEF Telling, Commanding
    <3> QED
      BY <1>0, <2>2, <3>1, <3>2 DEF RowHolds
  <2> QED
    BY <2>1, <2>2
<1>5. Serial => \A t \in added' : \E k \in Numbers : t \in incident'[k].items
  <2> SUFFICES ASSUME Serial, NEW t \in added' PROVE \E k \in Numbers : t \in incident'[k].items
    OBVIOUS
  <2>1. CASE t \in row.items
    BY <2>1, <1>0
  <2>2. CASE t \in added /\ t \notin incident[n].items
    BY <2>2, <1>0 DEF IncInv, IncidentsHold
  <2> QED
    BY <2>1, <2>2
<1>6. IncidentsHold'
  <2>1. \A d \in IncidentCalls, k \in Numbers : /\ Telling(incCall[d], k)' <=> Telling(incCall'[d], k)
                                                /\ Commanding(incCall[d], k)' <=> Commanding(incCall'[d], k)
    BY DEF Telling, Commanding
  <2>2. ASSUME NEW k \in Numbers
        PROVE  (/\ incident[k].status = None => incident[k].items = {} /\ timeline[k].last = "DETECTED"
                /\ CalmIncidents /\ Serial => ~timeline[k].gap
                /\ CalmIncidents /\ Serial /\ incident[k].status # None =>
                      \/ timeline[k].last = incident[k].status
                      \/ \E d \in IncidentCalls : Telling(incCall[d], k)
                /\ CalmIncidents /\ ~May("unstaffed") /\ incident[k].status # None /\ incident[k].urgent =>
                      \/ incident[k].commander
                      \/ \E d \in IncidentCalls : Commanding(incCall[d], k))'
    BY <1>1, <1>2, <1>4, <2>1 DEF RowHolds
  <2> QED
    BY <1>1, <1>5, <2>2 DEF IncidentsHold
<1> QED
  BY <1>3, <1>6

\* And of what is known of the row when nothing but it is written.
LEMMA RowIsKnown ==
    ASSUME IncInv, NEW n \in Numbers
    PROVE  /\ incident[n] \in SecurityIncident /\ timeline[n] \in IncidentTimeline
           /\ RowHolds(n, incident[n], timeline[n], incCall)
           /\ \A d \in IncidentCalls : /\ incCall[d] \in IncidentCall /\ IncForm(incCall[d])
                                       /\ incCall[d].on = n => KnowsRow(incCall[d], incident[n], timeline[n])
<1>1. incident[n] \in SecurityIncident /\ timeline[n] \in IncidentTimeline
  BY IncTypes
<1>2. RowHolds(n, incident[n], timeline[n], incCall)
  BY DEF RowHolds, IncInv, IncidentsHold
<1>3. ASSUME NEW d \in IncidentCalls
      PROVE  /\ incCall[d] \in IncidentCall /\ IncForm(incCall[d])
             /\ incCall[d].on = n => KnowsRow(incCall[d], incident[n], timeline[n])
  BY KnowsRowIs, IncTypes DEF IncInv
<1> QED
  BY <1>1, <1>2, <1>3

\* One request of a kind is about an incident, where such requests do not overlap.
LEMMA OneOfAKind ==
    ASSUME IncInv, NEW c \in IncidentCalls, incCall[c].kind \in Amendments \cup Examinations,
           Serial \/ incCall[c].kind = "collect"
    PROVE  \A d \in IncidentCalls \ {c} : ~(incCall[d].kind = incCall[c].kind /\ incCall[d].on = incCall[c].on)
BY DEF IncInv, ApartAll, Crosses

\* An incident is inserted where its number is free; it begins with the status told.
LEMMA InsertIncidentHolds ==
    ASSUME IncInv, UNCHANGED allowed, NEW c \in IncidentCalls, InsertIncident(c)
    PROVE  IncInv'
<1> DEFINE m == incCall[c]
           n == m.on
<1>1. m.pc = "insert" /\ m \in IncidentCall /\ IncForm(m)
  BY IncCallMoves, Zenon DEF InsertIncident
<1>2. m.kind = "create" /\ n \in Numbers /\ m.urgent \in BOOLEAN
  BY <1>1 DEF IncForm, IncidentCall, Amendments, Examinations
<1>3. CASE IncEnds(c) /\ UNCHANGED incident
  BY <1>1, <1>3, IncEndsHolds, NothingLeft, Zenon DEF InsertIncident, registerVars
<1>4. CASE ~(IncEnds(c) /\ UNCHANGED incident)
  <2>1. PICK sla \in BOOLEAN : incident' = [incident EXCEPT ![n] = [NoIncident EXCEPT
                    !.status = "DETECTED", !.urgent = m.urgent, !.sla = sla]]
    BY <1>4, Zenon DEF InsertIncident
  <2> DEFINE r1 == [NoIncident EXCEPT !.status = "DETECTED"]
             r2 == [r1 EXCEPT !.urgent = m.urgent]
             row == [r2 EXCEPT !.sla = sla]
             g == At(m, "event")
             line == timeline[n]
  <2>2. incident' = [incident EXCEPT ![n] = row]
    BY <2>1
  <2>3. incident[n].status = None /\ incCall' = [incCall EXCEPT ![c] = g]
    BY <1>4, IncCallMoves, Zenon DEF InsertIncident
  <2>4. r1 \in SecurityIncident /\ r1.status = "DETECTED" /\ r1.items = {}
    <3>1. NoIncident \in SecurityIncident /\ NoIncident.items = {}
      BY IncidentsAssumption DEF NoIncident, SecurityIncident
    <3> QED
      BY <3>1 DEF SecurityIncident, IncidentStatus
  <2> HIDE DEF r1
  <2>5. r2 \in SecurityIncident /\ r2.status = "DETECTED" /\ r2.items = {} /\ (r2.urgent <=> m.urgent)
    BY <1>2, <2>4 DEF SecurityIncident
  <2> HIDE DEF r2
  <2>6. row \in SecurityIncident /\ row.status = "DETECTED" /\ row.items = {} /\ (row.urgent <=> m.urgent)
    BY <2>5 DEF SecurityIncident
  <2> HIDE DEF row
  <2>7. /\ g \in IncidentCall /\ g.pc = "event" /\ g.kind = "create" /\ g.on = n /\ (g.urgent <=> m.urgent)
    BY <1>1, <1>2, AtFields DEF IncPlaces
  <2> HIDE DEF g
  <2>8. /\ line \in IncidentTimeline /\ line.last = "DETECTED" /\ (CalmIncidents /\ Serial => ~line.gap)
        /\ incident[n].items = {}
    BY <1>2, <2>3, RowIsKnown DEF RowHolds
  <2>9. None # "DETECTED" /\ None # "create"
    BY IncidentsAssumption DEF IncidentStatus
  <2>10. KnowsRow(g, row, line)
    BY <2>6, <2>7, <2>9 DEF KnowsRow, Amendments
  <2>11. ASSUME NEW d \in IncidentCalls \ {c}, incCall[d].on = n
         PROVE  KnowsRow(incCall[d], row, line)
    <3>1. KnowsRow(incCall[d], incident[n], timeline[n])
      BY <1>2, <2>11, RowIsKnown
    <3> QED
      BY <2>3, <3>1 DEF KnowsRow, Amendments
  <2>12. RowHolds(n, row, line, incCall')
    <3>1. incCall'[c] = g
      BY <2>3, IncTypes
    <3>2. Commanding(incCall'[c], n)
      BY <2>7, <3>1 DEF Commanding
    <3> QED
      BY <2>6, <2>8, <2>9, <3>2 DEF RowHolds
  <2>13. timeline' = [timeline EXCEPT ![n] = line]
    BY IncTypes, Zenon DEF InsertIncident
  <2>14. \A t \in added' : (t \in added /\ t \notin incident[n].items) \/ t \in row.items
    BY <2>8, Zenon DEF InsertIncident
  <2>15. (\A d \in IncidentCalls : KnowsIncident(incCall[d]))' /\ IncidentsHold'
    <3> HIDE DEF line
    <3> QED
      BY <1>2, <2>2, <2>3, <2>6, <2>7, <2>8, <2>10, <2>11, <2>12, <2>13, <2>14, RowWrites DEF m
  <2>16. IncForm(g) /\ KnowsEvidence(g)
    BY <1>2, <2>7, <2>9 DEF IncForm, KnowsEvidence, Amendments
  <2>17. Starts3(m, g)
    BY <1>1 DEF Starts3, Starting
  <2>18. /\ incident' \in [Numbers -> SecurityIncident] /\ timeline' \in [Numbers -> IncidentTimeline]
         /\ informed' \subseteq Numbers /\ added' \subseteq Items
         /\ UNCHANGED <<evidence, case>> /\ evidence' \in [Evidence -> DigitalEvidence] /\ case' \in [Cases -> ForensicCase]
    BY <1>2, <2>2, <2>6, IncTypes, Zenon DEF InsertIncident, forensicVars
  <2> HIDE DEF m
  <2> QED
    BY <1>2, <2>3, <2>7, <2>15, <2>16, <2>17, <2>18, IncMoves DEF m
<1> QED
  BY <1>3, <1>4

\* The commander is assigned.
LEMMA AutoAssignHolds ==
    ASSUME IncInv, UNCHANGED allowed, NEW c \in IncidentCalls, AutoAssignOnCallTeam(c)
    PROVE  IncInv'
<1> DEFINE m == incCall[c]
           n == m.on
           row == [incident[n] EXCEPT !.commander = TRUE]
           line == timeline[n]
<1>1. m.pc = "commander" /\ m \in IncidentCall /\ IncForm(m) /\ IncEnds(c)
  BY IncCallMoves DEF AutoAssignOnCallTeam
<1>2. m.kind = "create" /\ n \in Numbers
  BY <1>1 DEF IncForm, IncidentCall, Amendments, Examinations
<1>3. CASE UNCHANGED incident /\ IncWritesFail
  <2>1. ~CalmIncidents
    BY <1>3 DEF CalmIncidents
  <2> QED
    BY <1>1, <1>3, <2>1, IncEndsHolds, NothingLeft DEF AutoAssignOnCallTeam, registerVars
<1>4. CASE incident' = [incident EXCEPT ![n].commander = TRUE]
  <2>1. incident' = [incident EXCEPT ![n] = row] /\ incident[n] \in SecurityIncident /\ line \in IncidentTimeline
    BY <1>4, <1>2, IncTypes
  <2>2. /\ row \in SecurityIncident /\ row.status = incident[n].status /\ row.items = incident[n].items
        /\ row.urgent = incident[n].urgent /\ row.level = incident[n].level /\ row.commander
    BY <2>1 DEF SecurityIncident
  <2> HIDE DEF row
  <2>3. ASSUME NEW d \in IncidentCalls \ {c}, incCall[d].on = n PROVE KnowsRow(incCall[d], row, line)
    <3>1. KnowsRow(incCall[d], incident[n], timeline[n])
      BY <1>2, <2>3, RowIsKnown
    <3> QED
      BY <2>2, <3>1 DEF KnowsRow
  <2>4. incCall' = [incCall EXCEPT ![c] = IdleIncCall] /\ incCall'[c] = IdleIncCall
    BY <1>1, IncTypes DEF IncEnds
  <2>5. RowHolds(n, row, line, incCall')
    <3>1. RowHolds(n, incident[n], timeline[n], incCall)
      BY <1>2, RowIsKnown
    <3>2. \A d \in IncidentCalls : Telling(incCall[d], n) => Telling(incCall'[d], n)
      BY <1>1, <2>4, IncTypes DEF Telling
    <3> QED
      BY <2>2, <3>1, <3>2 DEF RowHolds
  <2>6. KnowsRow(IdleIncCall, row, line)
    BY IdleIncForm, IncidentsAssumption DEF KnowsRow, Amendments
  <2>7. /\ timeline' = [timeline EXCEPT ![n] = line]
        /\ \A t \in added' : (t \in added /\ t \notin incident[n].items) \/ t \in row.items
    BY <2>2, IncTypes, Zenon DEF AutoAssignOnCallTeam
  <2>8. (\A d \in IncidentCalls : KnowsIncident(incCall[d]))' /\ IncidentsHold'
    <3> HIDE DEF line
    <3> QED
      BY <1>2, <2>1, <2>2, <2>3, <2>4, <2>5, <2>6, <2>7, IdleIncForm, RowWrites DEF m
  <2>9. Starts3(m, IdleIncCall)
    BY <1>1 DEF Starts3, Starting
  <2>10. /\ incident' \in [Numbers -> SecurityIncident] /\ timeline' \in [Numbers -> IncidentTimeline]
         /\ informed' \subseteq Numbers /\ added' \subseteq Items
         /\ UNCHANGED <<evidence, case>> /\ evidence' \in [Evidence -> DigitalEvidence] /\ case' \in [Cases -> ForensicCase]
    BY <1>2, <2>1, <2>2, IncTypes DEF AutoAssignOnCallTeam, forensicVars
  <2> QED
    BY <2>4, <2>8, <2>9, <2>10, IdleIncForm, IncMoves DEF m
<1> QED
  BY <1>3, <1>4 DEF AutoAssignOnCallTeam

\* What an amendment writes of a row, and what it leaves.
LEMMA AmendedIs ==
    ASSUME NEW m \in IncidentCall, m.kind \in Amendments, IncForm(m), m.pc = "write",
           NEW r \in SecurityIncident
    PROVE  /\ Amended(m, r) \in SecurityIncident /\ (Amended(m, r).urgent <=> r.urgent)
           /\ Amended(m, r).status = IF m.kind = "status" THEN m.arg ELSE r.status
           /\ Amended(m, r).level = IF m.kind = "escalate" THEN m.level ELSE r.level
           /\ Amended(m, r).items = IF m.kind = "items" THEN m.listed \cup {m.arg} ELSE r.items
           /\ r.commander => Amended(m, r).commander
<1>1. CASE m.kind = "status"
  <2> DEFINE r1 == [r EXCEPT !.status = m.arg]
             breach == m.arg = "TRIAGED" /\ r1.sla /\ r1.late
             r2 == [r1 EXCEPT !.breached = @ \/ breach]
  <2>1. Amended(m, r) = r2
    BY <1>1 DEF Amended, Checked
  <2>2. m.arg \in IncidentStatus
    BY <1>1 DEF IncForm
  <2>3. /\ r1 \in SecurityIncident /\ r1.urgent = r.urgent /\ r1.status = m.arg /\ r1.level = r.level
        /\ r1.items = r.items /\ r1.commander = r.commander
    BY <2>2 DEF SecurityIncident
  <2>4. breach \in BOOLEAN
    OBVIOUS
  <2> HIDE DEF r1, breach
  <2>5. /\ r2 \in SecurityIncident /\ r2.urgent = r1.urgent /\ r2.status = r1.status /\ r2.level = r1.level
        /\ r2.items = r1.items /\ r2.commander = r1.commander
    BY <2>3, <2>4 DEF SecurityIncident
  <2> QED
    BY <1>1, <2>1, <2>3, <2>5
<1>2. CASE m.kind = "assign"
  <2>1. Amended(m, r) = [r EXCEPT !.commander = TRUE]
    BY <1>2 DEF Amended
  <2> QED
    BY <1>2, <2>1 DEF SecurityIncident
<1>3. CASE m.kind = "escalate"
  <2>1. Amended(m, r) = [r EXCEPT !.level = m.level]
    BY <1>3 DEF Amended
  <2>2. m.level \in 0..MaxLevel
    BY DEF IncidentCall
  <2> QED
    BY <1>3, <2>1, <2>2 DEF SecurityIncident
<1>4. CASE m.kind = "items"
  <2> DEFINE items == m.listed \cup {m.arg}
  <2>1. Amended(m, r) = [r EXCEPT !.items = items]
    BY <1>4 DEF Amended, Appended
  <2>2. items \in SUBSET Items
    BY <1>4 DEF IncForm
  <2> QED
    BY <1>4, <2>1, <2>2 DEF SecurityIncident
<1>5. CASE m.kind = "pta"
  <2>1. Amended(m, r) = [r EXCEPT !.reported = TRUE]
    BY <1>5 DEF Amended
  <2> QED
    BY <1>5, <2>1 DEF SecurityIncident
<1> QED
  BY <1>1, <1>2, <1>3, <1>4, <1>5 DEF Amendments

\* A row that is amended keeps what the others know, for no other request of this kind is
\* about the incident.
LEMMA UpdateIncidentWrites ==
    ASSUME IncInv, UNCHANGED allowed, NEW c \in IncidentCalls,
           incCall[c].pc = "write", incCall[c].kind \in Amendments,
           incident' = [incident EXCEPT ![incCall[c].on] = Amended(incCall[c], @)],
           added' = IF incCall[c].kind = "items" THEN added \cup {incCall[c].arg} ELSE added,
           IncAt(c, "event"), UNCHANGED <<timeline, informed, forensicVars>>
    PROVE  IncInv'
<1> DEFINE m == incCall[c]
           n == m.on
           row == Amended(m, incident[n])
           line == timeline[n]
           g == At(m, "event")
<1>1. m \in IncidentCall /\ IncForm(m) /\ n \in Numbers
  BY IncCallMoves DEF IncForm
<1>2. incident[n] \in SecurityIncident /\ line \in IncidentTimeline /\ KnowsRow(m, incident[n], line)
  BY <1>1, RowIsKnown
<1>3. incident' = [incident EXCEPT ![n] = row]
  OBVIOUS
<1>4. /\ row \in SecurityIncident /\ (row.urgent <=> incident[n].urgent)
      /\ row.status = IF m.kind = "status" THEN m.arg ELSE incident[n].status
      /\ row.level = IF m.kind = "escalate" THEN m.level ELSE incident[n].level
      /\ row.items = IF m.kind = "items" THEN m.listed \cup {m.arg} ELSE incident[n].items
      /\ incident[n].commander => row.commander
  BY <1>1, <1>2, AmendedIs
<1>5. /\ g \in IncidentCall /\ g.pc = "event" /\ g.kind = m.kind /\ g.on = n /\ g.arg = m.arg
      /\ g.status = m.status /\ (g.urgent <=> m.urgent)
  BY <1>1, AtFields DEF IncPlaces
<1>6. incCall' = [incCall EXCEPT ![c] = g] /\ incCall'[c] = g
  BY IncCallMoves, IncTypes
<1> HIDE DEF row, g
<1>7. Serial => \A d \in IncidentCalls \ {c} : ~(incCall[d].kind = m.kind /\ incCall[d].on = n)
  BY OneOfAKind
<1>8. incident[n].status \in IncidentStatus /\ row.status \in IncidentStatus /\ None \notin IncidentStatus
  <2>1. incident[n].status # None
    BY <1>2 DEF KnowsRow
  <2>2. m.kind = "status" => m.arg \in IncidentStatus
    BY <1>1 DEF IncForm
  <2> QED
    BY <1>2, <1>4, <2>1, <2>2, IncidentsAssumption DEF SecurityIncident
<1>9. ASSUME NEW d \in IncidentCalls \ {c}, incCall[d].on = n PROVE KnowsRow(incCall[d], row, line)
  <2>1. KnowsRow(incCall[d], incident[n], line) /\ (Serial => incCall[d].kind # m.kind)
    BY <1>1, <1>7, <1>9, RowIsKnown
  <2> QED
    BY <1>4, <1>8, <2>1 DEF KnowsRow
<1>10. CalmIncidents /\ Serial => line.last = incident[n].status \/ m.kind # "status"
  <2> SUFFICES ASSUME CalmIncidents, Serial, m.kind = "status", line.last # incident[n].status PROVE FALSE
    OBVIOUS
  <2>1. RowHolds(n, incident[n], line, incCall)
    BY <1>1, RowIsKnown
  <2>2. PICK d \in IncidentCalls : Telling(incCall[d], n)
    BY <1>8, <2>1 DEF RowHolds
  <2> QED
    BY <1>7, <2>2 DEF Telling
<1>11. KnowsRow(g, row, line)
  <2>1. m.kind # "create"
    BY DEF Amendments
  <2> QED
    BY <1>2, <1>4, <1>5, <1>8, <1>10, <2>1 DEF KnowsRow
<1>12. RowHolds(n, row, line, incCall')
  <2>1. RowHolds(n, incident[n], line, incCall)
    BY <1>1, RowIsKnown
  <2>2. \A d \in IncidentCalls : /\ Telling(incCall[d], n) => Telling(incCall'[d], n)
                                 /\ Commanding(incCall[d], n) => Commanding(incCall'[d], n)
    BY <1>6, IncTypes DEF Telling, Commanding, Amendments
  <2>3. m.kind = "status" => Telling(incCall'[c], n)
    BY <1>5, <1>6 DEF Telling
  <2> QED
    BY <1>4, <1>8, <2>1, <2>2, <2>3 DEF RowHolds
<1>13. Serial => \A t \in added' : (t \in added /\ t \notin incident[n].items) \/ t \in row.items
  <2>1. Serial /\ m.kind = "items" => m.listed = incident[n].items
    BY <1>2 DEF KnowsRow
  <2> QED
    BY <1>4, <2>1
<1>14. timeline' = [timeline EXCEPT ![n] = line]
  BY IncTypes
<1>15. (\A d \in IncidentCalls : KnowsIncident(incCall[d]))' /\ IncidentsHold'
  <2> HIDE DEF m, line
  <2> QED
    BY <1>1, <1>2, <1>3, <1>4, <1>5, <1>6, <1>9, <1>11, <1>12, <1>13, <1>14, RowWrites DEF m
<1>16. m.kind # None /\ m.kind # "create"
  BY IncidentsAssumption DEF Amendments
<1>17. IncForm(g) /\ KnowsEvidence(g)
  <2>1. m.kind = "status" => m.status \in IncidentStatus
    BY <1>1 DEF IncForm
  <2> QED
    BY <1>1, <1>5, <1>16, <2>1 DEF IncForm, KnowsEvidence, Amendments, Examinations
<1>18. Starts3(m, g)
  BY DEF Starts3, Starting
<1>19. /\ incident' \in [Numbers -> SecurityIncident] /\ timeline' \in [Numbers -> IncidentTimeline]
       /\ informed' \subseteq Numbers /\ added' \subseteq Items
       /\ UNCHANGED <<evidence, case>> /\ evidence' \in [Evidence -> DigitalEvidence] /\ case' \in [Cases -> ForensicCase]
  <2>1. m.kind = "items" => m.arg \in Items
    BY <1>1 DEF IncForm
  <2> QED
    BY <1>1, <1>3, <1>4, <2>1, IncTypes DEF forensicVars
<1> HIDE DEF m
<1> QED
  BY <1>5, <1>6, <1>15, <1>17, <1>18, <1>19, IncMoves DEF m

\* An incident is amended, or the write fails.
LEMMA UpdateIncidentHolds ==
    ASSUME IncInv, UNCHANGED allowed, NEW c \in IncidentCalls, UpdateIncident(c)
    PROVE  IncInv'
<1> DEFINE m == incCall[c]
           g == At(m, "event")
<1>1. /\ m \in IncidentCall /\ IncForm(m) /\ m.pc = "write" /\ m.kind \in Amendments
      /\ KnowsIncident(m) /\ KnowsEvidence(m)
  BY IncCallMoves DEF UpdateIncident
<1>2. CASE /\ incident' = [incident EXCEPT ![incCall[c].on] = Amended(incCall[c], @)]
           /\ added' = IF incCall[c].kind = "items" THEN added \cup {incCall[c].arg} ELSE added
           /\ IncAt(c, "event")
  BY <1>1, <1>2, UpdateIncidentWrites DEF UpdateIncident
<1>3. CASE UNCHANGED <<incident, added>> /\ IncEnds(c)
  BY <1>1, <1>3, IncEndsHolds, NothingLeft DEF UpdateIncident, registerVars
<1>4. CASE UNCHANGED <<incident, added>> /\ m.kind = "pta" /\ IncAt(c, "event")
  <2>1. incCall' = [incCall EXCEPT ![c] = g]
    BY <1>4, IncCallMoves
  <2>2. g \in IncidentCall /\ g.pc = "event" /\ g.kind = m.kind /\ g.on = m.on
    BY <1>1, AtFields DEF IncPlaces
  <2> HIDE DEF g
  <2>3. None # "pta"
    BY IncidentsAssumption DEF Amendments
  <2>4. IncForm(g) /\ KnowsIncident(g) /\ KnowsEvidence(g)
    BY <1>1, <1>4, <2>2, <2>3 DEF IncForm, KnowsIncident, KnowsEvidence, Amendments, Examinations
  <2>5. Tells3(m, g) /\ Starts3(m, g)
    BY <1>1 DEF Tells3, Starts3, Telling, Commanding, Starting
  <2>6. UNCHANGED <<registerVars, forensicVars>>
    BY <1>4 DEF UpdateIncident, registerVars
  <2> HIDE DEF m
  <2> QED
    BY <2>1, <2>2, <2>4, <2>5, <2>6, IncGoesOn DEF m
<1> QED
  BY <1>2, <1>3, <1>4 DEF UpdateIncident

\* The communication to PTA is logged.
LEMMA LogCommunicationHolds ==
    ASSUME IncInv, UNCHANGED allowed, NEW c \in IncidentCalls, LogCommunication(c)
    PROVE  IncInv'
<1> DEFINE m == incCall[c]
<1>1. m \in IncidentCall /\ IncForm(m) /\ m.pc = "comm" /\ IncEnds(c)
  BY IncCallMoves DEF LogCommunication
<1>2. m.on \in Numbers
  BY <1>1 DEF IncForm, Amendments
<1>3. Tells3(m, IdleIncCall) /\ Starts3(m, IdleIncCall)
  BY <1>1, NothingLeft
<1>4. UNCHANGED <<incident, timeline, added, evidence, case>> /\ informed' \subseteq Numbers
  BY <1>2, IncTypes DEF LogCommunication, forensicVars
<1> QED
  BY <1>1, <1>3, <1>4, IncMoves, IncTypes, IdleIncForm DEF IncEnds

\* A status is told after the one it was read to follow, which was told last.
LEMMA StatusIsTold ==
    ASSUME IncInv, UNCHANGED allowed, NEW c \in IncidentCalls, incCall[c].pc = "event", incCall[c].kind = "status",
           timeline' = [timeline EXCEPT ![incCall[c].on] =
               [last |-> incCall[c].arg, gap |-> @.gap \/ ToldFrom(incCall[c]) # @.last]],
           IncEnds(c), UNCHANGED <<incident, informed, added, forensicVars>>
    PROVE  IncInv'
<1> DEFINE m == incCall[c]
           n == m.on
           old == timeline[n]
           gap == old.gap \/ m.status # old.last
           line == [last |-> m.arg, gap |-> gap]
           row == incident[n]
<1>1. /\ m \in IncidentCall /\ IncForm(m) /\ n \in Numbers /\ m.arg \in IncidentStatus
  BY IncCallMoves DEF IncForm, Amendments
<1>2. /\ row \in SecurityIncident /\ old \in IncidentTimeline /\ KnowsRow(m, row, old)
      /\ RowHolds(n, row, old, incCall)
  BY <1>1, RowIsKnown
<1>3. /\ row.status # None /\ (Serial => m.arg = row.status)
      /\ CalmIncidents /\ Serial => m.status = old.last /\ ~old.gap
  BY <1>2 DEF KnowsRow, RowHolds, Amendments
<1>4. gap \in BOOLEAN /\ (CalmIncidents /\ Serial => ~gap)
  BY <1>2, <1>3 DEF IncidentTimeline
<1>5. timeline' = [timeline EXCEPT ![n] = line]
  BY IncTypes DEF ToldFrom
<1> HIDE DEF gap
<1>6. /\ line \in IncidentTimeline /\ (Serial => line.last = row.status)
      /\ CalmIncidents /\ Serial => ~line.gap
  BY <1>1, <1>3, <1>4 DEF IncidentTimeline
<1>7. incident' = [incident EXCEPT ![n] = row]
  BY <1>1, IncTypes
<1>8. incCall' = [incCall EXCEPT ![c] = IdleIncCall] /\ incCall'[c] = IdleIncCall
  BY IncTypes DEF IncEnds
<1> HIDE DEF line
<1>9. ASSUME NEW d \in IncidentCalls \ {c}, incCall[d].on = n PROVE KnowsRow(incCall[d], row, line)
  <2>1. KnowsRow(incCall[d], row, old)
    BY <1>1, <1>9, RowIsKnown
  <2>2. Serial => incCall[d].kind # "status"
    BY <1>9, OneOfAKind DEF Amendments
  <2> QED
    BY <2>1, <2>2 DEF KnowsRow
<1>10. KnowsRow(IdleIncCall, row, line)
  BY IdleIncForm, IncidentsAssumption DEF KnowsRow, Amendments
<1>11. RowHolds(n, row, line, incCall')
  <2>1. \A d \in IncidentCalls : Commanding(incCall[d], n) => Commanding(incCall'[d], n)
    BY <1>8, IncTypes DEF Commanding
  <2> QED
    BY <1>2, <1>3, <1>6, <2>1 DEF RowHolds
<1>12. \A t \in added' : (t \in added /\ t \notin incident[n].items) \/ t \in row.items
  OBVIOUS
<1>13. (\A d \in IncidentCalls : KnowsIncident(incCall[d]))' /\ IncidentsHold'
  <2> HIDE DEF m, row
  <2> QED
    BY <1>1, <1>2, <1>5, <1>6, <1>7, <1>8, <1>9, <1>10, <1>11, <1>12, IdleIncForm, RowWrites DEF m
<1>14. Starts3(m, IdleIncCall)
  BY DEF Starts3, Starting
<1>15. /\ incident' \in [Numbers -> SecurityIncident] /\ timeline' \in [Numbers -> IncidentTimeline]
       /\ informed' \subseteq Numbers /\ added' \subseteq Items
       /\ UNCHANGED <<evidence, case>> /\ evidence' \in [Evidence -> DigitalEvidence] /\ case' \in [Cases -> ForensicCase]
  BY <1>1, <1>5, <1>6, IncTypes DEF forensicVars
<1> QED
  BY <1>8, <1>13, <1>14, <1>15, IdleIncForm, IncMoves

\* The event is told, or lost where writes fail.
LEMMA AddTimelineEventHolds ==
    ASSUME IncInv, UNCHANGED allowed, NEW c \in IncidentCalls, AddTimelineEvent(c)
    PROVE  IncInv'
<1> DEFINE m == incCall[c]
           next == AfterEvent(m)
           g == At(m, next)
<1>1. /\ m \in IncidentCall /\ IncForm(m) /\ m.pc = "event" /\ KnowsIncident(m) /\ KnowsEvidence(m)
  BY IncCallMoves DEF AddTimelineEvent
<1>2. m.kind \in Amendments \cup {"create"} /\ m.on \in Numbers
  BY <1>1 DEF IncForm, IncidentCall, Examinations
<1>3. CASE IncWritesFail /\ UNCHANGED timeline /\ IncEnds(c)
  <2>1. ~CalmIncidents
    BY <1>3 DEF CalmIncidents
  <2> QED
    BY <1>3, <2>1, IncEndsHolds, NothingLeft DEF AddTimelineEvent, registerVars
<1>4. CASE m.kind = "status" /\ ~(IncWritesFail /\ UNCHANGED timeline /\ IncEnds(c))
  <2>1. next = "idle"
    BY <1>4 DEF AfterEvent
  <2>2. IncEnds(c)
    BY <1>4, <2>1 DEF AddTimelineEvent
  <2> QED
    BY <1>1, <1>4, <2>2, StatusIsTold DEF AddTimelineEvent
<1>5. CASE m.kind # "status" /\ ~(IncWritesFail /\ UNCHANGED timeline /\ IncEnds(c))
  <2>1. UNCHANGED <<registerVars, forensicVars>>
    BY <1>5 DEF AddTimelineEvent, registerVars
  <2>2. CASE next = "idle"
    <3>1. IncEnds(c)
      BY <1>5, <2>2 DEF AddTimelineEvent
    <3>2. m.kind = "create" => ~m.urgent
      BY <2>2 DEF AfterEvent, Assigns
    <3>3. Tells3(m, IdleIncCall) /\ Starts3(m, IdleIncCall)
      BY <1>1, <1>5, <3>2 DEF Tells3, Starts3, Telling, Commanding, Starting, KnowsIncident
    <3> QED
      BY <2>1, <3>1, <3>3, IncEndsHolds
  <2>3. CASE next # "idle"
    <3>1. \/ next = "team" /\ m.kind = "create" /\ m.urgent
          \/ next = "comm" /\ m.kind = "pta"
      BY <2>3 DEF AfterEvent, Assigns
    <3>2. incCall' = [incCall EXCEPT ![c] = g]
      BY <1>5, <2>3, IncCallMoves DEF AddTimelineEvent
    <3>3. g \in IncidentCall /\ g.pc = next /\ g.kind = m.kind /\ g.on = m.on /\ (g.urgent <=> m.urgent)
      BY <1>1, <3>1, AtFields DEF IncPlaces
    <3> HIDE DEF g, next
    <3>4. None # "pta" /\ None # "create"
      BY IncidentsAssumption DEF Amendments
    <3>5. IncForm(g) /\ KnowsIncident(g) /\ KnowsEvidence(g)
      BY <1>1, <1>2, <3>1, <3>3, <3>4 DEF IncForm, KnowsIncident, KnowsEvidence, Amendments, Examinations
    <3>6. Tells3(m, g) /\ Starts3(m, g)
      BY <1>1, <1>5, <3>1, <3>3 DEF Tells3, Starts3, Telling, Commanding, Starting
    <3> HIDE DEF m
    <3> QED
      BY <2>1, <3>2, <3>3, <3>5, <3>6, IncGoesOn DEF m
  <2> QED
    BY <2>2, <2>3
<1> QED
  BY <1>3, <1>4, <1>5

\* Nothing moves but the tables.
LEMMA IncTables ==
    ASSUME IncInv, UNCHANGED <<allowed, incCall>>,
           incident' \in [Numbers -> SecurityIncident], timeline' \in [Numbers -> IncidentTimeline],
           informed' \subseteq Numbers, added' \subseteq Items,
           evidence' \in [Evidence -> DigitalEvidence], case' \in [Cases -> ForensicCase],
           \/ (\A d \in IncidentCalls : KnowsIncident(incCall[d]))' /\ IncidentsHold'
           \/ UNCHANGED <<incident, timeline, added>>,
           \/ (\A d \in IncidentCalls : KnowsEvidence(incCall[d]))' /\ EvidenceHolds'
           \/ UNCHANGED <<evidence, case>>
    PROVE  IncInv'
<1>1. (CalmIncidents' <=> CalmIncidents) /\ (Serial' <=> Serial)
  BY DEF Serial, CalmIncidents, IncWritesFail, IncReadsFail, May
<1>2. May("unstaffed")' <=> May("unstaffed")
  BY DEF May
<1>3. IncidentTypeOK'
  BY IncTypes DEF IncidentTypeOK
<1>4. (\A d \in IncidentCalls : IncForm(incCall[d]))' /\ ApartAll'
  BY <1>1 DEF IncInv, IncForm, ApartAll, Crosses
<1>5. (\A d \in IncidentCalls : KnowsIncident(incCall[d]))' /\ IncidentsHold'
  <2> SUFFICES ASSUME UNCHANGED <<incident, timeline, added>>
               PROVE  (\A d \in IncidentCalls : KnowsIncident(incCall[d]))' /\ IncidentsHold'
    OBVIOUS
  <2>1. (\A d \in IncidentCalls : KnowsIncident(incCall[d]))'
    <3> SUFFICES ASSUME NEW d \in IncidentCalls PROVE KnowsIncident(incCall[d])'
      OBVIOUS
    <3>1. KnowsIncident(incCall[d])
      BY DEF IncInv
    <3> QED
      BY <1>1, <3>1 DEF KnowsIncident
  <2>2. \A d \in IncidentCalls, k \in Numbers : /\ Telling(incCall[d], k)' <=> Telling(incCall[d], k)
                                                /\ Commanding(incCall[d], k)' <=> Commanding(incCall[d], k)
    BY DEF Telling, Commanding
  <2>3. IncidentsHold
    BY DEF IncInv
  <2>4. ASSUME NEW k \in Numbers
        PROVE  (/\ incident[k].status = None => incident[k].items = {} /\ timeline[k].last = "DETECTED"
                /\ CalmIncidents /\ Serial => ~timeline[k].gap
                /\ CalmIncidents /\ Serial /\ incident[k].status # None =>
                      \/ timeline[k].last = incident[k].status
                      \/ \E d \in IncidentCalls : Telling(incCall[d], k)
                /\ CalmIncidents /\ ~May("unstaffed") /\ incident[k].status # None /\ incident[k].urgent =>
                      \/ incident[k].commander
                      \/ \E d \in IncidentCalls : Commanding(incCall[d], k))'
    BY <1>1, <1>2, <2>2, <2>3 DEF IncidentsHold
  <2>5. (Serial => \A t \in added : \E k \in Numbers : t \in incident[k].items)'
    BY <1>1, <2>3 DEF IncidentsHold
  <2> QED
    BY <2>1, <2>4, <2>5 DEF IncidentsHold
<1>6. (\A d \in IncidentCalls : KnowsEvidence(incCall[d]))' /\ EvidenceHolds'
  <2> SUFFICES ASSUME UNCHANGED <<evidence, case>>
               PROVE  (\A d \in IncidentCalls : KnowsEvidence(incCall[d]))' /\ EvidenceHolds'
    OBVIOUS
  <2>1. (\A d \in IncidentCalls : KnowsEvidence(incCall[d]))'
    BY <1>1 DEF IncInv, KnowsEvidence
  <2>2. EvidenceHolds'
    BY <1>1 DEF IncInv, EvidenceHolds, Starting
  <2> QED
    BY <2>1, <2>2
<1> QED
  BY <1>3, <1>4, <1>5, <1>6 DEF IncInv

\* The time to respond passes.
LEMMA ResponseTimePassesHolds ==
    ASSUME IncInv, UNCHANGED allowed, NEW n \in Numbers, ResponseTimePasses(n)
    PROVE  IncInv'
<1> DEFINE row == [incident[n] EXCEPT !.late = TRUE]
<1>1. incident' = [incident EXCEPT ![n] = row] /\ incident[n] \in SecurityIncident
  BY IncTypes DEF ResponseTimePasses
<1>2. /\ row \in SecurityIncident /\ row.status = incident[n].status /\ row.items = incident[n].items
      /\ row.urgent = incident[n].urgent /\ row.level = incident[n].level /\ row.commander = incident[n].commander
  BY <1>1 DEF SecurityIncident
<1> HIDE DEF row
<1>3. \A k \in Numbers : /\ incident'[k].status = incident[k].status /\ incident'[k].items = incident[k].items
                        /\ incident'[k].urgent = incident[k].urgent /\ incident'[k].level = incident[k].level
                        /\ incident'[k].commander = incident[k].commander
  BY <1>1, <1>2, IncTypes
<1>4. (CalmIncidents' <=> CalmIncidents) /\ (Serial' <=> Serial)
  BY DEF Serial, CalmIncidents, IncWritesFail, IncReadsFail, May
<1>5. May("unstaffed")' <=> May("unstaffed")
  BY DEF May
<1>6. (\A d \in IncidentCalls : KnowsIncident(incCall[d]))'
  <2> SUFFICES ASSUME NEW d \in IncidentCalls PROVE KnowsIncident(incCall[d])'
    OBVIOUS
  <2>1. KnowsIncident(incCall[d]) /\ IncForm(incCall[d])
    BY DEF IncInv
  <2>2. incCall[d].kind \in Amendments \/ (incCall[d].kind = "create" /\ incCall[d].pc # "number")
          => incCall[d].on \in Numbers
    BY <2>1 DEF IncForm
  <2> QED
    BY <1>3, <1>4, <2>1, <2>2 DEF KnowsIncident, ResponseTimePasses, Amendments
<1>7. IncidentsHold'
  <2>1. \A d \in IncidentCalls, k \in Numbers : /\ Telling(incCall[d], k)' <=> Telling(incCall[d], k)
                                                /\ Commanding(incCall[d], k)' <=> Commanding(incCall[d], k)
    BY DEF Telling, Commanding, ResponseTimePasses
  <2>2. IncidentsHold
    BY DEF IncInv
  <2>3. ASSUME NEW k \in Numbers
        PROVE  (/\ incident[k].status = None => incident[k].items = {} /\ timeline[k].last = "DETECTED"
                /\ CalmIncidents /\ Serial => ~timeline[k].gap
                /\ CalmIncidents /\ Serial /\ incident[k].status # None =>
                      \/ timeline[k].last = incident[k].status
                      \/ \E d \in IncidentCalls : Telling(incCall[d], k)
                /\ CalmIncidents /\ ~May("unstaffed") /\ incident[k].status # None /\ incident[k].urgent =>
                      \/ incident[k].commander
                      \/ \E d \in IncidentCalls : Commanding(incCall[d], k))'
    BY <1>3, <1>4, <1>5, <2>1, <2>2 DEF IncidentsHold, ResponseTimePasses
  <2>4. (Serial => \A t \in added : \E k \in Numbers : t \in incident[k].items)'
    BY <1>3, <1>4, <2>2 DEF IncidentsHold, ResponseTimePasses
  <2> QED
    BY <2>3, <2>4 DEF IncidentsHold
<1>8. incident' \in [Numbers -> SecurityIncident]
  BY <1>1, <1>2, IncTypes
<1> QED
  BY <1>6, <1>7, <1>8, IncTables, IncTypes DEF ResponseTimePasses, forensicVars

\* What a request knows of a piece of evidence whose row is this one, and of a case.
KnowsPiece(m, row) ==
    /\ m.kind = "collect" /\ m.pc = "write" => ~row.exists
    /\ m.kind \in {"verify", "transfer"} /\ m.pc = "write" => row.exists
    /\ Serial /\ m.kind = "transfer" /\ m.pc = "write" => (m.verified <=> row.verified)
    /\ m.kind = "activity" /\ m.pc = "mark" => row.activity # "none"
KnowsCase(m) ==
    /\ m.kind = "list" /\ m.pc = "write" => /\ case[m.on].status # None
                                            /\ Serial => m.listed = case[m.on].listed
    /\ m.kind = "move" /\ m.pc = "write" => case[m.on].status # None
\* It is what is known of the evidence, or of the case, the request is about.
LEMMA KnowsPieceIs ==
    ASSUME NEW m
    PROVE  KnowsEvidence(m) <=> KnowsPiece(m, evidence[m.on]) /\ KnowsCase(m)
BY DEF KnowsEvidence, KnowsPiece, KnowsCase
PieceHolds(e, row, calls) ==
    /\ (Serial => ~row.untold) /\ (row.analyzed => row.activity # "none")
    /\ CalmIncidents /\ row.exists => row.started \/ \E c \in IncidentCalls : Starting(calls[c], e)

\* The write of a piece of evidence keeps what is known, if it does for the requests about
\* the piece.
LEMMA PieceWrites ==
    ASSUME IncInv, UNCHANGED allowed, NEW e \in Evidence, NEW row \in DigitalEvidence,
           evidence' = [evidence EXCEPT ![e] = row], UNCHANGED case,
           \A d \in IncidentCalls : incCall'[d].on = e => KnowsPiece(incCall'[d], row),
           \A d \in IncidentCalls : incCall'[d].on # e => incCall'[d] = incCall[d] \/ incCall'[d] = IdleIncCall,
           \A d \in IncidentCalls : incCall'[d] = incCall[d] \/ incCall'[d].kind \notin {"list", "move"},
           \A d \in IncidentCalls, x \in Evidence \ {e} : Starting(incCall[d], x) => Starting(incCall'[d], x),
           PieceHolds(e, row, incCall')
    PROVE  (\A d \in IncidentCalls : KnowsEvidence(incCall[d]))' /\ EvidenceHolds'
<1>0. evidence'[e] = row /\ \A x \in Evidence : x # e => evidence'[x] = evidence[x]
  BY IncTypes
<1>1. (CalmIncidents' <=> CalmIncidents) /\ (Serial' <=> Serial)
  BY DEF Serial, CalmIncidents, IncWritesFail, IncReadsFail, May
<1>2. ASSUME NEW d \in IncidentCalls PROVE KnowsEvidence(incCall[d])'
  <2>1. KnowsEvidence(incCall[d])
    BY DEF IncInv
  <2>2. KnowsPiece(incCall'[d], evidence'[incCall'[d].on])
    <3>1. CASE incCall'[d].on = e
      BY <1>0, <3>1
    <3>2. CASE incCall'[d].on # e
      <4>1. CASE incCall'[d] = IdleIncCall
        BY <4>1, IdleIncForm, IncidentsAssumption DEF KnowsPiece, Examinations
      <4>2. CASE incCall'[d] = incCall[d] /\ incCall[d].on \in Evidence
        BY <1>0, <2>1, <3>2, <4>2, KnowsPieceIs
      <4>3. CASE incCall'[d] = incCall[d] /\ incCall[d].on \notin Evidence
        <5>1. IncForm(incCall[d])
          BY DEF IncInv
        <5>2. incCall[d].kind \notin {"collect", "verify", "transfer", "activity"}
          BY <4>3, <5>1 DEF IncForm
        <5> QED
          BY <4>3, <5>2 DEF KnowsPiece
      <4> QED
        BY <3>2, <4>1, <4>2, <4>3
    <3> QED
      BY <3>1, <3>2
  <2>3. KnowsCase(incCall'[d])
    BY <2>1 DEF KnowsEvidence, KnowsCase
  <2> QED
    BY <1>1, <2>2, <2>3 DEF KnowsPiece, KnowsCase, KnowsEvidence
<1>3. ASSUME NEW x \in Evidence PROVE PieceHolds(x, evidence'[x], incCall')
  <2>1. CASE x = e
    BY <1>0, <2>1
  <2>2. CASE x # e
    BY <1>0, <2>2 DEF IncInv, EvidenceHolds, PieceHolds
  <2> QED
    BY <2>1, <2>2
<1>4. EvidenceHolds'
  <2>1. \A d \in IncidentCalls, x \in Evidence : Starting(incCall[d], x)' <=> Starting(incCall'[d], x)
    BY DEF Starting
  <2>2. ASSUME NEW x \in Evidence
        PROVE  (/\ (Serial => ~evidence[x].untold) /\ (evidence[x].analyzed => evidence[x].activity # "none")
                /\ CalmIncidents /\ evidence[x].exists =>
                      evidence[x].started \/ \E d \in IncidentCalls : Starting(incCall[d], x))'
    BY <1>1, <1>3, <2>1 DEF PieceHolds
  <2>3. (Serial => \A f \in Cases : case[f].taken \subseteq case[f].listed)'
    BY <1>1 DEF IncInv, EvidenceHolds
  <2> QED
    BY <2>2, <2>3 DEF EvidenceHolds
<1> QED
  BY <1>2, <1>4

\* What the invariant says of a piece and of the requests about it.
LEMMA PieceIsKnown ==
    ASSUME IncInv, NEW e \in Evidence
    PROVE  /\ evidence[e] \in DigitalEvidence /\ PieceHolds(e, evidence[e], incCall)
           /\ \A d \in IncidentCalls : incCall[d].on = e => KnowsPiece(incCall[d], evidence[e])
BY KnowsPieceIs, IncTypes DEF IncInv, EvidenceHolds, PieceHolds

\* The same for a step of a request about the piece.
LEMMA PieceMoves ==
    ASSUME IncInv, UNCHANGED allowed, NEW c \in IncidentCalls, NEW g \in IncidentCall,
           incCall' = [incCall EXCEPT ![c] = g],
           NEW e \in Evidence, NEW row \in DigitalEvidence,
           evidence' = [evidence EXCEPT ![e] = row], UNCHANGED <<registerVars, case>>,
           incCall[c].on = e, incCall[c].kind \in Examinations,
           IncForm(g), KnowsPiece(g, row), g.kind \notin {"list", "move"},
           g = IdleIncCall \/ (g.on = e /\ g.kind = incCall[c].kind),
           \A d \in IncidentCalls \ {c} : incCall[d].on = e => KnowsPiece(incCall[d], row),
           PieceHolds(e, row, incCall')
    PROVE  IncInv'
<1>1. incCall'[c] = g /\ \A d \in IncidentCalls \ {c} : incCall'[d] = incCall[d]
  BY IncTypes
<1>2. \A d \in IncidentCalls : incCall'[d].on = e => KnowsPiece(incCall'[d], row)
  BY <1>1
<1>3. \A d \in IncidentCalls : incCall'[d].on # e => incCall'[d] = incCall[d] \/ incCall'[d] = IdleIncCall
  BY <1>1
<1>4. \A d \in IncidentCalls : incCall'[d] = incCall[d] \/ incCall'[d].kind \notin {"list", "move"}
  BY <1>1
<1>5. \A d \in IncidentCalls, x \in Evidence \ {e} : Starting(incCall[d], x) => Starting(incCall'[d], x)
  BY <1>1 DEF Starting
<1>6. (\A d \in IncidentCalls : KnowsEvidence(incCall[d]))' /\ EvidenceHolds'
  BY <1>2, <1>3, <1>4, <1>5, PieceWrites
<1>7. incCall[c].kind \notin {"create"} \cup Amendments /\ g.kind \notin {"create"} \cup Amendments
  BY IdleIncForm, IncidentsAssumption DEF Amendments, Examinations
<1>8. KnowsIncident(g) /\ Tells3(incCall[c], g)
  BY <1>7 DEF KnowsIncident, Tells3, Telling, Commanding, Amendments
<1>9. evidence' \in [Evidence -> DigitalEvidence]
  BY IncTypes
<1>10. /\ UNCHANGED <<incident, timeline, added>> /\ case' \in [Cases -> ForensicCase]
       /\ incident' \in [Numbers -> SecurityIncident] /\ timeline' \in [Numbers -> IncidentTimeline]
       /\ informed' \subseteq Numbers /\ added' \subseteq Items
  BY IncTypes DEF registerVars
<1>11. g.kind = None \/ (g.kind = incCall[c].kind /\ g.on = incCall[c].on)
  BY IdleIncForm
<1> QED
  BY <1>6, <1>8, <1>9, <1>10, <1>11, IncMoves

\* And of the tables alone.
LEMMA PieceChanges ==
    ASSUME IncInv, UNCHANGED allowed, NEW e \in Evidence, NEW row \in DigitalEvidence,
           evidence' = [evidence EXCEPT ![e] = row], UNCHANGED <<registerVars, case, incCall>>,
           \A d \in IncidentCalls : incCall[d].on = e => KnowsPiece(incCall[d], row),
           PieceHolds(e, row, incCall)
    PROVE  IncInv'
<1>1. (\A d \in IncidentCalls : KnowsEvidence(incCall[d]))' /\ EvidenceHolds'
  BY PieceWrites
<1> QED
  BY <1>1, IncTables, IncTypes DEF registerVars

\* Every disturbance of a row that leaves what is known of it.
LEMMA PieceIsDisturbed ==
    ASSUME IncInv, UNCHANGED allowed, NEW e \in Evidence, NEW row \in DigitalEvidence,
           evidence' = [evidence EXCEPT ![e] = row], UNCHANGED <<registerVars, case, incCall>>,
           row.exists = evidence[e].exists, row.verified = evidence[e].verified,
           row.started = evidence[e].started, row.untold = evidence[e].untold,
           row.analyzed = evidence[e].analyzed,
           row.activity = evidence[e].activity \/ row.activity # "none"
    PROVE  IncInv'
<1>1. PieceHolds(e, row, incCall)
  BY PieceIsKnown DEF PieceHolds
<1>2. \A d \in IncidentCalls : incCall[d].on = e => KnowsPiece(incCall[d], row)
  BY PieceIsKnown DEF KnowsPiece
<1> QED
  BY <1>1, <1>2, PieceChanges

\* A legal hold is set or lifted.
LEMMA SetLegalHoldHolds ==
    ASSUME IncInv, UNCHANGED allowed, NEW e \in Evidence, NEW hold \in BOOLEAN, SetLegalHold(e, hold)
    PROVE  IncInv'
<1> DEFINE row == [evidence[e] EXCEPT !.hold = hold]
<1>1. evidence' = [evidence EXCEPT ![e] = row] /\ evidence[e] \in DigitalEvidence
  BY IncTypes DEF SetLegalHold
<1>2. /\ row \in DigitalEvidence /\ row.exists = evidence[e].exists /\ row.verified = evidence[e].verified
      /\ row.started = evidence[e].started /\ row.untold = evidence[e].untold
      /\ row.analyzed = evidence[e].analyzed /\ row.activity = evidence[e].activity
  BY <1>1 DEF DigitalEvidence
<1> HIDE DEF row
<1> QED
  BY <1>1, <1>2, PieceIsDisturbed DEF SetLegalHold
\* A file is altered behind the program's back.
LEMMA EvidenceIsAlteredHolds ==
    ASSUME IncInv, UNCHANGED allowed, NEW e \in Evidence, EvidenceIsAltered(e)
    PROVE  IncInv'
<1> DEFINE row == [evidence[e] EXCEPT !.altered = TRUE]
<1>1. evidence' = [evidence EXCEPT ![e] = row] /\ evidence[e] \in DigitalEvidence
  BY IncTypes DEF EvidenceIsAltered
<1>2. /\ row \in DigitalEvidence /\ row.exists = evidence[e].exists /\ row.verified = evidence[e].verified
      /\ row.started = evidence[e].started /\ row.untold = evidence[e].untold
      /\ row.analyzed = evidence[e].analyzed /\ row.activity = evidence[e].activity
  BY <1>1 DEF DigitalEvidence
<1> HIDE DEF row
<1> QED
  BY <1>1, <1>2, PieceIsDisturbed DEF EvidenceIsAltered
\* An activity is reviewed.
LEMMA PeerReviewActivityHolds ==
    ASSUME IncInv, UNCHANGED allowed, NEW e \in Evidence, PeerReviewActivity(e)
    PROVE  IncInv'
<1> DEFINE row == [evidence[e] EXCEPT !.activity = "reviewed"]
<1>1. evidence' = [evidence EXCEPT ![e] = row] /\ evidence[e] \in DigitalEvidence
  BY IncTypes DEF PeerReviewActivity
<1>2. /\ row \in DigitalEvidence /\ row.exists = evidence[e].exists /\ row.verified = evidence[e].verified
      /\ row.started = evidence[e].started /\ row.untold = evidence[e].untold
      /\ row.analyzed = evidence[e].analyzed /\ row.activity = "reviewed"
  BY <1>1 DEF DigitalEvidence
<1> HIDE DEF row
<1> QED
  BY <1>1, <1>2, PieceIsDisturbed DEF PeerReviewActivity

\* Evidence is collected: its chain of custody is about to begin.
LEMMA InsertEvidenceHolds ==
    ASSUME IncInv, UNCHANGED allowed, NEW c \in IncidentCalls, InsertEvidence(c)
    PROVE  IncInv'
<1> DEFINE m == incCall[c]
           e == m.on
           r1 == [evidence[e] EXCEPT !.exists = TRUE]
           row == [r1 EXCEPT !.verified = TRUE]
           g == At(m, "custody")
<1>1. /\ m \in IncidentCall /\ IncForm(m) /\ m.pc = "write" /\ m.kind = "collect"
  BY IncCallMoves DEF InsertEvidence
<1>2. e \in Evidence /\ m.kind \in Examinations
  BY <1>1 DEF IncForm, Examinations
<1>3. CASE IncEnds(c) /\ UNCHANGED evidence
  BY <1>1, <1>3, IncEndsHolds, NothingLeft DEF InsertEvidence, forensicVars
<1>4. CASE ~(IncEnds(c) /\ UNCHANGED evidence)
  <2>1. evidence' = [evidence EXCEPT ![e] = row] /\ incCall' = [incCall EXCEPT ![c] = g]
    BY <1>2, <1>4, IncCallMoves, IncTypes DEF InsertEvidence
  <2>2. evidence[e] \in DigitalEvidence /\ PieceHolds(e, evidence[e], incCall) /\ KnowsPiece(m, evidence[e])
    BY <1>2, PieceIsKnown
  <2>3. /\ r1 \in DigitalEvidence /\ r1.exists /\ r1.untold = evidence[e].untold
        /\ r1.analyzed = evidence[e].analyzed /\ r1.activity = evidence[e].activity
    BY <2>2 DEF DigitalEvidence
  <2> HIDE DEF r1
  <2>4. /\ row \in DigitalEvidence /\ row.exists /\ row.untold = evidence[e].untold
        /\ row.analyzed = evidence[e].analyzed /\ row.activity = evidence[e].activity
    BY <2>3 DEF DigitalEvidence
  <2> HIDE DEF row
  <2>5. g \in IncidentCall /\ g.pc = "custody" /\ g.kind = "collect" /\ g.on = e
    BY <1>1, AtFields DEF IncPlaces
  <2> HIDE DEF g
  <2>6. IncForm(g) /\ KnowsPiece(g, row)
    BY <1>2, <2>5, IncidentsAssumption DEF IncForm, KnowsPiece, Amendments, Examinations
  <2>7. ASSUME NEW d \in IncidentCalls \ {c}, incCall[d].on = e PROVE KnowsPiece(incCall[d], row)
    <3>1. KnowsPiece(incCall[d], evidence[e]) /\ incCall[d].kind # "collect"
      BY <1>1, <1>2, <2>7, PieceIsKnown, OneOfAKind
    <3> QED
      BY <1>1, <2>2, <2>4, <3>1 DEF KnowsPiece
  <2>8. PieceHolds(e, row, incCall')
    <3>1. Starting(incCall'[c], e)
      BY <2>1, <2>5, IncTypes DEF Starting
    <3> QED
      BY <2>2, <2>4, <3>1 DEF PieceHolds
  <2> HIDE DEF m
  <2> QED
    BY <1>1, <1>2, <2>1, <2>4, <2>5, <2>6, <2>7, <2>8, PieceMoves DEF InsertEvidence, m
<1> QED
  BY <1>3, <1>4

\* The chain of custody begins.
LEMMA StartCustodyHolds ==
    ASSUME IncInv, UNCHANGED allowed, NEW c \in IncidentCalls, StartCustody(c)
    PROVE  IncInv'
<1> DEFINE m == incCall[c]
           e == m.on
           row == [evidence[e] EXCEPT !.started = TRUE]
<1>1. m \in IncidentCall /\ IncForm(m) /\ m.pc = "custody" /\ IncEnds(c)
  BY IncCallMoves DEF StartCustody
<1>2. m.kind = "collect" /\ e \in Evidence /\ m.kind \in Examinations
  BY <1>1 DEF IncForm, IncidentCall, Amendments, Examinations
<1>3. CASE UNCHANGED evidence /\ IncWritesFail
  <2>1. ~CalmIncidents
    BY <1>3 DEF CalmIncidents
  <2> QED
    BY <1>1, <1>3, <2>1, IncEndsHolds, NothingLeft DEF StartCustody, forensicVars
<1>4. CASE evidence' = [evidence EXCEPT ![e].started = TRUE]
  <2>1. evidence' = [evidence EXCEPT ![e] = row] /\ evidence[e] \in DigitalEvidence /\ PieceHolds(e, evidence[e], incCall)
    BY <1>2, <1>4, IncTypes, PieceIsKnown
  <2>2. /\ row \in DigitalEvidence /\ row.exists = evidence[e].exists /\ row.verified = evidence[e].verified
        /\ row.started /\ row.untold = evidence[e].untold
        /\ row.analyzed = evidence[e].analyzed /\ row.activity = evidence[e].activity
    BY <2>1 DEF DigitalEvidence
  <2> HIDE DEF row
  <2>3. ASSUME NEW d \in IncidentCalls \ {c}, incCall[d].on = e PROVE KnowsPiece(incCall[d], row)
    BY <1>2, <2>2, <2>3, PieceIsKnown DEF KnowsPiece
  <2>4. PieceHolds(e, row, incCall')
    BY <2>1, <2>2 DEF PieceHolds
  <2>5. KnowsPiece(IdleIncCall, row) /\ IdleIncCall.kind \notin {"list", "move"}
    BY IdleIncForm, IncidentsAssumption DEF KnowsPiece, Examinations
  <2> HIDE DEF m
  <2> QED
    BY <1>1, <1>2, <2>1, <2>2, <2>3, <2>4, <2>5, IdleIncForm, PieceMoves DEF StartCustody, IncEnds, m
<1> QED
  BY <1>3, <1>4 DEF StartCustody

\* A check or a transfer is written; no check is written between the read and the transfer.
LEMMA WriteExaminationHolds ==
    ASSUME IncInv, UNCHANGED allowed, NEW c \in IncidentCalls, WriteExamination(c)
    PROVE  IncInv'
<1> DEFINE m == incCall[c]
           e == m.on
           row == Examined(m, evidence[e])
<1>1. m \in IncidentCall /\ IncForm(m) /\ m.pc = "write" /\ m.kind \in {"verify", "transfer"} /\ IncEnds(c)
  BY IncCallMoves DEF WriteExamination
<1>2. e \in Evidence /\ m.kind \in Examinations
  BY <1>1 DEF IncForm, Examinations
<1>3. CASE UNCHANGED evidence
  BY <1>1, <1>3, IncEndsHolds, NothingLeft DEF WriteExamination, forensicVars
<1>4. CASE evidence' = [evidence EXCEPT ![incCall[c].on] = Examined(incCall[c], @)]
  <2>1. evidence' = [evidence EXCEPT ![e] = row]
    BY <1>4
  <2>2. /\ evidence[e] \in DigitalEvidence /\ PieceHolds(e, evidence[e], incCall) /\ KnowsPiece(m, evidence[e])
    BY <1>2, PieceIsKnown
  <2>3. /\ row \in DigitalEvidence /\ row.exists = evidence[e].exists /\ row.started = evidence[e].started
        /\ row.analyzed = evidence[e].analyzed /\ row.activity = evidence[e].activity
        /\ (Serial => ~row.untold) /\ (m.kind = "transfer" => row.verified = evidence[e].verified)
    <3>1. CASE m.kind = "verify"
      <4>1. row = [evidence[e] EXCEPT !.verified = ~evidence[e].altered]
        BY <3>1 DEF Examined
      <4>2. (~evidence[e].altered) \in BOOLEAN
        OBVIOUS
      <4> QED
        BY <2>2, <3>1, <4>1, <4>2 DEF DigitalEvidence, PieceHolds
    <3>2. CASE m.kind = "transfer"
      <4> DEFINE hides == Tells(m) /\ ~evidence[e].verified
                 untold == evidence[e].untold \/ hides
      <4>1. row = [evidence[e] EXCEPT !.untold = untold]
        BY <3>2 DEF Examined
      <4>2. untold \in BOOLEAN /\ (Serial => ~untold)
        BY <1>1, <2>2, <3>2 DEF KnowsPiece, Tells, PieceHolds
      <4> HIDE DEF untold
      <4> QED
        BY <2>2, <3>2, <4>1, <4>2 DEF DigitalEvidence
    <3> QED
      BY <1>1, <3>1, <3>2
  <2> HIDE DEF row
  <2>4. ASSUME NEW d \in IncidentCalls \ {c}, incCall[d].on = e PROVE KnowsPiece(incCall[d], row)
    <3>1. KnowsPiece(incCall[d], evidence[e])
      BY <1>2, <2>4, PieceIsKnown
    <3>2. Serial => ~(m.kind = "verify" /\ incCall[d].kind = "transfer")
      BY <2>4 DEF IncInv, ApartAll, Crosses
    <3> QED
      BY <1>1, <2>3, <3>1, <3>2 DEF KnowsPiece
  <2>5. PieceHolds(e, row, incCall')
    <3>1. ASSUME NEW d \in IncidentCalls, Starting(incCall[d], e) PROVE Starting(incCall'[d], e)
      BY <1>1, <3>1, IncTypes DEF IncEnds, Starting
    <3> QED
      BY <2>2, <2>3, <3>1 DEF PieceHolds
  <2>6. KnowsPiece(IdleIncCall, row) /\ IdleIncCall.kind \notin {"list", "move"}
    BY IdleIncForm, IncidentsAssumption DEF KnowsPiece, Examinations
  <2> HIDE DEF m
  <2> QED
    BY <1>1, <1>2, <2>1, <2>3, <2>4, <2>5, <2>6, IdleIncForm, PieceMoves DEF WriteExamination, IncEnds, m
<1> QED
  BY <1>3, <1>4 DEF WriteExamination

\* An activity is recorded.
LEMMA InsertActivityHolds ==
    ASSUME IncInv, UNCHANGED allowed, NEW c \in IncidentCalls, InsertActivity(c)
    PROVE  IncInv'
<1> DEFINE m == incCall[c]
           e == m.on
           row == [evidence[e] EXCEPT !.activity = "recorded"]
           g == At(m, "mark")
<1>1. m \in IncidentCall /\ IncForm(m) /\ m.pc = "write" /\ m.kind = "activity"
  BY IncCallMoves DEF InsertActivity
<1>2. e \in Evidence /\ m.kind \in Examinations
  BY <1>1 DEF IncForm, Examinations
<1>3. CASE IncEnds(c) /\ UNCHANGED evidence
  BY <1>1, <1>3, IncEndsHolds, NothingLeft DEF InsertActivity, forensicVars
<1>4. CASE ~(IncEnds(c) /\ UNCHANGED evidence)
  <2>1. evidence' = [evidence EXCEPT ![e] = row] /\ incCall' = [incCall EXCEPT ![c] = g]
    BY <1>2, <1>4, IncCallMoves, IncTypes DEF InsertActivity
  <2>2. evidence[e] \in DigitalEvidence /\ PieceHolds(e, evidence[e], incCall)
    BY <1>2, PieceIsKnown
  <2>3. /\ row \in DigitalEvidence /\ row.exists = evidence[e].exists /\ row.verified = evidence[e].verified
        /\ row.started = evidence[e].started /\ row.untold = evidence[e].untold
        /\ row.analyzed = evidence[e].analyzed /\ row.activity = "recorded"
    BY <2>2 DEF DigitalEvidence
  <2> HIDE DEF row
  <2>4. g \in IncidentCall /\ g.pc = "mark" /\ g.kind = "activity" /\ g.on = e
    BY <1>1, AtFields DEF IncPlaces
  <2> HIDE DEF g
  <2>5. IncForm(g) /\ KnowsPiece(g, row)
    BY <1>2, <2>3, <2>4, IncidentsAssumption DEF IncForm, KnowsPiece, Amendments, Examinations
  <2>6. ASSUME NEW d \in IncidentCalls \ {c}, incCall[d].on = e PROVE KnowsPiece(incCall[d], row)
    BY <1>2, <2>3, <2>6, PieceIsKnown DEF KnowsPiece
  <2>7. PieceHolds(e, row, incCall')
    <3>1. ASSUME NEW d \in IncidentCalls, Starting(incCall[d], e) PROVE Starting(incCall'[d], e)
      BY <1>1, <2>1, <3>1, IncTypes DEF Starting
    <3> QED
      BY <2>2, <2>3, <3>1 DEF PieceHolds
  <2> HIDE DEF m
  <2> QED
    BY <1>1, <1>2, <2>1, <2>3, <2>4, <2>5, <2>6, <2>7, PieceMoves DEF InsertActivity, m
<1> QED
  BY <1>3, <1>4

\* Its evidence is marked as analysed.
LEMMA MarkAnalyzedHolds ==
    ASSUME IncInv, UNCHANGED allowed, NEW c \in IncidentCalls, MarkAnalyzed(c)
    PROVE  IncInv'
<1> DEFINE m == incCall[c]
           e == m.on
           row == [evidence[e] EXCEPT !.analyzed = TRUE]
<1>1. m \in IncidentCall /\ IncForm(m) /\ m.pc = "mark" /\ IncEnds(c)
  BY IncCallMoves DEF MarkAnalyzed
<1>2. m.kind = "activity" /\ e \in Evidence /\ m.kind \in Examinations
  BY <1>1 DEF IncForm, IncidentCall, Amendments, Examinations
<1>3. CASE UNCHANGED evidence
  BY <1>1, <1>3, IncEndsHolds, NothingLeft DEF MarkAnalyzed, forensicVars
<1>4. CASE evidence' = [evidence EXCEPT ![e].analyzed = TRUE]
  <2>1. evidence' = [evidence EXCEPT ![e] = row]
    BY <1>2, <1>4, IncTypes
  <2>2. evidence[e] \in DigitalEvidence /\ PieceHolds(e, evidence[e], incCall) /\ KnowsPiece(m, evidence[e])
    BY <1>2, PieceIsKnown
  <2>3. /\ row \in DigitalEvidence /\ row.exists = evidence[e].exists /\ row.verified = evidence[e].verified
        /\ row.started = evidence[e].started /\ row.untold = evidence[e].untold
        /\ row.activity = evidence[e].activity /\ row.activity # "none"
    BY <1>1, <1>2, <2>2 DEF DigitalEvidence, KnowsPiece
  <2> HIDE DEF row
  <2>4. ASSUME NEW d \in IncidentCalls \ {c}, incCall[d].on = e PROVE KnowsPiece(incCall[d], row)
    BY <1>2, <2>3, <2>4, PieceIsKnown DEF KnowsPiece
  <2>5. PieceHolds(e, row, incCall')
    <3>1. ASSUME NEW d \in IncidentCalls, Starting(incCall[d], e) PROVE Starting(incCall'[d], e)
      BY <1>1, <3>1, IncTypes DEF IncEnds, Starting
    <3> QED
      BY <2>2, <2>3, <3>1 DEF PieceHolds
  <2>6. KnowsPiece(IdleIncCall, row) /\ IdleIncCall.kind \notin {"list", "move"}
    BY IdleIncForm, IncidentsAssumption DEF KnowsPiece, Examinations
  <2> HIDE DEF m
  <2> QED
    BY <1>1, <1>2, <2>1, <2>3, <2>4, <2>5, <2>6, IdleIncForm, PieceMoves DEF MarkAnalyzed, IncEnds, m
<1> QED
  BY <1>3, <1>4 DEF MarkAnalyzed

\* A case is created with its evidence.
LEMMA CreateForensicCaseHolds ==
    ASSUME IncInv, UNCHANGED allowed, NEW f \in Cases, CreateForensicCase(f)
    PROVE  IncInv'
<1>1. PICK E \in SUBSET Evidence : case' = [case EXCEPT ![f].status = "PENDING", ![f].listed = E, ![f].taken = E]
  BY Zenon DEF CreateForensicCase
<1> DEFINE r1 == [case[f] EXCEPT !.status = "PENDING"]
           r2 == [r1 EXCEPT !.listed = E]
           row == [r2 EXCEPT !.taken = E]
<1>2. case' = [case EXCEPT ![f] = row] /\ case[f] \in ForensicCase
  BY <1>1, IncTypes
<1>3. r1 \in ForensicCase
  BY <1>2 DEF ForensicCase, ForensicStatus
<1> HIDE DEF r1
<1>4. r2 \in ForensicCase /\ r2.listed = E
  BY <1>3 DEF ForensicCase
<1> HIDE DEF r2
<1>5. row \in ForensicCase /\ row.listed = E /\ row.taken = E
  BY <1>4 DEF ForensicCase
<1> HIDE DEF row
<1>6. /\ \A x \in Cases : x # f => case'[x] = case[x]
      /\ case'[f] = row
  BY <1>2, IncTypes
<1>7. case[f].status = None
  BY DEF CreateForensicCase
<1>8. (\A d \in IncidentCalls : KnowsEvidence(incCall[d]))'
  <2> SUFFICES ASSUME NEW d \in IncidentCalls PROVE KnowsEvidence(incCall[d])'
    OBVIOUS
  <2>1. KnowsEvidence(incCall[d]) /\ IncForm(incCall[d]) /\ UNCHANGED <<evidence, incCall>>
    BY DEF IncInv, CreateForensicCase
  <2>2. incCall[d].kind \in {"list", "move"} => incCall[d].on \in Cases
    BY <2>1 DEF IncForm
  <2>3. Serial' <=> Serial
    BY DEF Serial, May
  <2> QED
    BY <1>6, <1>7, <2>1, <2>2, <2>3 DEF KnowsEvidence
<1>9. EvidenceHolds'
  <2>1. (CalmIncidents' <=> CalmIncidents) /\ (Serial' <=> Serial)
    BY DEF Serial, CalmIncidents, IncWritesFail, IncReadsFail, May
  <2>2. (Serial => \A x \in Cases : case[x].taken \subseteq case[x].listed)'
    BY <1>5, <1>6, <2>1 DEF IncInv, EvidenceHolds
  <2> QED
    BY <2>1, <2>2 DEF IncInv, EvidenceHolds, Starting, CreateForensicCase
<1>10. case' \in [Cases -> ForensicCase]
  BY <1>2, <1>5, IncTypes
<1> QED
  BY <1>8, <1>9, <1>10, IncTables, IncTypes DEF CreateForensicCase, registerVars

\* A case is written by the list that was read, which no other request has changed.
LEMMA UpdateCaseHolds ==
    ASSUME IncInv, UNCHANGED allowed, NEW c \in IncidentCalls, UpdateCase(c)
    PROVE  IncInv'
<1> DEFINE m == incCall[c]
           f == m.on
           row == Recorded(m, case[f])
<1>1. m \in IncidentCall /\ IncForm(m) /\ m.pc = "write" /\ m.kind \in {"list", "move"} /\ IncEnds(c)
  BY IncCallMoves DEF UpdateCase
<1>2. f \in Cases /\ m.kind \in Examinations
  BY <1>1 DEF IncForm, Examinations
<1>3. CASE UNCHANGED case
  BY <1>1, <1>3, IncEndsHolds, NothingLeft DEF UpdateCase, forensicVars
<1>4. CASE case' = [case EXCEPT ![incCall[c].on] = Recorded(incCall[c], @)]
  <2>1. case' = [case EXCEPT ![f] = row] /\ case[f] \in ForensicCase
    BY <1>2, <1>4, IncTypes
  <2>2. /\ case[f].status # None
        /\ Serial => case[f].taken \subseteq case[f].listed /\ (m.kind = "list" => m.listed = case[f].listed)
    BY <1>1, <1>2, IncCallMoves DEF KnowsEvidence, IncInv, EvidenceHolds
  <2>3. /\ row \in ForensicCase /\ row.status # None /\ (Serial => row.taken \subseteq row.listed)
        /\ m.kind = "move" => row.listed = case[f].listed
    <3>1. CASE m.kind = "list"
      <4> DEFINE listed == m.listed \cup {m.arg}
                 taken == case[f].taken \cup {m.arg}
                 r1 == [case[f] EXCEPT !.listed = listed]
                 r2 == [r1 EXCEPT !.taken = taken]
      <4>1. row = [r1 EXCEPT !.taken = @ \cup {m.arg}]
        BY <3>1 DEF Recorded
      <4>2. listed \in SUBSET Evidence /\ taken \in SUBSET Evidence /\ (Serial => taken \subseteq listed)
        BY <1>1, <2>1, <2>2, <3>1 DEF IncForm, ForensicCase
      <4>3. r1 \in ForensicCase /\ r1.listed = listed /\ r1.taken = case[f].taken /\ r1.status = case[f].status
        BY <2>1, <4>2 DEF ForensicCase
      <4>4. row = r2
        BY <4>1, <4>3
      <4> HIDE DEF r1, listed, taken
      <4>5. r2 \in ForensicCase /\ r2.listed = listed /\ r2.taken = taken /\ r2.status = case[f].status
        BY <4>2, <4>3 DEF ForensicCase
      <4> QED
        BY <2>2, <3>1, <4>2, <4>4, <4>5
    <3>2. CASE m.kind = "move"
      <4> DEFINE begun == case[f].begun \/ m.arg = "IN_PROGRESS"
                 r1 == [case[f] EXCEPT !.status = m.arg]
                 r2 == [r1 EXCEPT !.begun = begun]
      <4>1. row = [r1 EXCEPT !.begun = @ \/ m.arg = "IN_PROGRESS"]
        BY <3>2 DEF Recorded
      <4>2. m.arg \in ForensicStatus /\ m.arg # None
        BY <1>1, <3>2, IncidentsAssumption DEF IncForm
      <4>3. /\ r1 \in ForensicCase /\ r1.listed = case[f].listed /\ r1.taken = case[f].taken /\ r1.status = m.arg
            /\ r1.begun = case[f].begun
        BY <2>1, <4>2 DEF ForensicCase
      <4>4. row = r2 /\ begun \in BOOLEAN
        BY <4>1, <4>3
      <4> HIDE DEF r1, begun
      <4>5. r2 \in ForensicCase /\ r2.listed = case[f].listed /\ r2.taken = case[f].taken /\ r2.status = m.arg
        BY <4>3, <4>4 DEF ForensicCase
      <4> QED
        BY <2>2, <3>2, <4>2, <4>4, <4>5
    <3> QED
      BY <1>1, <3>1, <3>2
  <2> HIDE DEF row
  <2>4. case'[f] = row /\ \A x \in Cases : x # f => case'[x] = case[x]
    BY <1>2, <2>1, IncTypes
  <2>5. incCall'[c] = IdleIncCall /\ \A d \in IncidentCalls \ {c} : incCall'[d] = incCall[d]
    BY <1>1, IncTypes DEF IncEnds
  <2>6. ASSUME NEW d \in IncidentCalls PROVE KnowsEvidence(incCall[d])'
    <3>1. CASE d = c
      BY <2>5, <3>1, IdleIncForm, IncidentsAssumption DEF KnowsEvidence, Examinations
    <3>2. CASE d # c
      <4>1. KnowsEvidence(incCall[d]) /\ incCall'[d] = incCall[d]
        BY <2>5, <3>2 DEF IncInv
      <4>2. Serial => ~(incCall[d].kind = m.kind /\ incCall[d].on = f)
        BY <1>2, <3>2, OneOfAKind
      <4>3. UNCHANGED evidence
        BY DEF UpdateCase
      <4>4. IncForm(incCall[d])
        BY DEF IncInv
      <4>5. incCall[d].kind \in {"list", "move"} => incCall[d].on \in Cases
        BY <4>4 DEF IncForm
      <4> QED
        BY <1>1, <2>2, <2>3, <2>4, <4>1, <4>2, <4>3, <4>5 DEF KnowsEvidence, Serial, May
    <3> QED
      BY <3>1, <3>2
  <2>7. EvidenceHolds'
    <3>1. (CalmIncidents' <=> CalmIncidents) /\ (Serial' <=> Serial)
      BY DEF Serial, CalmIncidents, IncWritesFail, IncReadsFail, May
    <3>2. (Serial => \A x \in Cases : case[x].taken \subseteq case[x].listed)'
      BY <2>3, <2>4, <3>1 DEF IncInv, EvidenceHolds
    <3>3. ASSUME NEW d \in IncidentCalls, NEW e \in Evidence, Starting(incCall[d], e) PROVE Starting(incCall[d], e)'
      BY <1>1, <2>5, <3>3 DEF Starting
    <3>4. UNCHANGED evidence
      BY DEF UpdateCase
    <3>5. ASSUME NEW e \in Evidence
          PROVE  (/\ (Serial => ~evidence[e].untold) /\ (evidence[e].analyzed => evidence[e].activity # "none")
                  /\ CalmIncidents /\ evidence[e].exists =>
                        evidence[e].started \/ \E d \in IncidentCalls : Starting(incCall[d], e))'
      BY <3>1, <3>3, <3>4 DEF IncInv, EvidenceHolds
    <3> QED
      BY <3>2, <3>5 DEF EvidenceHolds
  <2>8. Tells3(m, IdleIncCall)
    BY <1>1, NothingLeft
  <2>9. /\ UNCHANGED <<incident, timeline, added>> /\ case' \in [Cases -> ForensicCase]
        /\ incident' \in [Numbers -> SecurityIncident] /\ timeline' \in [Numbers -> IncidentTimeline]
        /\ informed' \subseteq Numbers /\ added' \subseteq Items /\ evidence' \in [Evidence -> DigitalEvidence]
    BY <2>1, <2>3, IncTypes DEF UpdateCase, registerVars
  <2> QED
    BY <1>1, <2>6, <2>7, <2>8, <2>9, IdleIncForm, IncMoves DEF IncEnds
<1> QED
  BY <1>3, <1>4 DEF UpdateCase

\* The death of the backend ends the requests, where crashes are considered.
LEMMA IncidentBackendDiesHolds ==
    ASSUME IncInv, UNCHANGED allowed, IncidentBackendDies
    PROVE  IncInv'
<1>1. \A d \in IncidentCalls : incCall'[d] = IdleIncCall
  BY DEF IncidentBackendDies
<1>2. ~CalmIncidents /\ ~CalmIncidents' /\ (Serial' <=> Serial)
  BY DEF IncidentBackendDies, CalmIncidents, Serial, May
<1>3. UNCHANGED <<incident, timeline, informed, added, evidence, case>>
  BY DEF IncidentBackendDies, registerVars, forensicVars
<1>4. IncidentTypeOK'
  BY <1>3, IdleIncForm, IncTypes DEF IncidentTypeOK, IncidentBackendDies
<1>5. ASSUME NEW d \in IncidentCalls
      PROVE  (IncForm(incCall[d]) /\ KnowsIncident(incCall[d]) /\ KnowsEvidence(incCall[d]))'
  <2>1. incCall'[d].kind = None /\ incCall'[d].pc = "idle" /\ IncForm(incCall'[d])
    BY <1>1, IdleIncForm
  <2> QED
    BY <2>1, IncidentsAssumption DEF IncForm, KnowsIncident, KnowsEvidence, Amendments, Examinations
<1>6. ApartAll'
  BY <1>1, IdleIncForm, IncidentsAssumption DEF ApartAll, Crosses, Amendments, Examinations
<1>7. IncidentsHold'
  BY <1>2, <1>3 DEF IncInv, IncidentsHold
<1>8. EvidenceHolds'
  BY <1>2, <1>3 DEF IncInv, EvidenceHolds
<1> QED
  BY <1>4, <1>5, <1>6, <1>7, <1>8 DEF IncInv

\* A request that throws ends.
LEMMA SpreadIndicatorsHolds ==
    ASSUME IncInv, UNCHANGED allowed, NEW c \in IncidentCalls, SpreadIndicators(c)
    PROVE  IncInv'
BY IncEndsHolds, NothingLeft DEF SpreadIndicators

\* Each step of a request keeps the invariant.
LEMMA IncidentStepHolds ==
    ASSUME IncInv, UNCHANGED allowed, NEW c \in IncidentCalls, IncidentStep(c)
    PROVE  IncInv'
BY GenerateIncidentNumberHolds, InsertIncidentHolds, GetOnCallTeamHolds, AutoAssignHolds, GetIncidentHolds,
   UpdateIncidentHolds, AddTimelineEventHolds, LogCommunicationHolds, InsertEvidenceHolds, StartCustodyHolds,
   ReadForExaminationHolds, WriteExaminationHolds, UpdateCaseHolds, InsertActivityHolds, MarkAnalyzedHolds,
   SpreadIndicatorsHolds
   DEF IncidentStep

\* Every step of incidents and forensics keeps it.
LEMMA IncidentsKeep ==
    ASSUME IncInv, UNCHANGED allowed, IncidentNext
    PROVE  IncInv'
<1>1. ASSUME NEW c \in IncidentCalls, NEW urgent \in BOOLEAN, CreateIncident(c, urgent) PROVE IncInv'
  BY <1>1, IncidentBegins
<1>2. ASSUME NEW c \in IncidentCalls, NEW n \in Numbers,
             \/ \E s \in IncidentStatus : AmendIncident(c, "status", n, s)
             \/ \E l \in 1..MaxLevel : EscalateIncident(c, n, l)
             \/ AmendIncident(c, "assign", n, None) \/ AmendIncident(c, "pta", n, None)
             \/ AddIndicators(c, n) \/ \E t \in Items : AddItem(c, n, t)
      PROVE  IncInv'
  BY <1>2, IncidentBegins
<1>3. ASSUME NEW n \in Numbers, ResponseTimePasses(n) PROVE IncInv'
  BY <1>3, ResponseTimePassesHolds
<1>4. ASSUME NEW c \in IncidentCalls, NEW e \in Evidence,
             \/ CollectEvidence(c, e) \/ AddForensicActivity(c, e)
             \/ Examine(c, "verify", e, None) \/ Examine(c, "transfer", e, None)
      PROVE  IncInv'
  BY <1>4, IncidentBegins
<1>5. ASSUME NEW e \in Evidence,
             \/ EvidenceIsAltered(e) \/ PeerReviewActivity(e) \/ \E hold \in BOOLEAN : SetLegalHold(e, hold)
      PROVE  IncInv'
  BY <1>5, EvidenceIsAlteredHolds, PeerReviewActivityHolds, SetLegalHoldHolds
<1>6. ASSUME NEW f \in Cases, CreateForensicCase(f) PROVE IncInv'
  BY <1>6, CreateForensicCaseHolds
<1>7. ASSUME NEW c \in IncidentCalls, NEW f \in Cases,
             \/ \E e \in Evidence : Examine(c, "list", f, e)
             \/ \E s \in ForensicStatus : Examine(c, "move", f, s)
      PROVE  IncInv'
  BY <1>7, IncidentBegins
<1>8. ASSUME IncidentBackendDies PROVE IncInv'
  BY <1>8, IncidentBackendDiesHolds
<1>9. ASSUME NEW c \in IncidentCalls, IncidentStep(c) PROVE IncInv'
  BY <1>9, IncidentStepHolds
<1> QED
  BY <1>1, <1>2, <1>3, <1>4, <1>5, <1>6, <1>7, <1>8, <1>9 DEF IncidentNext

\* So does a step of something else.
LEMMA IncidentsRest ==
    ASSUME IncInv, UNCHANGED allowed, UNCHANGED incidentVars
    PROVE  IncInv'
BY IncTables, IncTypes DEF incidentVars

\* A step moves the rows that are there as IncidentsMoveOn says.
IncidentMoves(old, new) ==
    old.status # None => /\ new.status \in {old.status} \cup ValidTransitions[old.status]
                         /\ new.level >= old.level
\* A row whose status and level stay.
LEMMA LeftAlone ==
    ASSUME NEW old, NEW new, old.level \in Nat, new.status = old.status, new.level = old.level
    PROVE  IncidentMoves(old, new)
BY DEF IncidentMoves

\* What was checked on the row that was read holds of the row that is written, where no other
\* request of the kind came between.
LEMMA IncidentRowsMoveOn ==
    ASSUME IncInv, IncidentNext, Serial, NEW k \in Numbers
    PROVE  IncidentMoves(incident[k], incident'[k])
<1>0. incident \in [Numbers -> SecurityIncident] /\ incident[k] \in SecurityIncident /\ incident[k].level \in Nat
  BY IncTypes, IncidentsAssumption DEF SecurityIncident
<1>1. CASE incident' = incident
  BY <1>0, <1>1, LeftAlone
<1>2. ASSUME NEW n \in Numbers, ResponseTimePasses(n) PROVE IncidentMoves(incident[k], incident'[k])
  <2>1. incident'[k].status = incident[k].status /\ incident'[k].level = incident[k].level
    BY <1>0, <1>2 DEF ResponseTimePasses, SecurityIncident
  <2> QED
    BY <1>0, <2>1, LeftAlone
<1>3. ASSUME NEW c \in IncidentCalls, InsertIncident(c) PROVE IncidentMoves(incident[k], incident'[k])
  <2>1. CASE incident[incCall[c].on].status = None /\ k = incCall[c].on
    BY <2>1 DEF IncidentMoves
  <2>2. CASE k # incCall[c].on \/ UNCHANGED incident
    BY <1>0, <1>3, <2>2, LeftAlone, Zenon DEF InsertIncident
  <2> QED
    BY <1>3, <2>1, <2>2, Zenon DEF InsertIncident
<1>4. ASSUME NEW c \in IncidentCalls, AutoAssignOnCallTeam(c) PROVE IncidentMoves(incident[k], incident'[k])
  <2>1. incident'[k].status = incident[k].status /\ incident'[k].level = incident[k].level
    BY <1>0, <1>4 DEF AutoAssignOnCallTeam, SecurityIncident
  <2> QED
    BY <1>0, <2>1, LeftAlone
<1>5. ASSUME NEW c \in IncidentCalls, UpdateIncident(c) PROVE IncidentMoves(incident[k], incident'[k])
  <2> DEFINE m == incCall[c]
  <2>1. m.pc = "write" /\ m.kind \in Amendments /\ m \in IncidentCall /\ IncForm(m)
    BY <1>5, IncCallMoves DEF UpdateIncident
  <2>2. CASE UNCHANGED incident \/ k # m.on
    BY <1>0, <1>5, <2>2, LeftAlone DEF UpdateIncident
  <2>3. CASE k = m.on /\ ~UNCHANGED incident
    <3>1. incident'[k] = Amended(m, incident[k])
      BY <1>0, <1>5, <2>3 DEF UpdateIncident
    <3>2. /\ Amended(m, incident[k]).status = IF m.kind = "status" THEN m.arg ELSE incident[k].status
          /\ Amended(m, incident[k]).level = IF m.kind = "escalate" THEN m.level ELSE incident[k].level
      BY <1>0, <2>1, AmendedIs
    <3>3. KnowsRow(m, incident[k], timeline[k])
      BY <2>3, RowIsKnown
    <3>4. m.level \in Nat
      BY <2>1, IncidentsAssumption DEF IncidentCall
    <3>5. m.kind = "status" => m.arg \in ValidTransitions[incident[k].status]
      BY <2>1, <3>3 DEF KnowsRow
    <3>6. m.kind = "escalate" => m.level > incident[k].level
      BY <2>1, <3>3, Zenon DEF KnowsRow
    <3> QED
      BY <1>0, <3>1, <3>2, <3>4, <3>5, <3>6 DEF IncidentMoves
  <2> QED
    BY <2>2, <2>3
<1>6. ASSUME NEW c \in IncidentCalls, IncidentStep(c) PROVE IncidentMoves(incident[k], incident'[k])
  BY <1>1, <1>3, <1>4, <1>5, <1>6 DEF IncidentStep, GenerateIncidentNumber, GetOnCallTeam, GetIncident,
     AddTimelineEvent, LogCommunication, InsertEvidence, StartCustody, ReadForExamination, WriteExamination,
     UpdateCase, InsertActivity, MarkAnalyzed, SpreadIndicators, registerVars
<1> QED
  BY <1>1, <1>2, <1>6, Zenon DEF IncidentNext, CreateIncident, AmendIncident, EscalateIncident, AddItem, AddIndicators, BeginInc,
     CollectEvidence, Examine, EvidenceIsAltered, SetLegalHold, AddForensicActivity, PeerReviewActivity,
     CreateForensicCase, IncidentBackendDies, registerVars

-----------------------------------------------------------------------------
(* The programme.                                                          *)

\* Each component keeps its invariant; a step of another leaves it alone.
IndInv == KeyInv /\ IncInv /\ RecInv /\ VendInv /\ RegistersInv

\* The inductive invariant holds at the start.
LEMMA InitHolds == Init => IndInv
BY KeyInitHolds, IncidentInitHolds, RecoveryInitHolds, VendorInitHolds, RegistersInitHolds DEF Init, IndInv

\* It is inductive: a step is one of a component, which keeps its own invariant.
LEMMA StepHolds == IndInv /\ [Next]_vars => IndInv'
<1> SUFFICES ASSUME IndInv, [Next]_vars PROVE IndInv'
  OBVIOUS
<1>0. UNCHANGED allowed /\ KeyInv /\ IncInv /\ RecInv /\ VendInv /\ RegistersInv
  BY DEF Next, vars, IndInv
<1>1. KeyInv'
  BY <1>0, KeysKeep, KeysRest DEF Next, vars
<1>2. IncInv'
  BY <1>0, IncidentsKeep, IncidentsRest DEF Next, vars
<1>3. RecInv'
  BY <1>0, RecoveryKeep, RecoveryRest DEF Next, vars
<1>4. VendInv'
  BY <1>0, VendorsKeep, VendorsRest DEF Next, vars
<1>5. RegistersInv'
  BY <1>0, RegistersKeep, RegistersRest DEF Next, vars
<1> QED
  BY <1>1, <1>2, <1>3, <1>4, <1>5 DEF IndInv

\* So it holds for good.
LEMMA Inductive == Spec => []IndInv
BY InitHolds, StepHolds, PTL DEF Spec

\* Every variable keeps its type.
THEOREM ContinuityTypes == Spec => []TypeOK
<1>1. IndInv => TypeOK
  BY DEF IndInv, TypeOK, KeyInv, IncInv, RecInv, VendInv, RegistersInv
<1> QED
  BY <1>1, Inductive, PTL

\* Where nothing fails, an urgent incident has a commander and the chain of custody begins with
\* the collection, whatever overlaps; what counts as analysed has an activity.  Where, besides,
\* requests of one kind for one row do not overlap, the timeline tells every status of an
\* incident, nothing that was added is lost to requests of other kinds, and the chain of custody
\* tells every check that failed.
THEOREM IncidentsAreSafe == Spec => []IncidentSafety
<1>1. IndInv => IncidentSafety
  BY IncidentsSafe DEF IndInv, IncidentSafety4, IncidentSafety
<1> QED
  BY <1>1, Inductive, PTL

\* What is shown of backups, plans, tests and failovers is what happened, and each version of a
\* key is one material.
THEOREM RecoveryIsSafe == Spec => []RecoverySafety
<1>1. IndInv => RecoverySafety
  BY RecoverySafe, KeysSafe DEF IndInv, RecoverySafety
<1> QED
  BY <1>1, Inductive, PTL

\* Only an approved vendor is contracted and let in, and its suspension ends its access where
\* no grant overlaps it; the classification of an asset is current, and the history of a firewall
\* rule complete where its reads do not fail.
THEOREM RegistersAreSafe == Spec => []RegisterSafety
<1>1. IndInv => RegisterSafety
  BY VendorsSafe, RegistersSafe DEF IndInv, RegisterSafety
<1> QED
  BY <1>1, Inductive, PTL

\* Where requests of one kind for one incident do not overlap, it moves along the transitions of
\* validateStatusTransition and its level never falls, whatever else is done to it between the
\* read and the write, fails or is cut short.
THEOREM IncidentsFollowTheirTransitions == Spec => IncidentsMoveOn
<1>1. IndInv /\ [Next]_vars =>
        [~May("overlap") => \A n \in Numbers :
            incident[n].status # None => Follows(n) /\ incident'[n].level >= incident[n].level]_incidentVars
  <2> SUFFICES ASSUME IndInv, [Next]_vars, ~UNCHANGED incidentVars, Serial, NEW n \in Numbers
               PROVE  IncidentMoves(incident[n], incident'[n])
    BY DEF IncidentMoves, Follows, Serial
  <2>1. IncInv /\ IncidentNext
    BY DEF IndInv, Next, vars
  <2> QED
    BY <2>1, IncidentRowsMoveOn
<1> QED
  BY <1>1, Inductive, PTL DEF Spec, IncidentsMoveOn

\* Where changes of one kind to one assessment do not overlap, it is not started twice, and what
\* waits for its review keeps its status and its level, whatever else comes between.
THEOREM AssessmentsFollowTheirOrder == Spec => AssessmentsMoveOn
<1>1. IndInv /\ [Next]_vars =>
        [~May("overlap") => \A a \in Assessments :
            /\ assessment[a].status = "IN_PROGRESS" => assessment'[a].status # "NOT_STARTED"
            /\ assessment[a].status = "PENDING_REVIEW" =>
                 /\ assessment'[a].status = "PENDING_REVIEW"
                 /\ assessment'[a].level = assessment[a].level]_vendorVars
  <2> SUFFICES ASSUME IndInv, [Next]_vars, ~UNCHANGED vendorVars, ~May("overlap"), NEW a \in Assessments
               PROVE  /\ assessment[a].status = "IN_PROGRESS" => assessment'[a].status # "NOT_STARTED"
                      /\ assessment[a].status = "PENDING_REVIEW" =>
                           /\ assessment'[a].status = "PENDING_REVIEW"
                           /\ assessment'[a].level = assessment[a].level
    OBVIOUS
  <2>1. VendInv /\ VendorNext /\ UNCHANGED allowed
    BY DEF IndInv, Next, vars
  <2> QED
    BY <2>1, AssessmentsMove
<1> QED
  BY <1>1, Inductive, PTL DEF Spec, AssessmentsMoveOn
=============================================================================
