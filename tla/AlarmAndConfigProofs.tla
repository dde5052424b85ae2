------------------------ MODULE AlarmAndConfigProofs ------------------------
(***************************************************************************)
(* Proofs about the settings of the administration and about the alarms.   *)
(***************************************************************************)
EXTENDS ConfigRevisions, AlarmLifecycle, TLAPS

-----------------------------------------------------------------------------
(***************************************************************************)
(* ConfigRevisions, for any administrators, keys and inputs and any number *)
(* of requests, failures and crashes.                                      *)
(***************************************************************************)

\* The values that requests and rows may hold.
CfValues ==
  {NoValue} \cup CfLegacyValues
    \cup UNION {{ConfigValue(k, b) : b \in CfInputs[k]} : k \in CfKeys}

CfNames == CfKeys \cup CfLegacyKeys \cup {"none"}

CfPlaces == {"idle", "lock", "find", "put", "memory", "revision"}

RequestRecord ==
  [at : CfPlaces, key : CfNames, value : CfValues, action : {"none", "save", "restore"},
   found : BOOLEAN]

RevisionRow == [key : CfNames, value : CfValues]

ConfigTypes ==
  /\ cfStored \in [CfKeys -> CfValues]
  /\ cfLock \in CfAdmin \cup {"free"}
  /\ cfRevisions \in Seq(RevisionRow)
  /\ cfReq \in [CfAdmin -> RequestRecord]
  /\ cfFaults \in Nat

Storable(k, v) == k \in CfKeys /\ ConfigValue(k, v) # Rejected

\* What a request holds can be loaded, and it waits for the lock, or holds
\* it, only as a save of the capture configuration.
RequestOK(a) ==
  LET r == cfReq[a] IN
  r.at # "idle" =>
    /\ Storable(r.key, r.value)
    /\ r.action # "none"
    /\ r.at = "lock" => r.key = "capture" /\ r.action = "save"
    /\ r.at = "memory" => r.action = "restore"
    /\ cfLock = a <=> r.key = "capture" /\ r.action = "save" /\ r.at # "lock"

\* A stored value has a revision, or a request is about to write it.
Recorded(k) ==
  \/ \E n \in 1 .. Len(cfRevisions) : cfRevisions[n] = [key |-> k, value |-> cfStored[k]]
  \/ \E a \in CfAdmin : /\ cfReq[a].at \in {"memory", "revision"}
                        /\ cfReq[a].key = k /\ cfReq[a].value = cfStored[k]

KeyOK(k) ==
  cfStored[k] # NoValue =>
    /\ ConfigValue(k, cfStored[k]) # Rejected
    /\ cfFaults = 0 => Recorded(k)

ConfigInv ==
  /\ ConfigTypes
  /\ \A a \in CfAdmin : RequestOK(a) /\ (cfLock = a => cfReq[a].at # "idle")
  /\ \A k \in CfKeys : KeyOK(k)

\* A normalised record is no refusal.
LEMMA NotRejected ==
  /\ \A x, y : [severeDepth |-> x, reviewDepth |-> y] # Rejected
  /\ \A x, y : [severeThreshold |-> x, retainMinutes |-> y] # Rejected
  /\ \A x, y, z : [protocol |-> x, port |-> y, timeoutMs |-> z] # Rejected
  /\ \A x, y, z : [retentionDays |-> x, maxFailures |-> y, ttlHours |-> z] # Rejected
  BY Zenon DEF Rejected

\* An optional number, or its default, is in range.
LEMMA DefaultInRange ==
  ASSUME NEW v, NEW low \in Int, NEW high \in Int, NEW default \in low .. high,
         Optional(v, low, high)
  PROVE  OrDefault(v, default) \in low .. high /\ Optional(OrDefault(v, default), low, high)
  BY Zenon DEF Optional, OrDefault

\* A key's validation.
LEMMA ConfigValueOf ==
  ASSUME NEW v
  PROVE  /\ ConfigValue("capture", v) = CaptureValue(v)
         /\ ConfigValue("connection", v) = ConnectionValue(v)
         /\ ConfigValue("inspection_settings", v) = SettingsValue(v)
         /\ ConfigValue("alarm_rules", v) = AlarmRulesValue(v)
         /\ ConfigValue("external_integrations", v) = IntegrationsValue(v)
         /\ ConfigValue("security_policy", v) = SecurityValue(v)
  BY Zenon DEF ConfigValue

\* Only these keys are accepted.
LEMMA KeysOfConfig ==
  ASSUME NEW key, NEW v, ConfigValue(key, v) # Rejected
  PROVE  key \in {"capture", "connection", "inspection_settings", "alarm_rules",
                  "external_integrations", "security_policy"}
  BY Zenon DEF ConfigValue

\* What validation accepts, or makes of it, it accepts again: a stored value
\* can be loaded.
LEMMA NormalizedStays ==
  ASSUME NEW key, NEW v, ConfigValue(key, v) # Rejected
  PROVE  ConfigValue(key, ConfigValue(key, v)) # Rejected
<1>1. CaptureValue(v) # Rejected => CaptureValue(CaptureValue(v)) # Rejected
  <2> HAVE CaptureValue(v) # Rejected
  <2>1. CaptureValue(v) = v
    BY DEF CaptureValue
  <2>2. QED
    BY <2>1
<1>2. ConnectionValue(v) # Rejected => ConnectionValue(ConnectionValue(v)) # Rejected
  <2> HAVE ConnectionValue(v) # Rejected
  <2>1. ConnectionValue(v) = v
    BY DEF ConnectionValue
  <2>2. QED
    BY Zenon, <2>1
<1>3. SettingsValue(v) # Rejected => SettingsValue(SettingsValue(v)) # Rejected
  <2> HAVE SettingsValue(v) # Rejected
  <2> DEFINE x == OrDefault(v.severeDepth, 12)
             y == OrDefault(v.reviewDepth, 8)
             full == [severeDepth |-> x, reviewDepth |-> y]
  <2>1. /\ Optional(v.severeDepth, 1, 100) /\ Optional(v.reviewDepth, 1, 100)
        /\ x > y /\ SettingsValue(v) = full
    BY Zenon DEF SettingsValue
  <2>2. /\ x \in 1 .. 100 /\ Optional(x, 1, 100) /\ y \in 1 .. 100 /\ Optional(y, 1, 100)
    <3>1. x \in 1 .. 100 /\ Optional(x, 1, 100)
      <4>1. 12 \in 1 .. 100
        OBVIOUS
      <4>2. QED
        BY <2>1, <4>1, DefaultInRange
    <3>2. y \in 1 .. 100 /\ Optional(y, 1, 100)
      <4>1. 8 \in 1 .. 100
        OBVIOUS
      <4>2. QED
        BY <2>1, <4>1, DefaultInRange
    <3>3. QED
      BY <3>1, <3>2
  <2>3. OrDefault(x, 12) = x /\ OrDefault(y, 8) = y
    BY Zenon, <2>2 DEF OrDefault, Absent
  <2> HIDE DEF x, y
  <2>4. full.severeDepth = x /\ full.reviewDepth = y
    BY Zenon
  <2>5. SettingsValue(full) = full
    BY Zenon, <2>1, <2>2, <2>3, <2>4 DEF SettingsValue
  <2>6. QED
    BY Zenon, <2>1, <2>5
<1>4. AlarmRulesValue(v) # Rejected => AlarmRulesValue(AlarmRulesValue(v)) # Rejected
  <2> HAVE AlarmRulesValue(v) # Rejected
  <2> DEFINE x == OrDefault(v.severeThreshold, 1)
             y == OrDefault(v.retainMinutes, 60)
             full == [severeThreshold |-> x, retainMinutes |-> y]
  <2>1. /\ Optional(v.severeThreshold, 1, 100) /\ Optional(v.retainMinutes, 1, 1440)
        /\ AlarmRulesValue(v) = full
    BY DEF AlarmRulesValue
  <2>2. Optional(x, 1, 100) /\ Optional(y, 1, 1440)
    BY <2>1, DefaultInRange
  <2> HIDE DEF x, y
  <2>3. full.severeThreshold = x /\ full.retainMinutes = y
    BY Zenon
  <2> HIDE DEF full
  <2>4. AlarmRulesValue(full) # Rejected
    <3>1. Optional(full.severeThreshold, 1, 100) /\ Optional(full.retainMinutes, 1, 1440)
      BY <2>2, <2>3
    <3> DEFINE a == OrDefault(full.severeThreshold, 1)
               b == OrDefault(full.retainMinutes, 60)
    <3>2. AlarmRulesValue(full) = [severeThreshold |-> a, retainMinutes |-> b]
      BY <3>1 DEF AlarmRulesValue
    <3>3. QED
      BY <3>2, NotRejected
  <2>5. QED
    BY <2>1, <2>4
<1>5. IntegrationsValue(v) # Rejected => IntegrationsValue(IntegrationsValue(v)) # Rejected
  <2> HAVE IntegrationsValue(v) # Rejected
  <2> DEFINE x == OrDefault(v.protocol, 1)
             y == OrDefault(v.port, 1502)
             z == OrDefault(v.timeoutMs, 1000)
             full == [protocol |-> x, port |-> y, timeoutMs |-> z]
  <2>1. /\ Optional(v.protocol, 0, 3) /\ Optional(v.port, 1, 65535)
        /\ Optional(v.timeoutMs, 100, 60000) /\ IntegrationsValue(v) = full
    BY DEF IntegrationsValue, EndpointValue
  <2>2. Optional(x, 0, 3) /\ Optional(y, 1, 65535) /\ Optional(z, 100, 60000)
    BY <2>1, DefaultInRange
  <2> HIDE DEF x, y, z
  <2>3. full.protocol = x /\ full.port = y /\ full.timeoutMs = z
    OBVIOUS
  <2> HIDE DEF full
  <2>4. IntegrationsValue(full) # Rejected
    <3> DEFINE p == OrDefault(full.protocol, 1)
               q == OrDefault(full.port, 1502)
               r == OrDefault(full.timeoutMs, 1000)
    <3>1. IntegrationsValue(full) = [protocol |-> p, port |-> q, timeoutMs |-> r]
      BY <2>2, <2>3 DEF IntegrationsValue, EndpointValue
    <3> HIDE DEF p, q, r
    <3>2. QED
      BY <3>1, NotRejected
  <2>5. QED
    BY <2>1, <2>4
<1>6. SecurityValue(v) # Rejected => SecurityValue(SecurityValue(v)) # Rejected
  <2> HAVE SecurityValue(v) # Rejected
  <2> DEFINE x == OrDefault(v.maxFailures, 5)
             y == OrDefault(v.ttlHours, 8)
             full == [retentionDays |-> v.retentionDays, maxFailures |-> x, ttlHours |-> y]
  <2>1. /\ Required(v.retentionDays, 1, 3650) /\ Optional(v.maxFailures, 1, 20)
        /\ Optional(v.ttlHours, 1, 168) /\ SecurityValue(v) = full
    BY DEF SecurityValue
  <2>2. Optional(x, 1, 20) /\ Optional(y, 1, 168)
    BY <2>1, DefaultInRange
  <2> HIDE DEF x, y
  <2>3. full.retentionDays = v.retentionDays /\ full.maxFailures = x /\ full.ttlHours = y
    OBVIOUS
  <2> HIDE DEF full
  <2>4. SecurityValue(full) # Rejected
    <3> DEFINE p == full.retentionDays
               q == OrDefault(full.maxFailures, 5)
               r == OrDefault(full.ttlHours, 8)
    <3>1. SecurityValue(full) = [retentionDays |-> p, maxFailures |-> q, ttlHours |-> r]
      BY <2>1, <2>2, <2>3 DEF SecurityValue
    <3> HIDE DEF p, q, r
    <3>2. QED
      BY <3>1, NotRejected
  <2>5. QED
    BY <2>1, <2>4
<1>7. QED
  BY <1>1, <1>2, <1>3, <1>4, <1>5, <1>6, KeysOfConfig, ConfigValueOf

\* The other requests while one takes a step.
LEMMA RequestsKept ==
  ASSUME ConfigInv, NEW a \in CfAdmin,
         \A b \in CfAdmin \ {a} : cfReq'[b] = cfReq[b] /\ (cfLock' = b <=> cfLock = b),
         RequestOK(a)', cfLock' = a => cfReq'[a].at # "idle"
  PROVE  \A b \in CfAdmin : RequestOK(b)' /\ (cfLock' = b => cfReq'[b].at # "idle")
<1> TAKE b \in CfAdmin
<1>1. CASE b = a
  BY Zenon, <1>1
<1>2. CASE b # a
  BY <1>2 DEF ConfigInv, RequestOK
<1>3. QED
  BY Zenon, <1>1, <1>2

\* The stored values while a request takes a step that stores nothing and
\* holds on to what it has to record.
LEMMA KeysKept ==
  ASSUME ConfigInv, NEW a \in CfAdmin, cfStored' = cfStored, cfRevisions' = cfRevisions,
         cfFaults' = cfFaults,
         \A b \in CfAdmin \ {a} : cfReq'[b] = cfReq[b],
         cfReq[a].at \in {"memory", "revision"} =>
           /\ cfReq'[a].at \in {"memory", "revision"}
           /\ cfReq'[a].key = cfReq[a].key /\ cfReq'[a].value = cfReq[a].value
  PROVE  \A k \in CfKeys : KeyOK(k)'
<1> TAKE k \in CfKeys
<1>1. Recorded(k) => Recorded(k)'
  <2>1. CASE \E n \in 1 .. Len(cfRevisions) : cfRevisions[n] = [key |-> k, value |-> cfStored[k]]
    BY Zenon, <2>1 DEF Recorded
  <2>2. CASE \E b \in CfAdmin : /\ cfReq[b].at \in {"memory", "revision"}
                                /\ cfReq[b].key = k /\ cfReq[b].value = cfStored[k]
    <3>1. PICK b \in CfAdmin : /\ cfReq[b].at \in {"memory", "revision"}
                               /\ cfReq[b].key = k /\ cfReq[b].value = cfStored[k]
      BY Zenon, <2>2
    <3>2. /\ cfReq'[b].at \in {"memory", "revision"}
          /\ cfReq'[b].key = k /\ cfReq'[b].value = cfStored'[k]
      BY Zenon, <3>1
    <3>3. QED
      BY Zenon, <3>2 DEF Recorded
  <2>3. QED
    BY Zenon, <2>1, <2>2 DEF Recorded
<1>2. QED
  BY Zenon, <1>1 DEF ConfigInv, KeyOK

\* A save begins with a value that can be loaded.
LEMMA SaveConfigKeeps ==
  ASSUME ConfigInv, NEW a \in CfAdmin, NEW key \in CfKeys, NEW body \in CfInputs[key],
         SaveConfig(a, key, body)
  PROVE  ConfigInv'
<1>u. UNCHANGED <<cfStored, cfMemory, cfLock, cfRevisions, cfFaults>> /\ cfReq[a].at = "idle"
  BY Zenon DEF SaveConfig, CfBegin
<1>t. cfReq \in [CfAdmin -> RequestRecord] /\ cfLock # a
  BY Zenon, <1>u DEF ConfigInv, ConfigTypes
<1> DEFINE value == ConfigValue(key, body)
           at == IF key = "capture" THEN "lock" ELSE "find"
           q == CfRequest(at, key, value, "save", FALSE)
<1>1. CASE value = Rejected
  <2>1. cfReq' = cfReq
    BY Zenon, <1>1 DEF SaveConfig
  <2>2. ConfigTypes'
    BY Zenon, <1>u, <2>1 DEF ConfigInv, ConfigTypes
  <2>3. \A b \in CfAdmin : RequestOK(b)' /\ (cfLock' = b => cfReq'[b].at # "idle")
    BY Zenon, <1>u, <2>1 DEF ConfigInv, RequestOK
  <2>4. \A k \in CfKeys : KeyOK(k)'
    BY Zenon, <1>u, <2>1, KeysKept
  <2>5. QED
    BY Zenon, <2>2, <2>3, <2>4 DEF ConfigInv
<1>2. CASE value # Rejected
  <2>1. cfReq' = [cfReq EXCEPT ![a] = q]
    BY Zenon, <1>2 DEF SaveConfig
  <2>2. value \in CfValues /\ Storable(key, value) /\ key \in CfNames
    BY <1>2, NormalizedStays DEF CfValues, Storable, CfNames
  <2> HIDE DEF value
  <2>3. /\ q \in RequestRecord /\ q.key = key /\ q.value = value /\ q.action = "save"
        /\ q.at = at
    BY Zenon, <2>2 DEF CfRequest, RequestRecord, CfPlaces
  <2> HIDE DEF q
  <2>4. cfReq' \in [CfAdmin -> RequestRecord] /\ cfReq'[a] = q
        /\ \A b \in CfAdmin \ {a} : cfReq'[b] = cfReq[b]
    BY Zenon, <1>t, <2>1, <2>3
  <2>5. ConfigTypes'
    BY Zenon, <1>u, <2>4 DEF ConfigInv, ConfigTypes
  <2>6. RequestOK(a)'
    BY Zenon, <1>t, <1>u, <2>2, <2>3, <2>4 DEF RequestOK
  <2>7. \A b \in CfAdmin : RequestOK(b)' /\ (cfLock' = b => cfReq'[b].at # "idle")
    BY Zenon, <1>t, <1>u, <2>4, <2>6, RequestsKept
  <2>8. \A k \in CfKeys : KeyOK(k)'
    BY Zenon, <1>u, <2>4, KeysKept
  <2>9. QED
    BY Zenon, <2>5, <2>7, <2>8 DEF ConfigInv
<1>3. QED
  BY Zenon, <1>1, <1>2

\* A step of one request, put together.
LEMMA ConfigStep ==
  ASSUME ConfigInv, NEW a \in CfAdmin, NEW q \in RequestRecord, cfReq' = [cfReq EXCEPT ![a] = q],
         cfLock' \in CfAdmin \cup {"free"},
         \A b \in CfAdmin \ {a} : cfLock' = b <=> cfLock = b,
         RequestOK(a)', cfLock' = a => q.at # "idle",
         cfStored' \in [CfKeys -> CfValues], cfRevisions' \in Seq(RevisionRow), cfFaults' \in Nat,
         \A k \in CfKeys : KeyOK(k)'
  PROVE  ConfigInv'
<1>1. cfReq' \in [CfAdmin -> RequestRecord] /\ cfReq'[a] = q
      /\ \A b \in CfAdmin \ {a} : cfReq'[b] = cfReq[b]
  BY Zenon DEF ConfigInv, ConfigTypes
<1>2. ConfigTypes'
  BY Zenon, <1>1 DEF ConfigTypes
<1>3. \A b \in CfAdmin : RequestOK(b)' /\ (cfLock' = b => cfReq'[b].at # "idle")
  BY Zenon, <1>1, RequestsKept
<1>4. QED
  BY Zenon, <1>2, <1>3 DEF ConfigInv

\* The request record a step of "at" leaves.
LEMMA MovedRequest ==
  ASSUME NEW r \in RequestRecord, NEW at \in CfPlaces
  PROVE  /\ [r EXCEPT !.at = at] \in RequestRecord
         /\ [r EXCEPT !.at = at].at = at
         /\ [r EXCEPT !.at = at].key = r.key /\ [r EXCEPT !.at = at].value = r.value
         /\ [r EXCEPT !.at = at].action = r.action /\ [r EXCEPT !.at = at].found = r.found
  BY Zenon DEF RequestRecord

\* The record of no request.
LEMMA IdleRequest == CfIdle \in RequestRecord /\ CfIdle.at = "idle"
<1>1. NoValue \in CfValues
  BY Zenon DEF CfValues
<1>2. "none" \in CfNames
  BY Zenon DEF CfNames
<1>3. CfIdle.at = "idle"
  BY Zenon DEF CfIdle, CfRequest
<1>4. QED
  BY Zenon, <1>1, <1>2, <1>3 DEF CfIdle, CfRequest, RequestRecord, CfPlaces

\* The types a step needs to know.
LEMMA ConfigTyped ==
  ASSUME ConfigInv, NEW a \in CfAdmin
  PROVE  /\ cfReq \in [CfAdmin -> RequestRecord] /\ cfReq[a] \in RequestRecord
         /\ cfLock \in CfAdmin \cup {"free"} /\ "free" \notin CfAdmin
         /\ cfStored \in [CfKeys -> CfValues] /\ cfRevisions \in Seq(RevisionRow)
         /\ cfFaults \in Nat /\ RequestOK(a) /\ (cfLock = a => cfReq[a].at # "idle")
         /\ cfReq[a].key \in CfNames /\ cfReq[a].value \in CfValues
         /\ \A k \in CfKeys : KeyOK(k)
  BY Zenon, ConfigAssumption DEF ConfigInv, ConfigTypes, RequestRecord

\* The copy in memory is written under its lock, by a save.
LEMMA CfMemoryFirstKeeps ==
  ASSUME ConfigInv, NEW a \in CfAdmin, CfMemoryFirst(a)
  PROVE  ConfigInv'
<1>t. /\ cfReq \in [CfAdmin -> RequestRecord] /\ cfReq[a] \in RequestRecord
      /\ cfStored \in [CfKeys -> CfValues] /\ cfRevisions \in Seq(RevisionRow)
      /\ cfFaults \in Nat /\ RequestOK(a) /\ "free" \notin CfAdmin
  BY Zenon, ConfigTyped
<1>u. /\ UNCHANGED <<cfStored, cfRevisions, cfFaults>> /\ cfReq[a].at = "lock"
      /\ cfLock = "free" /\ cfLock' = a
  BY Zenon DEF CfMemoryFirst, cfBounds
<1> DEFINE q == [cfReq[a] EXCEPT !.at = "find"]
<1>1. cfReq' = [cfReq EXCEPT ![a] = q]
  BY Zenon, <1>t DEF CfMemoryFirst, CfGo
<1>2. /\ q \in RequestRecord /\ q.at = "find" /\ q.key = cfReq[a].key
      /\ q.value = cfReq[a].value /\ q.action = cfReq[a].action
  BY Zenon, <1>t, MovedRequest DEF CfPlaces
<1> HIDE DEF q
<1>3. cfReq'[a] = q /\ \A b \in CfAdmin \ {a} : cfReq'[b] = cfReq[b]
  BY Zenon, <1>1, <1>t
<1>4. RequestOK(a)'
  BY Zenon, <1>2, <1>3, <1>t, <1>u DEF RequestOK
<1>5. \A k \in CfKeys : KeyOK(k)'
  BY Zenon, <1>3, <1>u, KeysKept
<1>6. QED
  BY Zenon, <1>1, <1>2, <1>4, <1>5, <1>t, <1>u, ConfigStep

\* Restoring a revision begins with a value that is valid today.
LEMMA RestoreRevisionKeeps ==
  ASSUME ConfigInv, NEW a \in CfAdmin, NEW n, RestoreRevision(a, n)
  PROVE  ConfigInv'
<1>t. /\ cfReq \in [CfAdmin -> RequestRecord] /\ cfReq[a] \in RequestRecord
      /\ cfStored \in [CfKeys -> CfValues] /\ cfRevisions \in Seq(RevisionRow)
      /\ cfFaults \in Nat /\ cfLock \in CfAdmin \cup {"free"}
  BY Zenon, ConfigTyped
<1>u. UNCHANGED <<cfStored, cfMemory, cfLock, cfRevisions, cfFaults>> /\ cfReq[a].at = "idle"
  BY Zenon DEF RestoreRevision, CfBegin
<1>l. cfLock # a
  BY Zenon, <1>u DEF ConfigInv
<1> DEFINE r == cfRevisions[n]
           q == CfRequest("find", r.key, r.value, "restore", FALSE)
<1>1. r \in RevisionRow /\ r.key \in CfNames /\ r.value \in CfValues
  <2>1. n \in 1 .. Len(cfRevisions)
    BY Zenon DEF RestoreRevision
  <2>2. r \in RevisionRow
    BY <1>t, <2>1
  <2>3. QED
    BY Zenon, <2>2 DEF RevisionRow
<1>2. CASE ~Restorable(r)
  <2>1. cfReq' = cfReq
    BY Zenon, <1>2 DEF RestoreRevision
  <2>2. ConfigTypes'
    BY Zenon, <1>u, <2>1 DEF ConfigInv, ConfigTypes
  <2>3. \A b \in CfAdmin : RequestOK(b)' /\ (cfLock' = b => cfReq'[b].at # "idle")
    BY Zenon, <1>u, <2>1 DEF ConfigInv, RequestOK
  <2>4. \A k \in CfKeys : KeyOK(k)'
    BY Zenon, <1>u, <2>1, KeysKept
  <2>5. QED
    BY Zenon, <2>2, <2>3, <2>4 DEF ConfigInv
<1>3. CASE Restorable(r)
  <2>1. cfReq' = [cfReq EXCEPT ![a] = q]
    BY Zenon, <1>3 DEF RestoreRevision
  <2>2. Storable(r.key, r.value)
    BY Zenon, <1>3 DEF Restorable, Storable
  <2> HIDE DEF r
  <2>3. /\ q \in RequestRecord /\ q.at = "find" /\ q.key = r.key /\ q.value = r.value
        /\ q.action = "restore"
    BY Zenon, <1>1 DEF CfRequest, RequestRecord, CfPlaces
  <2> HIDE DEF q
  <2>4. cfReq'[a] = q /\ \A b \in CfAdmin \ {a} : cfReq'[b] = cfReq[b]
    BY Zenon, <2>1, <1>t
  <2>5. RequestOK(a)'
    BY Zenon, <2>2, <2>3, <2>4, <1>l, <1>u DEF RequestOK
  <2>6. \A k \in CfKeys : KeyOK(k)'
    BY Zenon, <2>4, <1>u, KeysKept
  <2>7. QED
    BY Zenon, <2>1, <2>3, <2>5, <2>6, <1>l, <1>t, <1>u, ConfigStep
<1>4. QED
  BY Zenon, <1>2, <1>3

\* set_config reads the row.
LEMMA CfFindKeeps ==
  ASSUME ConfigInv, NEW a \in CfAdmin, CfFind(a)
  PROVE  ConfigInv'
<1>t. /\ cfReq \in [CfAdmin -> RequestRecord] /\ cfReq[a] \in RequestRecord
      /\ cfStored \in [CfKeys -> CfValues] /\ cfRevisions \in Seq(RevisionRow)
      /\ cfFaults \in Nat /\ cfLock \in CfAdmin \cup {"free"} /\ RequestOK(a)
  BY Zenon, ConfigTyped
<1>u. UNCHANGED <<cfStored, cfLock, cfRevisions, cfFaults>> /\ cfReq[a].at = "find"
  BY Zenon DEF CfFind, cfBounds
<1> DEFINE f == (cfStored[cfReq[a].key] # NoValue)
           q == [cfReq[a] EXCEPT !.at = "put", !.found = f]
<1>1. cfReq' = [cfReq EXCEPT ![a] = q] /\ f \in BOOLEAN
  BY Zenon, <1>t DEF CfFind
<1> HIDE DEF f
<1>2. /\ q \in RequestRecord /\ q.at = "put" /\ q.key = cfReq[a].key
      /\ q.value = cfReq[a].value /\ q.action = cfReq[a].action
  BY Zenon, <1>1, <1>t DEF RequestRecord, CfPlaces
<1> HIDE DEF q
<1>3. cfReq'[a] = q /\ \A b \in CfAdmin \ {a} : cfReq'[b] = cfReq[b]
  BY Zenon, <1>1, <1>t
<1>4. RequestOK(a)'
  BY Zenon, <1>2, <1>3, <1>t, <1>u DEF RequestOK
<1>5. \A k \in CfKeys : KeyOK(k)'
  BY Zenon, <1>3, <1>u, KeysKept
<1>6. QED
  BY Zenon, <1>1, <1>2, <1>4, <1>5, <1>t, <1>u, ConfigStep

\* Whoever ends a request lets go of the lock.
LEMMA ReleasedLock ==
  ASSUME NEW a \in CfAdmin, Released(a), cfLock \in CfAdmin \cup {"free"}, "free" \notin CfAdmin
  PROVE  /\ cfLock' \in CfAdmin \cup {"free"} /\ cfLock' # a
         /\ \A b \in CfAdmin \ {a} : cfLock' = b <=> cfLock = b
  BY Zenon DEF Released

\* and writes it, or finds that another request has inserted it: what is
\* stored can be loaded, and the request will record it.
LEMMA CfPutKeeps ==
  ASSUME ConfigInv, NEW a \in CfAdmin, CfPut(a)
  PROVE  ConfigInv'
<1>t. /\ cfReq \in [CfAdmin -> RequestRecord] /\ cfReq[a] \in RequestRecord
      /\ cfStored \in [CfKeys -> CfValues] /\ cfRevisions \in Seq(RevisionRow)
      /\ cfFaults \in Nat /\ cfLock \in CfAdmin \cup {"free"} /\ RequestOK(a)
      /\ "free" \notin CfAdmin /\ cfReq[a].value \in CfValues
      /\ \A k \in CfKeys : KeyOK(k)
  BY Zenon, ConfigTyped
<1>u. UNCHANGED <<cfRevisions, cfFaults>> /\ cfReq[a].at = "put"
  BY Zenon DEF CfPut, cfBounds
<1> DEFINE r == cfReq[a]
           inserted == (r.found \/ cfStored[r.key] = NoValue)
           at == IF r.action = "restore" /\ r.key = "capture" THEN "memory" ELSE "revision"
           q == [r EXCEPT !.at = at]
<1>s. r.key \in CfKeys /\ ConfigValue(r.key, r.value) # Rejected /\ r.action # "none"
  BY Zenon, <1>t, <1>u DEF RequestOK, Storable
<1>1. CASE inserted
  <2>1. /\ cfStored' = [cfStored EXCEPT ![r.key] = r.value] /\ cfLock' = cfLock
        /\ cfReq' = [cfReq EXCEPT ![a] = q]
    BY Zenon, <1>1, <1>t DEF CfPut, CfGo
  <2>2. at \in CfPlaces /\ at \in {"memory", "revision"}
    BY Zenon DEF CfPlaces
  <2>3. /\ q \in RequestRecord /\ q.at = at /\ q.key = r.key
        /\ q.value = r.value /\ q.action = r.action
    BY <1>t, <2>2, MovedRequest
  <2>4. at = "memory" => r.action = "restore"
    BY Zenon
  <2> HIDE DEF q, at
  <2>5. cfReq'[a] = q /\ \A b \in CfAdmin \ {a} : cfReq'[b] = cfReq[b]
    BY Zenon, <1>t, <2>1
  <2>6. /\ cfStored' \in [CfKeys -> CfValues] /\ cfStored'[r.key] = r.value
        /\ \A k \in CfKeys \ {r.key} : cfStored'[k] = cfStored[k]
    BY Zenon, <1>s, <1>t, <2>1
  <2>7. RequestOK(a)'
    BY Zenon, <1>t, <1>u, <2>1, <2>2, <2>3, <2>4, <2>5 DEF RequestOK
  <2>8. ASSUME NEW k \in CfKeys PROVE KeyOK(k)'
    <3>1. CASE k = r.key
      <4>1. Recorded(k)'
        BY Zenon, <2>2, <2>3, <2>5, <2>6, <3>1 DEF Recorded
      <4>2. QED
        BY Zenon, <1>s, <2>6, <3>1, <4>1 DEF KeyOK
    <3>2. CASE k # r.key
      <4>1. KeyOK(k) /\ cfStored'[k] = cfStored[k]
        BY Zenon, <1>t, <2>6, <3>2
      <4>2. Recorded(k) => Recorded(k)'
        <5>1. \A b \in CfAdmin : cfReq[b].at \in {"memory", "revision"} => cfReq'[b] = cfReq[b]
          BY Zenon, <1>u, <2>5
        <5>2. QED
          BY Zenon, <1>u, <4>1, <5>1 DEF Recorded
      <4>3. QED
        BY Zenon, <1>u, <4>1, <4>2 DEF KeyOK
    <3>3. QED
      BY Zenon, <3>1, <3>2
  <2>9. cfLock' = a => q.at # "idle"
    BY Zenon, <2>2, <2>3
  <2>10. QED
    BY Zenon, <1>t, <1>u, <2>1, <2>3, <2>6, <2>7, <2>8, <2>9, ConfigStep
<1>2. CASE ~inserted
  <2>1. cfStored' = cfStored /\ cfReq' = [cfReq EXCEPT ![a] = CfIdle] /\ Released(a)
    BY Zenon, <1>2 DEF CfPut, CfEnd
  <2>2. /\ cfLock' \in CfAdmin \cup {"free"} /\ cfLock' # a
        /\ \A b \in CfAdmin \ {a} : cfLock' = b <=> cfLock = b
    BY Zenon, <1>t, <2>1, ReleasedLock
  <2>3. cfReq'[a] = CfIdle /\ \A b \in CfAdmin \ {a} : cfReq'[b] = cfReq[b]
    BY Zenon, <1>t, <2>1
  <2>4. RequestOK(a)'
    BY Zenon, <2>3, IdleRequest DEF RequestOK
  <2>5. \A k \in CfKeys : KeyOK(k)'
    BY Zenon, <1>u, <2>1, <2>3, KeysKept
  <2>6. QED
    BY Zenon, <1>t, <1>u, <2>1, <2>2, <2>4, <2>5, IdleRequest, ConfigStep
<1>3. QED
  BY Zenon, <1>1, <1>2

\* A restore writes the copy in memory.
LEMMA CfMemoryLastKeeps ==
  ASSUME ConfigInv, NEW a \in CfAdmin, CfMemoryLast(a)
  PROVE  ConfigInv'
<1>t. /\ cfReq \in [CfAdmin -> RequestRecord] /\ cfReq[a] \in RequestRecord
      /\ cfStored \in [CfKeys -> CfValues] /\ cfRevisions \in Seq(RevisionRow)
      /\ cfFaults \in Nat /\ cfLock \in CfAdmin \cup {"free"} /\ RequestOK(a)
      /\ "free" \notin CfAdmin
  BY Zenon, ConfigTyped
<1>u. UNCHANGED <<cfStored, cfLock, cfRevisions, cfFaults>> /\ cfReq[a].at = "memory"
  BY Zenon DEF CfMemoryLast, cfBounds
<1> DEFINE q == [cfReq[a] EXCEPT !.at = "revision"]
<1>1. cfReq' = [cfReq EXCEPT ![a] = q]
  BY Zenon, <1>t DEF CfMemoryLast, CfGo
<1>2. /\ q \in RequestRecord /\ q.at = "revision" /\ q.key = cfReq[a].key
      /\ q.value = cfReq[a].value /\ q.action = cfReq[a].action
  BY Zenon, <1>t, MovedRequest DEF CfPlaces
<1> HIDE DEF q
<1>3. cfReq'[a] = q /\ \A b \in CfAdmin \ {a} : cfReq'[b] = cfReq[b]
  BY Zenon, <1>1, <1>t
<1>4. RequestOK(a)'
  BY Zenon, <1>2, <1>3, <1>t, <1>u DEF RequestOK
<1>5. \A k \in CfKeys : KeyOK(k)'
  BY Zenon, <1>2, <1>3, <1>u, KeysKept
<1>6. cfLock' = a => q.at # "idle"
  BY Zenon, <1>2
<1>7. QED
  BY Zenon, <1>1, <1>2, <1>4, <1>5, <1>6, <1>t, <1>u, ConfigStep

\* The revision of what was stored.
LEMMA CfRevisionKeeps ==
  ASSUME ConfigInv, NEW a \in CfAdmin, CfRevision(a)
  PROVE  ConfigInv'
<1>t. /\ cfReq \in [CfAdmin -> RequestRecord] /\ cfReq[a] \in RequestRecord
      /\ cfStored \in [CfKeys -> CfValues] /\ cfRevisions \in Seq(RevisionRow)
      /\ cfFaults \in Nat /\ cfLock \in CfAdmin \cup {"free"} /\ RequestOK(a)
      /\ "free" \notin CfAdmin /\ cfReq[a].value \in CfValues /\ cfReq[a].key \in CfNames
      /\ \A k \in CfKeys : KeyOK(k)
  BY Zenon, ConfigTyped
<1> DEFINE row == [key |-> cfReq[a].key, value |-> cfReq[a].value]
<1>u. /\ UNCHANGED <<cfStored, cfFaults>> /\ cfReq[a].at = "revision" /\ Released(a)
      /\ cfReq' = [cfReq EXCEPT ![a] = CfIdle] /\ cfRevisions' = Append(cfRevisions, row)
  BY Zenon DEF CfRevision, cfBounds, CfEnd, Revised
<1>1. row \in RevisionRow
  BY Zenon, <1>t DEF RevisionRow
<1>2. /\ cfLock' \in CfAdmin \cup {"free"} /\ cfLock' # a
      /\ \A b \in CfAdmin \ {a} : cfLock' = b <=> cfLock = b
  BY Zenon, <1>t, <1>u, ReleasedLock
<1>3. cfReq'[a] = CfIdle /\ \A b \in CfAdmin \ {a} : cfReq'[b] = cfReq[b]
  BY Zenon, <1>t, <1>u
<1>4. RequestOK(a)'
  BY Zenon, <1>3, IdleRequest DEF RequestOK
<1>5. ASSUME NEW k \in CfKeys PROVE KeyOK(k)'
  <2>1. KeyOK(k)
    BY Zenon, <1>t
  <2>2. Recorded(k) => Recorded(k)'
    <3> DEFINE want == [key |-> k, value |-> cfStored[k]]
    <3>1. /\ Len(cfRevisions) \in Nat /\ Len(cfRevisions') = Len(cfRevisions) + 1
          /\ cfRevisions'[Len(cfRevisions) + 1] = row
          /\ \A n \in 1 .. Len(cfRevisions) : cfRevisions'[n] = cfRevisions[n]
      <4> HIDE DEF row
      <4> QED
        BY <1>1, <1>t, <1>u
    <3>2. CASE \E n \in 1 .. Len(cfRevisions) : cfRevisions[n] = want
      BY <1>u, <3>1, <3>2 DEF Recorded
    <3>3. CASE \E b \in CfAdmin : /\ cfReq[b].at \in {"memory", "revision"}
                                  /\ cfReq[b].key = k /\ cfReq[b].value = cfStored[k]
      <4>1. PICK b \in CfAdmin : /\ cfReq[b].at \in {"memory", "revision"}
                                 /\ cfReq[b].key = k /\ cfReq[b].value = cfStored[k]
        BY Zenon, <3>3
      <4>2. CASE b = a
        <5>1. row = want
          BY Zenon, <4>1, <4>2
        <5>2. Len(cfRevisions) + 1 \in 1 .. Len(cfRevisions')
          BY <3>1
        <5>3. QED
          BY Zenon, <1>u, <3>1, <5>1, <5>2 DEF Recorded
      <4>3. CASE b # a
        BY <1>3, <1>u, <4>1, <4>3 DEF Recorded
      <4>4. QED
        BY Zenon, <4>2, <4>3
    <3>4. QED
      BY Zenon, <3>2, <3>3 DEF Recorded
  <2>3. QED
    BY Zenon, <1>u, <2>1, <2>2 DEF KeyOK
<1>6. cfRevisions' \in Seq(RevisionRow)
  <2> HIDE DEF row
  <2> QED
    BY <1>1, <1>t, <1>u
<1>7. QED
  BY Zenon, <1>2, <1>4, <1>5, <1>6, <1>t, <1>u, IdleRequest, ConfigStep

\* A failed statement: what is stored can still be loaded.
LEMMA CfFailKeeps ==
  ASSUME ConfigInv, NEW a \in CfAdmin, CfFail(a)
  PROVE  ConfigInv'
<1>t. /\ cfReq \in [CfAdmin -> RequestRecord]
      /\ cfStored \in [CfKeys -> CfValues] /\ cfRevisions \in Seq(RevisionRow)
      /\ cfFaults \in Nat /\ cfLock \in CfAdmin \cup {"free"} /\ "free" \notin CfAdmin
      /\ \A k \in CfKeys : KeyOK(k)
  BY Zenon, ConfigTyped
<1>u. /\ UNCHANGED <<cfStored, cfRevisions>> /\ cfFaults' = cfFaults + 1 /\ Released(a)
      /\ cfReq' = [cfReq EXCEPT ![a] = CfIdle]
  BY Zenon DEF CfFail, CfEnd
<1>2. /\ cfLock' \in CfAdmin \cup {"free"} /\ cfLock' # a
      /\ \A b \in CfAdmin \ {a} : cfLock' = b <=> cfLock = b
  BY Zenon, <1>t, <1>u, ReleasedLock
<1>3. cfReq'[a] = CfIdle
  BY Zenon, <1>t, <1>u
<1>4. RequestOK(a)'
  BY Zenon, <1>3, IdleRequest DEF RequestOK
<1>5. cfFaults' \in Nat /\ cfFaults' # 0
  BY <1>t, <1>u
<1>6. \A k \in CfKeys : KeyOK(k)'
  BY Zenon, <1>5, <1>t, <1>u DEF KeyOK
<1>7. QED
  BY Zenon, <1>2, <1>4, <1>5, <1>6, <1>t, <1>u, IdleRequest, ConfigStep

\* A restart ends every request.
LEMMA CfRestartKeeps ==
  ASSUME ConfigInv, CfRestart
  PROVE  ConfigInv'
<1>t. ConfigTypes /\ cfFaults \in Nat
  BY Zenon DEF ConfigInv, ConfigTypes
<1>u. /\ UNCHANGED <<cfStored, cfRevisions>> /\ cfFaults' = cfFaults + 1 /\ cfLock' = "free"
      /\ cfReq' = [a \in CfAdmin |-> CfIdle]
  BY Zenon DEF CfRestart
<1>1. cfFaults' \in Nat /\ cfFaults' # 0
  BY <1>t, <1>u
<1>2. ConfigTypes'
  BY Zenon, <1>1, <1>t, <1>u, IdleRequest DEF ConfigTypes
<1>3. \A b \in CfAdmin : RequestOK(b)' /\ (cfLock' = b => cfReq'[b].at # "idle")
  BY Zenon, <1>u, IdleRequest, ConfigAssumption DEF RequestOK
<1>4. \A k \in CfKeys : KeyOK(k)'
  BY Zenon, <1>1, <1>u DEF ConfigInv, KeyOK
<1>5. QED
  BY Zenon, <1>2, <1>3, <1>4 DEF ConfigInv

\* The inductive invariant holds in every reachable state.
THEOREM ConfigInvariant == CfSpec => []ConfigInv
<1>1. CfInit => ConfigInv
  <2> SUFFICES ASSUME CfInit PROVE ConfigInv
    BY Zenon
  <2>1. /\ cfStored = [k \in CfKeys |-> NoValue] /\ cfLock = "free" /\ cfRevisions = CfLegacy
        /\ cfReq = [a \in CfAdmin |-> CfIdle] /\ cfFaults = 0
    BY Zenon DEF CfInit
  <2>2. CfLegacy \in Seq(RevisionRow)
    <3>1. [key : CfLegacyKeys, value : CfLegacyValues] \subseteq RevisionRow
      BY Zenon DEF RevisionRow, CfNames, CfValues
    <3> DEFINE S == [key : CfLegacyKeys, value : CfLegacyValues]
    <3>2. CfLegacy \in Seq(S) /\ S \subseteq RevisionRow
      BY Zenon, <3>1, ConfigAssumption
    <3> HIDE DEF S
    <3>3. QED
      BY <3>2
  <2>3. NoValue \in CfValues
    BY Zenon DEF CfValues
  <2>4. ConfigTypes
    BY Zenon, <2>1, <2>2, <2>3, IdleRequest DEF ConfigTypes
  <2>5. \A b \in CfAdmin : RequestOK(b) /\ (cfLock = b => cfReq[b].at # "idle")
    BY Zenon, <2>1, IdleRequest, ConfigAssumption DEF RequestOK
  <2>6. \A k \in CfKeys : KeyOK(k)
    BY Zenon, <2>1 DEF KeyOK
  <2>7. QED
    BY Zenon, <2>4, <2>5, <2>6 DEF ConfigInv
<1>2. ConfigInv /\ [CfNext]_cfVars => ConfigInv'
  <2> SUFFICES ASSUME ConfigInv, [CfNext]_cfVars PROVE ConfigInv'
    BY Zenon
  <2>1. ASSUME NEW a \in CfAdmin, CfWriter(a) PROVE ConfigInv'
    BY Zenon, <2>1, SaveConfigKeeps DEF CfWriter, WriteConfig, WriteConnection, WriteSettings,
       WriteAlarmRules, WriteIntegrations, WriteSecurityPolicy
  <2>2. ASSUME NEW a \in CfAdmin,
               \/ CfMemoryFirst(a) \/ CfFind(a) \/ CfPut(a)
               \/ CfMemoryLast(a) \/ CfRevision(a) \/ CfFail(a)
               \/ \E n \in 1 .. Len(CfLegacy) + MaxCfWrites : RestoreRevision(a, n)
        PROVE ConfigInv'
    BY Zenon, <2>2, CfMemoryFirstKeeps, CfFindKeeps, CfPutKeeps, CfMemoryLastKeeps, CfRevisionKeeps,
       CfFailKeeps, RestoreRevisionKeeps, Zenon
  <2>3. CASE CfRestart
    BY Zenon, <2>3, CfRestartKeeps
  <2>4. CASE UNCHANGED cfVars
    <3>1. UNCHANGED <<cfStored, cfLock, cfRevisions, cfReq, cfFaults>>
      BY Zenon, <2>4 DEF cfVars
    <3>2. ConfigTypes'
      BY Zenon, <3>1 DEF ConfigInv, ConfigTypes
    <3>3. \A b \in CfAdmin : RequestOK(b)' /\ (cfLock' = b => cfReq'[b].at # "idle")
      BY Zenon, <3>1 DEF ConfigInv, RequestOK
    <3>4. \A k \in CfKeys : KeyOK(k)'
      BY <3>1 DEF ConfigInv, KeyOK, Recorded
    <3>5. QED
      BY Zenon, <3>2, <3>3, <3>4 DEF ConfigInv
  <2>5. QED
    BY Zenon, <2>1, <2>2, <2>3, <2>4 DEF CfNext
<1>3. QED
  BY <1>1, <1>2, PTL DEF CfSpec

\* What is stored can be loaded and, when nothing failed, restored, and the
\* copy of the capture configuration is written under its lock: for every set
\* of administrators, keys, bodies and old revisions.
THEOREM ConfigAlwaysSafe == CfSpec => []ConfigSafety
<1>1. ConfigInv => ConfigSafety
  <2> SUFFICES ASSUME ConfigInv PROVE ConfigSafety
    BY Zenon
  <2>1. CfTypeOK
    <3>1. cfLock \in CfAdmin \cup {"free"} /\ \A a \in CfAdmin : cfReq[a].at \in CfPlaces
      BY Zenon DEF ConfigInv, ConfigTypes, RequestRecord
    <3>2. QED
      BY Zenon, <3>1 DEF ConfigInv, RequestOK, CfTypeOK, CfPlaces
  <2>2. LoadsSucceed
    BY Zenon DEF ConfigInv, KeyOK, LoadsSucceed, Loaded
  <2>3. StoredHasRevision
    BY Zenon DEF ConfigInv, KeyOK, Recorded, StoredHasRevision
  <2>4. QED
    BY Zenon, <2>1, <2>2, <2>3 DEF ConfigSafety
<1>2. QED
  BY <1>1, ConfigInvariant, PTL

-----------------------------------------------------------------------------
(***************************************************************************)
(* AlarmLifecycle, for any conditions, detected defects and operators, and *)
(* any number of requests and failures.                                    *)
(***************************************************************************)

AlarmRow ==
  [kind : Managed \cup DefectKey, status : {"active", "acknowledged", "resolved"}, info : Nat,
   ackBy : Operator \cup {Nobody, "monitor"}, resBy : Operator \cup {Nobody, "monitor"},
   first : Operator \cup {Nobody, "monitor"}, late : BOOLEAN]

MonitorLoop(m) ==
  [at : {"sleep", "read", "write", "stopped"}, i : 1 .. Len(AlarmTypes(m)), want : SUBSET Managed,
   info : Nat, found : Nat, ackBy : Operator \cup {Nobody, "monitor"}]

\* A row says who acknowledged and who resolved it, and an active one has
\* been acknowledged by nobody.
RowAccounted(r) ==
  /\ r.status # "active" <=> r.ackBy # Nobody
  /\ r.status # "active" <=> r.first # Nobody
  /\ ~r.late => r.ackBy = r.first
  /\ r.status = "resolved" <=> r.resBy # Nobody

\* What a monitor has read of the type it is at still says which row, if
\* any, may be open: only the monitor itself opens alarms of its types.  The
\* acknowledgement it has read is the row's, unless one came after the read.
LoopOK(m) ==
  /\ mon[m].found <= Len(alarms)
  /\ mon[m].at = "write" =>
       LET kind == AlarmTypes(m)[mon[m].i] IN
       /\ mon[m].found = 0 => \A a \in 1 .. Len(alarms) : alarms[a].kind = kind => alarms[a].status \notin Open
       /\ mon[m].found # 0 =>
            /\ alarms[mon[m].found].kind = kind
            /\ ~alarms[mon[m].found].late => mon[m].ackBy = alarms[mon[m].found].ackBy

\* The rows' part of the invariant.
RowsOK ==
  /\ alarms \in Seq(AlarmRow)
  /\ OneOpenEpisode
  /\ \A a \in 1 .. Len(alarms) : RowAccounted(alarms[a])

\* The operators' part: an action in hand is about a row.
ActionsOK ==
  /\ op \in [Operator -> [at : {"idle", "acknowledge", "resolve"}, alarm : Nat]]
  /\ \A o \in Operator : op[o].at # "idle" => op[o].alarm \in 1 .. Len(alarms)

\* The monitors' part.
LoopsOK ==
  /\ DOMAIN mon = Monitor
  /\ \A m \in Monitor : /\ mon[m] \in MonitorLoop(m) /\ LoopOK(m)
                        /\ mon[m].at = "stopped" => m = "camera" /\ ~online

ConditionsOK == episode \in Nat /\ changes \in Nat /\ camera \in Managed \cup {"ok"}

AlarmInv == RowsOK /\ ActionsOK /\ LoopsOK /\ ConditionsOK

\* A step keeps the rows and their kinds, and
RowsKept ==
  /\ Len(alarms) <= Len(alarms')
  /\ \A a \in 1 .. Len(alarms) : alarms'[a].kind = alarms[a].kind

\* opens no alarm of a kind.
NothingOpened(kind) ==
  \A a \in 1 .. Len(alarms') :
    alarms'[a].kind = kind /\ alarms'[a].status \in Open =>
      a <= Len(alarms) /\ alarms[a].kind = kind /\ alarms[a].status \in Open

\* The acknowledgement of a row stays what it was, or is a late one.
RowStands(a) ==
  alarms'[a].late \/ (~alarms[a].late /\ alarms'[a].ackBy = alarms[a].ackBy)

\* A step that leaves what a monitor has read true.
Undisturbed(m) ==
  /\ NothingOpened(AlarmTypes(m)[mon[m].i])
  /\ mon[m].at = "write" /\ mon[m].found # 0 => RowStands(mon[m].found)

\* The types of the two monitors: each walks at least one, none is common.
LEMMA MonitorTypes ==
  /\ \A m \in Monitor : /\ AlarmTypes(m) \in Seq(Managed) /\ Len(AlarmTypes(m)) \in Nat \ {0}
                        /\ \A i \in 1 .. Len(AlarmTypes(m)) : AlarmTypes(m)[i] \in Managed
  /\ \A i \in 1 .. Len(AlarmTypes("health")), j \in 1 .. Len(AlarmTypes("camera")) :
       AlarmTypes("health")[i] # AlarmTypes("camera")[j]
<1> DEFINE H == {s[1] : s \in HealthSpecs}
           C == {"camera-offline", "camera-image-blocked", "camera-image-quality"}
<1>1. H \cap C = {}
  BY DEF HealthSpecs
<1>2. /\ Len(CameraTypes) = 3 /\ CameraTypes \in Seq(C)
      /\ \A i \in 1 .. Len(CameraTypes) : CameraTypes[i] \in C
  BY DEF CameraTypes
<1>3. Managed = H \cup C
  BY DEF Managed, CameraTypes
<1>4. /\ HealthTypes \in Seq(H) /\ Len(HealthTypes) \in Nat \ {0}
      /\ \A i \in 1 .. Len(HealthTypes) : HealthTypes[i] \in H
  BY AlarmAssumption
<1> HIDE DEF H, C
<1>5. HealthTypes \in Seq(Managed) /\ CameraTypes \in Seq(Managed)
  BY <1>2, <1>3, <1>4
<1>6. AlarmTypes("health") = HealthTypes /\ AlarmTypes("camera") = CameraTypes
  BY Zenon DEF AlarmTypes
<1>7. ASSUME NEW i \in 1 .. Len(HealthTypes), NEW j \in 1 .. Len(CameraTypes)
      PROVE  HealthTypes[i] # CameraTypes[j]
  BY <1>1, <1>2, <1>4, Zenon
<1>8. /\ \A i \in 1 .. Len(HealthTypes) : HealthTypes[i] \in Managed
      /\ \A i \in 1 .. Len(CameraTypes) : CameraTypes[i] \in Managed
  BY <1>2, <1>3, <1>4, Zenon
<1>9. Len(CameraTypes) \in Nat \ {0}
  BY <1>2
<1>10. QED
  BY <1>4, <1>5, <1>6, <1>7, <1>8, <1>9, Zenon DEF Monitor

\* A new row, of a kind that has no open one.
LEMMA RowAppended ==
  ASSUME RowsOK, NEW row \in AlarmRow, RowAccounted(row), alarms' = Append(alarms, row),
         \A a \in 1 .. Len(alarms) : alarms[a].kind = row.kind => alarms[a].status \notin Open
  PROVE  /\ RowsOK' /\ RowsKept
         /\ \A kind : kind # row.kind => NothingOpened(kind)
         /\ \A a \in 1 .. Len(alarms) : RowStands(a)
<1>1. /\ alarms' \in Seq(AlarmRow) /\ Len(alarms') = Len(alarms) + 1 /\ Len(alarms) \in Nat
      /\ alarms'[Len(alarms) + 1] = row
      /\ \A a \in 1 .. Len(alarms) : alarms'[a] = alarms[a]
  BY DEF RowsOK
<1>2. \A a \in 1 .. Len(alarms') : a \in 1 .. Len(alarms) \/ a = Len(alarms) + 1
  BY <1>1
<1>3. OneOpenEpisode'
  <2> SUFFICES ASSUME NEW a \in 1 .. Len(alarms'), NEW b \in 1 .. Len(alarms'),
                      alarms'[a].kind = alarms'[b].kind,
                      alarms'[a].status \in Open, alarms'[b].status \in Open
               PROVE  a = b
    BY DEF OneOpenEpisode
  <2>1. CASE a \in 1 .. Len(alarms) /\ b \in 1 .. Len(alarms)
    BY Zenon, <1>1, <2>1 DEF RowsOK, OneOpenEpisode
  <2>2. CASE a = Len(alarms) + 1 /\ b = Len(alarms) + 1
    BY Zenon, <2>2
  <2>3. CASE a = Len(alarms) + 1 /\ b \in 1 .. Len(alarms)
    BY Zenon, <1>1, <2>3
  <2>4. CASE b = Len(alarms) + 1 /\ a \in 1 .. Len(alarms)
    BY Zenon, <1>1, <2>4
  <2>5. QED
    BY Zenon, <1>2, <2>1, <2>2, <2>3, <2>4
<1>4. \A a \in 1 .. Len(alarms') : RowAccounted(alarms'[a])
  BY Zenon, <1>1, <1>2 DEF RowsOK
<1>5. RowsKept
  BY <1>1 DEF RowsKept
<1>6. \A kind : kind # row.kind => NothingOpened(kind)
  BY <1>1, <1>2 DEF NothingOpened
<1>7. \A a \in 1 .. Len(alarms) : RowStands(a)
  BY Zenon, <1>1 DEF RowStands
<1>8. QED
  BY Zenon, <1>1, <1>3, <1>4, <1>5, <1>6, <1>7 DEF RowsOK

\* A row is written: it keeps its kind, and is open only if it was.
LEMMA RowWritten ==
  ASSUME RowsOK, NEW a \in 1 .. Len(alarms), NEW row \in AlarmRow, RowAccounted(row),
         alarms' = [alarms EXCEPT ![a] = row],
         row.kind = alarms[a].kind, row.status \in Open => alarms[a].status \in Open
  PROVE  /\ RowsOK' /\ RowsKept /\ \A kind : NothingOpened(kind)
         /\ alarms'[a] = row
         /\ \A b \in 1 .. Len(alarms) : b # a => RowStands(b)
<1>1. /\ alarms' \in Seq(AlarmRow) /\ Len(alarms') = Len(alarms) /\ Len(alarms) \in Nat
      /\ alarms'[a] = row
      /\ \A b \in 1 .. Len(alarms) : b # a => alarms'[b] = alarms[b]
  BY DEF RowsOK
<1>2. \A b \in 1 .. Len(alarms) : /\ alarms'[b].kind = alarms[b].kind
                                 /\ alarms'[b].status \in Open => alarms[b].status \in Open
  BY Zenon, <1>1
<1>3. OneOpenEpisode'
  BY <1>1, <1>2 DEF RowsOK, OneOpenEpisode
<1>4. \A b \in 1 .. Len(alarms') : RowAccounted(alarms'[b])
  BY Zenon, <1>1 DEF RowsOK
<1>5. RowsKept /\ \A kind : NothingOpened(kind)
  BY <1>1, <1>2 DEF RowsKept, NothingOpened
<1>6. \A b \in 1 .. Len(alarms) : b # a => RowStands(b)
  BY Zenon, <1>1 DEF RowStands
<1>7. QED
  BY Zenon, <1>1, <1>3, <1>4, <1>5, <1>6 DEF RowsOK

\* A monitor that holds a row holds an existing one.
LEMMA HeldRow ==
  ASSUME AlarmInv, NEW m \in Monitor
  PROVE  /\ mon[m].found \in Nat /\ mon[m].i \in 1 .. Len(AlarmTypes(m))
         /\ mon[m].found # 0 => mon[m].found \in 1 .. Len(alarms)
<1>1. Len(alarms) \in Nat /\ mon[m] \in MonitorLoop(m) /\ mon[m].found <= Len(alarms)
  BY DEF AlarmInv, RowsOK, LoopsOK, LoopOK
<1>2. mon[m].found \in Nat /\ mon[m].i \in 1 .. Len(AlarmTypes(m))
  BY Zenon, <1>1 DEF MonitorLoop
<1>3. QED
  BY <1>1, <1>2

\* The rows are left alone.
LEMMA RowsUntouched ==
  ASSUME AlarmInv, alarms' = alarms
  PROVE  /\ RowsOK' /\ RowsKept /\ \A kind : NothingOpened(kind)
         /\ \A m \in Monitor : Undisturbed(m)
<1>1. Len(alarms) \in Nat /\ RowsOK
  BY DEF AlarmInv, RowsOK
<1>2. RowsOK' /\ RowsKept /\ \A kind : NothingOpened(kind)
  BY <1>1 DEF RowsOK, RowsKept, NothingOpened, OneOpenEpisode
<1>3. \A a \in 1 .. Len(alarms) : RowStands(a)
  BY Zenon DEF RowStands
<1>4. QED
  BY Zenon, <1>2, <1>3, HeldRow DEF Undisturbed

\* What a monitor has read stays true while it does nothing itself.
LEMMA LoopKept ==
  ASSUME NEW m \in Monitor, mon[m] \in MonitorLoop(m), LoopOK(m), mon'[m] = mon[m],
         RowsOK, RowsOK', RowsKept, Undisturbed(m)
  PROVE  LoopOK(m)'
<1>1. Len(alarms) \in Nat /\ Len(alarms') \in Nat /\ mon[m].found \in Nat
  BY DEF RowsOK, MonitorLoop
<1>2. mon'[m].found <= Len(alarms')
  BY <1>1 DEF LoopOK, RowsKept
<1>3. ASSUME mon'[m].at = "write", mon'[m].found = 0,
             NEW a \in 1 .. Len(alarms'), alarms'[a].kind = AlarmTypes(m)[mon[m].i]
      PROVE  alarms'[a].status \notin Open
  BY <1>1, <1>3 DEF LoopOK, NothingOpened, Undisturbed
<1>4. ASSUME mon'[m].at = "write", mon'[m].found # 0
      PROVE  alarms'[mon[m].found].kind = AlarmTypes(m)[mon[m].i]
  BY <1>1, <1>4 DEF LoopOK, RowsKept
<1>5. ASSUME mon'[m].at = "write", mon'[m].found # 0, ~alarms'[mon[m].found].late
      PROVE  mon[m].ackBy = alarms'[mon[m].found].ackBy
  BY Zenon, <1>5 DEF LoopOK, Undisturbed, RowStands
<1>6. QED
  BY Zenon, <1>2, <1>3, <1>4, <1>5 DEF LoopOK

\* All the monitors, and the operators' actions, when only the rows change.
LEMMA OthersKeep ==
  ASSUME AlarmInv, RowsOK', RowsKept
  PROVE  /\ op' = op => ActionsOK'
         /\ mon' = mon /\ online' = online /\
            (\A m \in Monitor : Undisturbed(m)) => LoopsOK'
         /\ UNCHANGED <<episode, changes, camera>> => ConditionsOK'
<1>1. Len(alarms) \in Nat /\ Len(alarms') \in Nat
  BY DEF AlarmInv, RowsOK
<1>2. ASSUME op' = op PROVE ActionsOK'
  BY <1>1, <1>2 DEF AlarmInv, ActionsOK, RowsKept
<1>3. ASSUME mon' = mon, online' = online,
             \A m \in Monitor : Undisturbed(m)
      PROVE  LoopsOK'
  <2>1. \A m \in Monitor : LoopOK(m)'
    BY Zenon, <1>3, LoopKept DEF AlarmInv, LoopsOK
  <2>2. QED
    BY Zenon, <1>3, <2>1 DEF AlarmInv, LoopsOK
<1>4. ASSUME UNCHANGED <<episode, changes, camera>> PROVE ConditionsOK'
  BY Zenon, <1>4 DEF AlarmInv, ConditionsOK
<1>5. QED
  BY Zenon, <1>2, <1>3, <1>4

\* A defect's alarm is of no monitor's type.
LEMMA DefectAlarmKeeps ==
  ASSUME AlarmInv, NEW d \in DefectKey, DefectAlarm(d)
  PROVE  AlarmInv'
<1>u. UNCHANGED <<running, health, camera, episode, mon, signature, online, op, changes, actions,
                  alarmFaults>>
  BY Zenon DEF DefectAlarm
<1>t. RowsOK /\ \A m \in Monitor : mon[m].i \in 1 .. Len(AlarmTypes(m))
  BY Zenon DEF AlarmInv, LoopsOK, MonitorLoop
<1>1. /\ RowsOK' /\ RowsKept /\ \A kind : kind # d => NothingOpened(kind)
      /\ \A a \in 1 .. Len(alarms) : RowStands(a)
  <2>1. CASE \E a \in 1 .. Len(alarms) : alarms[a].kind = d
    <3>1. alarms' = alarms
      BY Zenon, <2>1 DEF DefectAlarm
    <3>2. QED
      BY Zenon, <3>1, RowsUntouched DEF RowStands
  <2>2. CASE ~\E a \in 1 .. Len(alarms) : alarms[a].kind = d
    <3> DEFINE row == NewAlarm(d, 0)
    <3>1. row \in AlarmRow /\ row.kind = d /\ RowAccounted(row)
      BY Zenon DEF NewAlarm, AlarmRow, RowAccounted
    <3>2. alarms' = Append(alarms, row)
      BY Zenon, <2>2 DEF DefectAlarm
    <3> HIDE DEF row
    <3>3. QED
      BY Zenon, <1>t, <2>2, <3>1, <3>2, RowAppended
  <2>3. QED
    BY Zenon, <2>1, <2>2
<1>2. \A m \in Monitor : Undisturbed(m)
  <2>1. \A m \in Monitor : AlarmTypes(m)[mon[m].i] \in Managed
    BY Zenon, <1>t, MonitorTypes
  <2>2. QED
    BY Zenon, <1>1, <2>1, AlarmAssumption, HeldRow DEF Undisturbed
<1>3. QED
  BY Zenon, <1>1, <1>2, <1>u, OthersKeep DEF AlarmInv

\* An operator's read.
LEMMA AlarmActionKeeps ==
  ASSUME AlarmInv, NEW o \in Operator, NEW a \in 1 .. Len(alarms),
         NEW action \in {"acknowledge", "resolve"}, AlarmAction(o, a, action)
  PROVE  AlarmInv'
<1>u. UNCHANGED <<running, alarms, health, camera, episode, mon, signature, online, changes,
                 alarmFaults>>
  BY Zenon DEF AlarmAction
<1>1. RowsOK' /\ RowsKept /\ \A u \in Monitor : Undisturbed(u)
  BY Zenon, <1>u, RowsUntouched DEF AlarmInv
<1>t. Len(alarms) \in Nat /\ a \in Nat
  BY DEF AlarmInv, RowsOK
<1>2. ActionsOK'
  BY Zenon, <1>t, <1>u DEF AlarmAction, AlarmInv, ActionsOK
<1>3. QED
  BY Zenon, <1>1, <1>2, <1>u, OthersKeep DEF AlarmInv

\* Both writes of an operator: conditional on the status.
LEMMA OperatorWriteKeeps ==
  ASSUME AlarmInv, NEW o \in Operator, AcknowledgeWrite(o) \/ ResolveWrite(o)
  PROVE  AlarmInv'
<1>u. /\ UNCHANGED <<running, health, camera, episode, mon, signature, online, changes, actions,
                     alarmFaults>>
      /\ op' = [op EXCEPT ![o] = OpIdle] /\ op[o].at # "idle"
  BY Zenon DEF AcknowledgeWrite, ResolveWrite, Answer
<1>t. RowsOK /\ op[o].alarm \in 1 .. Len(alarms) /\ alarms[op[o].alarm] \in AlarmRow
      /\ RowAccounted(alarms[op[o].alarm]) /\ o # Nobody
  BY <1>u, AlarmAssumption DEF AlarmInv, ActionsOK, RowsOK
<1> DEFINE a == op[o].alarm
           acked == [alarms[a] EXCEPT !.status = "acknowledged", !.ackBy = o, !.first = o,
                                      !.late = HeldByMonitor(a)]
           solved == [alarms[a] EXCEPT !.status = "resolved", !.resBy = o]
<1>1. \/ alarms' = alarms
      \/ alarms[a].status = "active" /\ alarms' = [alarms EXCEPT ![a] = acked]
      \/ alarms[a].status = "acknowledged" /\ alarms' = [alarms EXCEPT ![a] = solved]
  <2>0. alarms \in Seq(AlarmRow)
    BY Zenon, <1>t DEF RowsOK
  <2>1. CASE AcknowledgeWrite(o)
    BY Zenon, <1>t, <2>0, <2>1 DEF AcknowledgeWrite
  <2>2. CASE ResolveWrite(o)
    BY Zenon, <1>t, <2>0, <2>2 DEF ResolveWrite
  <2>3. QED
    BY Zenon, <2>1, <2>2
<1>2. /\ acked \in AlarmRow /\ acked.kind = alarms[a].kind /\ acked.status = "acknowledged"
      /\ acked.ackBy = o /\ acked.resBy = alarms[a].resBy /\ acked.first = o
      /\ acked.late = HeldByMonitor(a)
  <2>1. HeldByMonitor(a) \in BOOLEAN
    BY Zenon DEF HeldByMonitor
  <2>2. QED
    BY Zenon, <1>t, <2>1 DEF AlarmRow
<1>3. /\ solved \in AlarmRow /\ solved.kind = alarms[a].kind /\ solved.status = "resolved"
      /\ solved.ackBy = alarms[a].ackBy /\ solved.resBy = o
      /\ solved.first = alarms[a].first /\ solved.late = alarms[a].late
  BY Zenon, <1>t DEF AlarmRow
<1> HIDE DEF acked, solved
<1>4. RowsOK' /\ RowsKept /\ \A u \in Monitor : Undisturbed(u)
  <2>1. CASE alarms' = alarms
    BY Zenon, <2>1, RowsUntouched
  <2>2. CASE alarms[a].status = "active" /\ alarms' = [alarms EXCEPT ![a] = acked]
    <3>1. RowAccounted(acked) /\ alarms[a].status \in Open
      BY Zenon, <1>2, <1>t, <2>2 DEF RowAccounted, Open
    <3>2. /\ RowsOK' /\ RowsKept /\ \A kind : NothingOpened(kind)
          /\ alarms'[a] = acked
          /\ \A b \in 1 .. Len(alarms) : b # a => RowStands(b)
      BY Zenon, <1>2, <1>t, <2>2, <3>1, RowWritten
    <3>3. HeldByMonitor(a) => RowStands(a)
      BY Zenon, <1>2, <3>2 DEF RowStands
    <3>4. \A u \in Monitor : mon[u].at = "write" /\ mon[u].found # 0 => RowStands(mon[u].found)
      BY Zenon, <3>2, <3>3, HeldRow DEF HeldByMonitor
    <3>5. QED
      BY Zenon, <3>2, <3>4 DEF Undisturbed
  <2>3. CASE alarms[a].status = "acknowledged" /\ alarms' = [alarms EXCEPT ![a] = solved]
    <3>1. RowAccounted(solved) /\ alarms[a].status \in Open
      BY Zenon, <1>3, <1>t, <2>3 DEF RowAccounted, Open
    <3>2. /\ RowsOK' /\ RowsKept /\ \A kind : NothingOpened(kind)
          /\ alarms'[a] = solved
          /\ \A b \in 1 .. Len(alarms) : b # a => RowStands(b)
      BY Zenon, <1>3, <1>t, <2>3, <3>1, RowWritten
    <3>3. RowStands(a)
      BY Zenon, <1>3, <3>2 DEF RowStands
    <3>4. QED
      BY Zenon, <3>2, <3>3, HeldRow DEF Undisturbed
  <2>4. QED
    BY Zenon, <1>1, <2>1, <2>2, <2>3
<1>5. ActionsOK'
  <2>1. Len(alarms) \in Nat /\ Len(alarms') \in Nat /\ Len(alarms) <= Len(alarms')
    BY <1>4, <1>t DEF RowsOK, RowsKept
  <2>2. QED
    BY <1>u, <2>1 DEF AlarmInv, ActionsOK, OpIdle
<1>6. QED
  BY Zenon, <1>4, <1>5, <1>u, OthersKeep DEF AlarmInv

\* A step of one monitor leaves what the other has read true.
LEMMA MonitorMoves ==
  ASSUME AlarmInv, NEW m \in Monitor, NEW q \in MonitorLoop(m), mon' = [mon EXCEPT ![m] = q],
         LoopOK(m)', q.at = "stopped" => m = "camera" /\ ~online, online' = online,
         RowsOK', RowsKept,
         \A u \in Monitor \ {m} : Undisturbed(u)
  PROVE  LoopsOK'
<1>1. \A u \in Monitor \ {m} : mon'[u] = mon[u]
  BY Zenon DEF AlarmInv, LoopsOK
<1>2. DOMAIN mon' = Monitor /\ mon'[m] = q
  BY Zenon DEF AlarmInv, LoopsOK
<1>3. \A u \in Monitor \ {m} : LoopOK(u)'
  BY Zenon, <1>1, LoopKept DEF AlarmInv, LoopsOK
<1>4. QED
  BY Zenon, <1>1, <1>2, <1>3 DEF AlarmInv, LoopsOK

\* A monitor that has just read nothing, or goes to sleep.
LEMMA MonitorBetweenTypes ==
  ASSUME AlarmInv, NEW m \in Monitor, NEW q \in MonitorLoop(m), mon' = [mon EXCEPT ![m] = q],
         q.at # "write", q.found <= Len(alarms), q.at = "stopped" => m = "camera" /\ ~online,
         online' = online, RowsOK', RowsKept,
         \A u \in Monitor \ {m} : Undisturbed(u)
  PROVE  LoopsOK'
<1>1. mon'[m] = q
  BY Zenon DEF AlarmInv, LoopsOK
<1>2. q.found \in Nat /\ Len(alarms) \in Nat /\ Len(alarms') \in Nat
  BY DEF MonitorLoop, AlarmInv, RowsOK
<1>3. LoopOK(m)'
  BY <1>1, <1>2 DEF LoopOK, RowsKept
<1>4. QED
  BY Zenon, <1>3, MonitorMoves

\* The types a round may call for.
LEMMA WantedTypes ==
  ASSUME AlarmInv
  PROVE  WantedHealth \subseteq Managed /\ WantedCamera \subseteq Managed
  BY Zenon DEF WantedHealth, WantedCamera, Managed, AlarmInv, ConditionsOK

\* A round begins.
LEMMA BeginRoundKeeps ==
  ASSUME AlarmInv, NEW m \in Monitor, NEW want \in SUBSET Managed, NEW info \in Nat,
         BeginRound(m, want, info)
  PROVE  AlarmInv'
<1>u. UNCHANGED <<running, alarms, health, camera, episode, signature, online, op, changes,
                  actions, alarmFaults>>
  BY Zenon DEF BeginRound
<1>1. RowsOK' /\ RowsKept /\ \A u \in Monitor : Undisturbed(u)
  BY Zenon, <1>u, RowsUntouched DEF AlarmInv
<1> DEFINE q == [at |-> "read", i |-> 1, want |-> want, found |-> 0, info |-> info,
                 ackBy |-> Nobody]
<1>2. mon' = [mon EXCEPT ![m] = q]
  BY Zenon DEF BeginRound
<1>3. q \in MonitorLoop(m) /\ q.at = "read" /\ q.found = 0
  <2>1. 1 \in 1 .. Len(AlarmTypes(m))
    BY MonitorTypes
  <2>2. QED
    BY Zenon, <2>1 DEF MonitorLoop
<1> HIDE DEF q
<1>4. q.at # "write" /\ q.at # "stopped" /\ q.found <= Len(alarms)
  <2>1. Len(alarms) \in Nat
    BY DEF AlarmInv, RowsOK
  <2>2. QED
    BY <1>3, <2>1
<1>5. LoopsOK'
  BY Zenon, <1>1, <1>2, <1>3, <1>4, <1>u, MonitorBetweenTypes
<1>6. QED
  BY Zenon, <1>1, <1>5, <1>u, OthersKeep DEF AlarmInv

\* The latest open alarm of a kind is the only one, and it is found.
LEMMA OpenAlarmFound ==
  ASSUME RowsOK, NEW kind
  PROVE  /\ OpenAlarm(kind) \in 0 .. Len(alarms)
         /\ OpenAlarm(kind) = 0 =>
              \A a \in 1 .. Len(alarms) : alarms[a].kind = kind => alarms[a].status \notin Open
         /\ OpenAlarm(kind) # 0 => alarms[OpenAlarm(kind)].kind = kind
<1> DEFINE rows == {a \in 1 .. Len(alarms) : alarms[a].kind = kind /\ alarms[a].status \in Open}
<1>t. Len(alarms) \in Nat
  BY DEF RowsOK
<1>1. OpenAlarm(kind) = IF rows = {} THEN 0 ELSE CHOOSE a \in rows : \A b \in rows : b <= a
  BY Zenon DEF OpenAlarm
<1>2. \A a, b \in rows : a = b
  BY Zenon DEF RowsOK, OneOpenEpisode
<1>3. \A a \in rows : a \in 1 .. Len(alarms) /\ alarms[a].kind = kind
  BY Zenon
<1>4. rows = {} =>
        \A a \in 1 .. Len(alarms) : alarms[a].kind = kind => alarms[a].status \notin Open
  BY Zenon
<1> HIDE DEF rows
<1>5. CASE rows = {}
  BY <1>1, <1>4, <1>5, <1>t
<1>6. CASE rows # {}
  <2>1. \E a \in rows : \A b \in rows : b <= a
    BY <1>2, <1>3, <1>6, <1>t
  <2>2. (CHOOSE a \in rows : \A b \in rows : b <= a) \in rows
    BY Zenon, <2>1
  <2>3. OpenAlarm(kind) \in rows
    BY Zenon, <1>1, <1>6, <2>2
  <2>4. QED
    BY <1>3, <1>t, <2>3
<1>7. QED
  BY Zenon, <1>5, <1>6

\* The read of a type.
LEMMA ReconcileReadKeeps ==
  ASSUME AlarmInv, NEW m \in Monitor, ReconcileRead(m)
  PROVE  AlarmInv'
<1>u. UNCHANGED <<running, alarms, health, camera, episode, signature, online, op,
                  changes, actions, alarmFaults>>
  BY Zenon DEF ReconcileRead
<1>1. RowsOK' /\ RowsKept /\ \A u \in Monitor : Undisturbed(u)
  BY Zenon, <1>u, RowsUntouched DEF AlarmInv
<1>t. DOMAIN mon = Monitor /\ mon[m] \in MonitorLoop(m) /\ RowsOK /\ Len(alarms) \in Nat
  BY DEF AlarmInv, LoopsOK, RowsOK
<1> DEFINE found == OpenAlarm(AlarmTypes(m)[mon[m].i])
           who == IF found = 0 THEN Nobody ELSE alarms[found].ackBy
           q == [mon[m] EXCEPT !.at = "write", !.found = found, !.ackBy = who]
<1>2. mon' = [mon EXCEPT ![m] = q]
  BY Zenon, <1>t DEF ReconcileRead
<1>3. /\ found \in 0 .. Len(alarms)
      /\ found = 0 => \A a \in 1 .. Len(alarms) :
                        alarms[a].kind = AlarmTypes(m)[mon[m].i] => alarms[a].status \notin Open
      /\ found # 0 => alarms[found].kind = AlarmTypes(m)[mon[m].i]
  BY Zenon, <1>t, OpenAlarmFound
<1> HIDE DEF found
<1>4. who \in Operator \cup {Nobody, "monitor"} /\ found \in Nat
  <2>1. CASE found = 0
    BY Zenon, <2>1
  <2>2. CASE found # 0
    <3>1. found \in 1 .. Len(alarms)
      BY <1>3, <1>t, <2>2
    <3>2. alarms[found] \in AlarmRow
      BY <1>t, <3>1 DEF RowsOK
    <3>3. QED
      BY <2>2, <3>1, <3>2 DEF AlarmRow
  <2>3. QED
    BY Zenon, <2>1, <2>2
<1> HIDE DEF who
<1>5. q \in MonitorLoop(m) /\ q.at = "write" /\ q.found = found /\ q.i = mon[m].i /\ q.ackBy = who
  BY Zenon, <1>4, <1>t DEF MonitorLoop
<1>w. found # 0 => q.ackBy = alarms[found].ackBy
  BY Zenon, <1>5 DEF who
<1> HIDE DEF q
<1>6. LoopOK(m)'
  <2>1. mon'[m] = q
    BY Zenon, <1>2, <1>t
  <2>2. QED
    BY <1>3, <1>5, <1>w, <1>u, <1>t, <2>1 DEF LoopOK
<1>7. LoopsOK'
  BY Zenon, <1>1, <1>2, <1>5, <1>6, <1>u, MonitorMoves
<1>8. QED
  BY Zenon, <1>1, <1>7, <1>u, OthersKeep DEF AlarmInv

\* The loop after the write of a type.
LEMMA NextTypeLoop ==
  ASSUME AlarmInv, NEW m \in Monitor, NextType(m)
  PROVE  \E q \in MonitorLoop(m) :
           /\ mon' = [mon EXCEPT ![m] = q]
           /\ q.at # "write" /\ q.found <= Len(alarms)
           /\ q.at = "stopped" => m = "camera" /\ ~online
<1>t. /\ DOMAIN mon = Monitor /\ mon[m] \in MonitorLoop(m) /\ Len(alarms) \in Nat
      /\ mon[m].found <= Len(alarms)
  BY DEF AlarmInv, LoopsOK, RowsOK, LoopOK
<1>s. Len(AlarmTypes(m)) \in Nat \ {0} /\ mon[m].i \in 1 .. Len(AlarmTypes(m))
  BY Zenon, <1>t, MonitorTypes DEF MonitorLoop
<1>1. CASE mon[m].i < Len(AlarmTypes(m))
  <2> DEFINE n == mon[m].i + 1
             q == [mon[m] EXCEPT !.at = "read", !.i = n]
  <2>1. mon' = [mon EXCEPT ![m] = q]
    BY Zenon, <1>1, <1>t DEF NextType
  <2>2. n \in 1 .. Len(AlarmTypes(m))
    BY <1>1, <1>s
  <2> HIDE DEF n
  <2>3. q \in MonitorLoop(m) /\ q.at = "read" /\ q.found = mon[m].found
    BY Zenon, <1>t, <2>2 DEF MonitorLoop
  <2> HIDE DEF q
  <2>4. QED
    BY Zenon, <1>t, <2>1, <2>3
<1>2. CASE ~(mon[m].i < Len(AlarmTypes(m)))
  <2>1. 1 \in 1 .. Len(AlarmTypes(m))
    BY <1>s
  <2> DEFINE e == [Asleep EXCEPT !.at = "stopped"]
  <2>2. /\ Asleep \in MonitorLoop(m) /\ Asleep.at = "sleep" /\ Asleep.found = 0
        /\ e \in MonitorLoop(m) /\ e.at = "stopped" /\ e.found = 0
    BY Zenon, <2>1 DEF Asleep, MonitorLoop
  <2>3. mon' = [mon EXCEPT ![m] = IF m = "camera" /\ ~online THEN e ELSE Asleep]
    BY Zenon, <1>2 DEF NextType
  <2> HIDE DEF e
  <2>4. Asleep.found <= Len(alarms) /\ e.found <= Len(alarms)
    BY <1>t, <2>2
  <2>5. CASE m = "camera" /\ ~online
    BY Zenon, <2>2, <2>3, <2>4, <2>5
  <2>6. CASE ~(m = "camera" /\ ~online)
    BY Zenon, <2>2, <2>3, <2>4, <2>6
  <2>7. QED
    BY Zenon, <2>5, <2>6
<1>3. QED
  BY Zenon, <1>1, <1>2

\* The rows a monitor writes: a closed or refreshed row keeps its kind, and
\* says who closed it.
LEMMA MonitorRows ==
  ASSUME NEW row \in AlarmRow, RowAccounted(row), NEW info \in Nat,
         NEW who \in Operator \cup {Nobody, "monitor"}, ~row.late => who = row.ackBy
  PROVE  /\ Refreshed(row, info) \in AlarmRow /\ RowAccounted(Refreshed(row, info))
         /\ Refreshed(row, info).kind = row.kind /\ Refreshed(row, info).status = row.status
         /\ ClosedByMonitor(row, who) \in AlarmRow /\ RowAccounted(ClosedByMonitor(row, who))
         /\ ClosedByMonitor(row, who).kind = row.kind
         /\ ClosedByMonitor(row, who).status \notin Open
         /\ Refreshed(row, info).late = row.late /\ Refreshed(row, info).ackBy = row.ackBy
<1>1. /\ Refreshed(row, info) \in AlarmRow /\ RowAccounted(Refreshed(row, info))
      /\ Refreshed(row, info).kind = row.kind /\ Refreshed(row, info).status = row.status
      /\ Refreshed(row, info).late = row.late /\ Refreshed(row, info).ackBy = row.ackBy
  BY Zenon DEF Refreshed, AlarmRow, RowAccounted
<1>2. /\ ClosedByMonitor(row, who) \in AlarmRow
      /\ ClosedByMonitor(row, who).kind = row.kind
      /\ ClosedByMonitor(row, who).status \notin Open
  BY DEF ClosedByMonitor, AlarmRow, Open
<1>3. RowAccounted(ClosedByMonitor(row, who))
  <2> DEFINE y == ClosedByMonitor(row, who)
  <2>1. CASE row.status \notin Open
    BY Zenon, <2>1 DEF ClosedByMonitor
  <2>2. CASE row.status \in Open
    <3>1. /\ y.status = "resolved" /\ y.resBy = "monitor" /\ y.late = row.late
          /\ y.ackBy = IF who = Nobody THEN "monitor" ELSE who
          /\ y.first = IF row.first = Nobody THEN "monitor" ELSE row.first
      BY Zenon, <2>2 DEF ClosedByMonitor, AlarmRow
    <3>2. "monitor" # Nobody
      BY DEF Nobody
    <3> HIDE DEF y
    <3>3. y.ackBy # Nobody /\ y.first # Nobody /\ y.resBy # Nobody
      BY Zenon, <3>1, <3>2
    <3>4. ~y.late => y.ackBy = y.first
      BY Zenon, <3>1 DEF RowAccounted
    <3>5. RowAccounted(y)
      BY Zenon, <3>1, <3>3, <3>4 DEF RowAccounted
    <3>6. QED
      BY Zenon, <3>5 DEF y
  <2>3. QED
    BY Zenon, <2>1, <2>2
<1>4. QED
  BY Zenon, <1>1, <1>2, <1>3

\* The write of a type: an alarm is opened only where none is open.
LEMMA ReconcileWriteKeeps ==
  ASSUME AlarmInv, NEW m \in Monitor, ReconcileWrite(m)
  PROVE  AlarmInv'
<1>u. /\ UNCHANGED <<running, health, camera, episode, online, op, changes, actions, alarmFaults>>
      /\ mon[m].at = "write" /\ NextType(m)
  BY Zenon DEF ReconcileWrite
<1>t. RowsOK /\ mon[m] \in MonitorLoop(m) /\ LoopOK(m) /\ Len(alarms) \in Nat
  BY DEF AlarmInv, LoopsOK, RowsOK
<1> DEFINE kind == AlarmTypes(m)[mon[m].i]
           a == mon[m].found
           new == NewAlarm(kind, mon[m].info)
<1>s. /\ mon[m].info \in Nat /\ mon[m].ackBy \in Operator \cup {Nobody, "monitor"}
      /\ a \in 0 .. Len(alarms) /\ kind \in Managed
      /\ a = 0 => \A b \in 1 .. Len(alarms) : alarms[b].kind = kind => alarms[b].status \notin Open
      /\ a # 0 => alarms[a].kind = kind /\ (~alarms[a].late => mon[m].ackBy = alarms[a].ackBy)
  <2>1. kind \in Managed
    BY Zenon, <1>t, MonitorTypes DEF MonitorLoop
  <2>2. mon[m].info \in Nat /\ mon[m].ackBy \in Operator \cup {Nobody, "monitor"} /\ a \in Nat
    BY Zenon, <1>t DEF MonitorLoop
  <2>3. a <= Len(alarms) /\
        (a = 0 => \A b \in 1 .. Len(alarms) : alarms[b].kind = kind => alarms[b].status \notin Open)
        /\ (a # 0 => alarms[a].kind = kind /\ (~alarms[a].late => mon[m].ackBy = alarms[a].ackBy))
    BY Zenon, <1>t, <1>u DEF LoopOK
  <2>4. QED
    BY <1>t, <2>1, <2>2, <2>3
<1>1. \/ alarms' = alarms
      \/ a = 0 /\ alarms' = Append(alarms, new)
      \/ a # 0 /\ alarms' = [alarms EXCEPT ![a] = Refreshed(alarms[a], mon[m].info)]
      \/ a # 0 /\ alarms' = [alarms EXCEPT ![a] = ClosedByMonitor(alarms[a], mon[m].ackBy)]
  BY Zenon DEF ReconcileWrite
<1>2. new \in AlarmRow /\ new.kind = kind /\ RowAccounted(new)
  BY Zenon, <1>s DEF NewAlarm, AlarmRow, RowAccounted
<1> HIDE DEF kind, new
<1>3. /\ RowsOK' /\ RowsKept /\ \A k : k # kind => NothingOpened(k)
      /\ \A b \in 1 .. Len(alarms) : b # a => RowStands(b)
  <2>1. CASE alarms' = alarms
    BY Zenon, <2>1, RowsUntouched DEF RowStands
  <2>2. CASE a = 0 /\ alarms' = Append(alarms, new)
    BY Zenon, <1>2, <1>s, <1>t, <2>2, RowAppended
  <2>3. CASE a # 0 /\ \/ alarms' = [alarms EXCEPT ![a] = Refreshed(alarms[a], mon[m].info)]
                      \/ alarms' = [alarms EXCEPT ![a] = ClosedByMonitor(alarms[a], mon[m].ackBy)]
    <3>1. a \in 1 .. Len(alarms) /\ alarms[a] \in AlarmRow /\ RowAccounted(alarms[a])
      BY <1>s, <1>t, <2>3 DEF RowsOK
    <3> DEFINE x == Refreshed(alarms[a], mon[m].info)
               y == ClosedByMonitor(alarms[a], mon[m].ackBy)
    <3>2. /\ x \in AlarmRow /\ RowAccounted(x) /\ x.kind = alarms[a].kind
          /\ x.status = alarms[a].status
          /\ y \in AlarmRow /\ RowAccounted(y) /\ y.kind = alarms[a].kind /\ y.status \notin Open
      BY Zenon, <1>s, <2>3, <3>1, MonitorRows
    <3> HIDE DEF x, y
    <3>3. CASE alarms' = [alarms EXCEPT ![a] = x]
      BY Zenon, <1>t, <3>1, <3>2, <3>3, RowWritten
    <3>4. CASE alarms' = [alarms EXCEPT ![a] = y]
      BY Zenon, <1>t, <3>1, <3>2, <3>4, RowWritten
    <3>5. QED
      BY Zenon, <2>3, <3>3, <3>4 DEF x, y
  <2>4. QED
    BY Zenon, <1>1, <2>1, <2>2, <2>3
<1>4. \A u \in Monitor \ {m} : Undisturbed(u)
  <2> TAKE u \in Monitor \ {m}
  <2>1. mon[u].i \in 1 .. Len(AlarmTypes(u)) /\ mon[m].i \in 1 .. Len(AlarmTypes(m))
    BY Zenon, HeldRow
  <2>2. AlarmTypes(u)[mon[u].i] # kind
    <3>1. \/ m = "health" /\ u = "camera"
          \/ m = "camera" /\ u = "health"
      BY Zenon DEF Monitor
    <3>2. CASE m = "health" /\ u = "camera"
      BY <2>1, <3>2, MonitorTypes, Zenon DEF kind
    <3>3. CASE m = "camera" /\ u = "health"
      BY <2>1, <3>3, MonitorTypes, Zenon DEF kind
    <3>4. QED
      BY <3>1, <3>2, <3>3, Zenon
  <2>3. ASSUME mon[u].at = "write", mon[u].found # 0
        PROVE  mon[u].found # a /\ mon[u].found \in 1 .. Len(alarms)
    <3>1. mon[u].found \in 1 .. Len(alarms) /\ alarms[mon[u].found].kind = AlarmTypes(u)[mon[u].i]
      BY Zenon, <2>3, HeldRow DEF AlarmInv, LoopsOK, LoopOK
    <3>2. a # 0 => alarms[a].kind = kind
      BY Zenon, <1>s
    <3>3. QED
      BY Zenon, <2>2, <2>3, <3>1, <3>2
  <2>4. QED
    BY Zenon, <1>3, <2>2, <2>3 DEF Undisturbed
<1>5. LoopsOK'
  <2>1. PICK q \in MonitorLoop(m) : /\ mon' = [mon EXCEPT ![m] = q]
                                    /\ q.at # "write" /\ q.found <= Len(alarms)
                                    /\ q.at = "stopped" => m = "camera" /\ ~online
    BY Zenon, <1>u, NextTypeLoop
  <2>2. QED
    BY Zenon, <1>3, <1>4, <1>u, <2>1, MonitorBetweenTypes
<1>6. QED
  BY Zenon, <1>3, <1>5, <1>u, OthersKeep DEF AlarmInv

\* A round that ends with an error.
LEMMA ReconcileErrorKeeps ==
  ASSUME AlarmInv, NEW m \in Monitor, ReconcileError(m)
  PROVE  AlarmInv'
<1>u. UNCHANGED <<running, alarms, health, camera, episode, signature, online, op, changes,
                  actions>>
  BY Zenon DEF ReconcileError
<1>1. RowsOK' /\ RowsKept /\ \A u \in Monitor : Undisturbed(u)
  BY Zenon, <1>u, RowsUntouched DEF AlarmInv
<1> DEFINE e == [Asleep EXCEPT !.at = "stopped"]
<1>2. mon' = [mon EXCEPT ![m] = IF m = "camera" /\ ~online THEN e ELSE Asleep]
  BY Zenon DEF ReconcileError
<1>3. /\ Asleep \in MonitorLoop(m) /\ Asleep.at = "sleep" /\ Asleep.found = 0
      /\ e \in MonitorLoop(m) /\ e.at = "stopped" /\ e.found = 0
  <2>1. 1 \in 1 .. Len(AlarmTypes(m))
    BY MonitorTypes
  <2>2. QED
    BY Zenon, <2>1 DEF Asleep, MonitorLoop
<1>4. Len(alarms) \in Nat
  BY DEF AlarmInv, RowsOK
<1>5. Asleep.found <= Len(alarms) /\ e.found <= Len(alarms)
  BY <1>3, <1>4
<1> HIDE DEF e
<1>6. LoopsOK'
  <2>1. CASE m = "camera" /\ ~online
    BY Zenon, <1>1, <1>2, <1>3, <1>5, <1>u, <2>1, MonitorBetweenTypes
  <2>2. CASE ~(m = "camera" /\ ~online)
    <3>1. mon' = [mon EXCEPT ![m] = Asleep] /\ Asleep.at # "write" /\ Asleep.at # "stopped"
      BY Zenon, <1>2, <1>3, <2>2
    <3>2. QED
      BY Zenon, <1>1, <1>3, <1>5, <1>u, <3>1, MonitorBetweenTypes
  <2>3. QED
    BY Zenon, <2>1, <2>2
<1>7. QED
  BY Zenon, <1>1, <1>6, <1>u, OthersKeep DEF AlarmInv

\* The conditions change, outside the program.
LEMMA ConditionsKeep ==
  ASSUME AlarmInv, CheckChanges \/ CameraChanges
  PROVE  AlarmInv'
<1>u. UNCHANGED <<alarms, mon, online, op>>
  BY Zenon DEF CheckChanges, CameraChanges
<1>1. RowsOK' /\ RowsKept /\ \A u \in Monitor : Undisturbed(u)
  BY Zenon, <1>u, RowsUntouched DEF AlarmInv
<1>2. ConditionsOK'
  BY DEF CheckChanges, CameraChanges, AlarmInv, ConditionsOK, Managed
<1>3. QED
  BY Zenon, <1>1, <1>2, <1>u, OthersKeep DEF AlarmInv

\* A service that starts has read nothing.
LEMMA FreshLoops ==
  ASSUME RowsOK', mon' = [m \in Monitor |-> Asleep]
  PROVE  LoopsOK'
<1>1. \A m \in Monitor : 1 \in 1 .. Len(AlarmTypes(m))
  BY MonitorTypes
<1>2. \A m \in Monitor : Asleep \in MonitorLoop(m)
  BY Zenon, <1>1 DEF Asleep, MonitorLoop
<1>3. Asleep.at = "sleep" /\ Asleep.found = 0
  BY Zenon DEF Asleep
<1>4. Len(alarms') \in Nat
  BY DEF RowsOK
<1>5. QED
  BY <1>2, <1>3, <1>4 DEF LoopsOK, LoopOK

\* A restart at any moment.
LEMMA RestartKeeps ==
  ASSUME AlarmInv, Restart
  PROVE  AlarmInv'
<1>u. UNCHANGED <<alarms, episode, changes, camera>>
  BY Zenon DEF Restart
<1>1. RowsOK' /\ RowsKept /\ \A u \in Monitor : Undisturbed(u)
  BY Zenon, <1>u, RowsUntouched DEF AlarmInv
<1>2. LoopsOK'
  BY Zenon, <1>1, FreshLoops DEF Restart
<1>3. ActionsOK'
  BY Zenon DEF Restart, ActionsOK, OpIdle
<1>4. QED
  BY Zenon, <1>1, <1>2, <1>3, <1>u, OthersKeep DEF AlarmInv

\* The inductive invariant holds in every reachable state.
THEOREM AlarmInvariant == AlSpec => []AlarmInv
<1>1. AlInit => AlarmInv
  <2> SUFFICES ASSUME AlInit PROVE AlarmInv
    BY Zenon
  <2>1. alarms = <<>> /\ mon = [m \in Monitor |-> Asleep] /\ op = [o \in Operator |-> OpIdle]
    BY Zenon DEF AlInit
  <2>2. RowsOK
    BY <2>1 DEF RowsOK, OneOpenEpisode
  <2>3. LoopsOK
    <3>1. \A m \in Monitor : 1 \in 1 .. Len(AlarmTypes(m))
      BY MonitorTypes
    <3>2. \A m \in Monitor : Asleep \in MonitorLoop(m)
      BY Zenon, <3>1 DEF Asleep, MonitorLoop
    <3>3. Asleep.at = "sleep" /\ Asleep.found = 0
      BY Zenon DEF Asleep
    <3>4. QED
      BY <2>1, <3>2, <3>3 DEF LoopsOK, LoopOK
  <2>4. ActionsOK /\ ConditionsOK
    BY <2>1 DEF AlInit, ActionsOK, ConditionsOK, OpIdle
  <2>5. QED
    BY Zenon, <2>2, <2>3, <2>4 DEF AlarmInv
<1>2. AlarmInv /\ [AlNext]_alVars => AlarmInv'
  <2> SUFFICES ASSUME AlarmInv, [AlNext]_alVars PROVE AlarmInv'
    BY Zenon
  <2>1. CASE \E d \in DefectKey : DefectAlarm(d)
    BY Zenon, <2>1, DefectAlarmKeeps
  <2>2. CASE \E o \in Operator :
               \/ AcknowledgeWrite(o) \/ ResolveWrite(o)
               \/ \E a \in 1 .. Len(alarms), action \in {"acknowledge", "resolve"} :
                    AlarmAction(o, a, action)
    BY Zenon, <2>2, OperatorWriteKeeps, AlarmActionKeeps
  <2>3. CASE StartHealthRound \/ StartCameraRound \/ StartInactiveRound
    <3>1. 0 \in Nat /\ episode \in Nat /\ {} \in SUBSET Managed /\ Signature = episode
          /\ WantedHealth \in SUBSET Managed /\ WantedCamera \in SUBSET Managed
          /\ "health" \in Monitor /\ "camera" \in Monitor
      BY Zenon, WantedTypes DEF AlarmInv, ConditionsOK, Signature, Monitor
    <3>2. QED
      BY Zenon, <2>3, <3>1, BeginRoundKeeps DEF StartHealthRound, StartCameraRound, StartInactiveRound
  <2>4. CASE \E m \in Monitor : ReconcileRead(m) \/ ReconcileWrite(m) \/ ReconcileError(m)
    BY Zenon, <2>4, ReconcileReadKeeps, ReconcileWriteKeeps, ReconcileErrorKeeps
  <2>5. CASE CheckChanges \/ CameraChanges \/ Restart
    BY Zenon, <2>5, ConditionsKeep, RestartKeeps
  <2>6. CASE UNCHANGED alVars
    <3>1. UNCHANGED <<alarms, mon, online, op, episode, changes, camera>>
      BY Zenon, <2>6 DEF alVars
    <3>2. RowsOK' /\ RowsKept /\ \A m \in Monitor : Undisturbed(m)
      BY Zenon, <3>1, RowsUntouched DEF AlarmInv
    <3>3. QED
      BY Zenon, <3>1, <3>2, OthersKeep DEF AlarmInv
  <2>7. QED
    BY Zenon, <2>1, <2>2, <2>3, <2>4, <2>5, <2>6 DEF AlNext, HealthStep, CameraStep, Monitor
<1>3. QED
  BY <1>1, <1>2, PTL DEF AlSpec

\* A condition has one open alarm and a closed one names who closed it, for
\* every number of operators, defects, rounds, errors and restarts and every
\* choice of health types.
THEOREM AlarmsAlwaysSafe == AlSpec => []AlarmSafety
<1>1. AlarmInv => AlarmSafety
  <2> SUFFICES ASSUME AlarmInv PROVE AlarmSafety
    BY Zenon
  <2>1. OneOpenEpisode /\ ClosedIsAccounted
    BY Zenon DEF AlarmInv, RowsOK, RowAccounted, ClosedIsAccounted
  <2>2. Len(alarms) \in Nat /\ \A a \in 1 .. Len(alarms) : alarms[a] \in AlarmRow
    BY DEF AlarmInv, RowsOK
  <2>3. \A m \in Monitor : /\ mon[m] \in MonitorLoop(m) /\ mon[m].found <= Len(alarms)
                           /\ mon[m].at = "stopped" => m = "camera" /\ ~online
    BY Zenon DEF AlarmInv, LoopsOK, LoopOK
  <2>4. AlTypeOK
    BY <2>2, <2>3 DEF AlTypeOK, AlarmRow, MonitorLoop
  <2>5. QED
    BY Zenon, <2>1, <2>4 DEF AlarmSafety
<1>2. QED
  BY <1>1, AlarmInvariant, PTL

=============================================================================
