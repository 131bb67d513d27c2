------------------------- MODULE MutationFlowProofs -------------------------
(***************************************************************************)
(* Proofs about MutationFlow for every document, every set of tokens, keys *)
(* and callers, and every bound of the ledger, the queue and the clock.    *)
(***************************************************************************)
EXTENDS MutationFlow, FiniteSetTheorems, WellFoundedInduction, TLAPS

(* The maps of the ledger: how trimOldest keeps them within their capacity. *)

LEMMA FiniteMax ==
    ASSUME NEW S, IsFiniteSet(S), S \subseteq Int, S # {}
    PROVE  \E m \in S : \A s \in S : m >= s
<1> DEFINE Bad == {T \in SUBSET S : T # {} /\ \A m \in T : \E s \in T : ~(m >= s)}
<1> SUFFICES ASSUME Bad # {} PROVE FALSE
    OBVIOUS
<1>1. Bad \subseteq FiniteSubsetsOf(S)
    BY FS_Subset DEF FiniteSubsetsOf
<1>2. PICK bad : bad = Bad
    OBVIOUS
<1>3. PICK R : R = StrictSubsetOrdering(S)
    OBVIOUS
<1>4. PICK F : F = FiniteSubsetsOf(S)
    OBVIOUS
<1>5. \E T \in bad : \A U \in bad : ~(<<U, T>> \in R)
    <2>1. IsWellFoundedOn(R, F)
        BY <1>3, <1>4, FS_StrictSubsetOrderingWellFounded
    <2> QED BY <1>1, <1>2, <1>4, <2>1, WFMin
<1>6. PICK T \in bad : \A U \in bad : ~(<<U, T>> \in R)
    BY <1>5
<1>7. PICK x : x \in T
    BY <1>2
<1>8. PICK U : U = T \ {x}
    OBVIOUS
<1>9. U \notin bad
    BY <1>2, <1>3, <1>6, <1>7, <1>8 DEF StrictSubsetOrdering
<1>10. CASE U = {}
    BY <1>2, <1>6, <1>7, <1>8, <1>10
<1>11. CASE U # {}
    <2>1. PICK m \in U : \A s \in U : m >= s
        BY <1>2, <1>6, <1>8, <1>9, <1>11
    <2>2. \A s \in T : s \in Int
        BY <1>2
    <2>3. CASE m >= x
        BY <1>2, <1>6, <1>7, <1>8, <2>1, <2>3
    <2>4. CASE ~(m >= x)
        BY <1>2, <1>6, <1>7, <1>8, <2>1, <2>2, <2>4
    <2> QED BY <2>3, <2>4
<1> QED BY <1>10, <1>11

LEMMA FiniteMaxValue ==
    ASSUME NEW S, IsFiniteSet(S), S # {}, NEW f \in [S -> Int]
    PROVE  \E r \in S : \A s \in S : f[r] >= f[s]
<1>1. PICK N : N = {f[r] : r \in S}
    OBVIOUS
<1>2. f \in Surjection(S, N)
    BY <1>1 DEF Surjection
<1>3. IsFiniteSet(N) /\ N \subseteq Int /\ N # {}
    BY <1>1, <1>2, FS_Surjection
<1>4. PICK m \in N : \A n \in N : m >= n
    BY <1>3, FiniteMax
<1> QED BY <1>1, <1>4

Stamped(map) ==
    /\ \A r \in map : r.stamp \in Nat
    /\ \A r, s \in map : r.stamp = s.stamp => r = s

Capped(map) == IsFiniteSet(map) /\ Cardinality(map) <= MaxLedger /\ Stamped(map)

LEMMA OldestOf ==
    ASSUME NEW map, IsFiniteSet(map), map # {}, Stamped(map)
    PROVE  \E o \in map : \A r \in map : r # o => r.stamp > o.stamp
<1>1. PICK f : f = [r \in map |-> 0 - r.stamp]
    OBVIOUS
<1>2. f \in [map -> Int] /\ \A r \in map : f[r] = 0 - r.stamp
    BY <1>1 DEF Stamped
<1>3. PICK o \in map : \A r \in map : f[o] >= f[r]
    BY <1>2, FiniteMaxValue
<1>4. \A r \in map : r # o => r.stamp > o.stamp
    <2>1. ASSUME NEW r \in map, r # o PROVE r.stamp > o.stamp
        <3>1. r.stamp \in Nat /\ o.stamp \in Nat /\ r.stamp # o.stamp
            BY <2>1 DEF Stamped
        <3>2. 0 - o.stamp >= 0 - r.stamp
            BY <1>2, <1>3
        <3> QED BY <3>1, <3>2
    <2> QED BY <2>1
<1> QED BY <1>4

\* A new stamp is greater than all.
LEMMA NextStampIsNew ==
    ASSUME NEW map, IsFiniteSet(map), Stamped(map)
    PROVE  NextStamp(map) \in Nat /\ \A r \in map : r.stamp < NextStamp(map)
<1>1. PICK N : N = {r.stamp : r \in map}
    OBVIOUS
<1>2. PICK f : f = [r \in map |-> r.stamp]
    OBVIOUS
<1>3. f \in Surjection(map, N)
    BY <1>1, <1>2 DEF Surjection
<1>4. IsFiniteSet(N) /\ N \subseteq Nat
    BY <1>1, <1>3, FS_Surjection DEF Stamped
<1>5. PICK M : M = N \cup {0}
    OBVIOUS
<1>6. IsFiniteSet(M) /\ M # {} /\ M \subseteq Int
    BY <1>4, <1>5, FS_AddElement
<1>7. \E m \in M : \A n \in M : m >= n
    BY <1>6, FiniteMax
<1>8. Max(M) \in M /\ \A n \in M : Max(M) >= n
    BY <1>7 DEF Max
<1>9. NextStamp(map) = 1 + Max(M)
    BY <1>1, <1>5 DEF NextStamp
<1>10. Max(M) \in Nat
    <2>1. M \subseteq Nat
        BY <1>4, <1>5
    <2> QED BY <1>8, <2>1
<1>11. ASSUME NEW r \in map PROVE r.stamp < NextStamp(map)
    <2>1. r.stamp \in M /\ r.stamp \in Nat
        BY <1>1, <1>5 DEF Stamped
    <2>2. Max(M) >= r.stamp
        BY <1>8, <2>1
    <2> QED BY <1>9, <1>10, <2>1, <2>2
<1> QED BY <1>9, <1>10, <1>11

\* A map that takes one more record drops its oldest when it is full.
LEMMA PutCaps ==
    ASSUME NEW map, Capped(map), NEW new, new.stamp = NextStamp(map),
           NEW all, all = map \cup {new}
    PROVE  Capped(Trimmed(all)) /\ new \in Trimmed(all) /\ Trimmed(all) \subseteq map \cup {new}
<1>1. NextStamp(map) \in Nat /\ \A s \in map : s.stamp < NextStamp(map)
    BY NextStampIsNew DEF Capped
<1>2. \A s \in map : s.stamp \in Nat
    BY DEF Capped, Stamped
<1>3. Stamped(all) /\ new \notin map
    <2>1. \A s \in map : s.stamp # new.stamp
        BY <1>1, <1>2
    <2> QED BY <1>1, <2>1 DEF Capped, Stamped
<1>4. /\ IsFiniteSet(all) /\ Cardinality(all) = Cardinality(map) + 1
      /\ Cardinality(map) \in Nat /\ MaxLedger \in Nat \ {0}
    BY <1>3, FS_AddElement, FS_CardinalityType, LedgerAssumption DEF Capped
<1>5. new \in Trimmed(all)
    <2>1. ASSUME NEW s \in all PROVE ~(s.stamp > new.stamp)
        <3>1. CASE s = new
            BY <1>1, <3>1
        <3>2. CASE s \in map
            <4>1. s.stamp < NextStamp(map) /\ s.stamp \in Nat
                BY <1>1, <1>2, <3>2
            <4> QED BY <1>1, <4>1
        <3> QED BY <3>1, <3>2
    <2>2. Newer(all, new) = {}
        BY <2>1 DEF Newer
    <2>3. Cardinality(Newer(all, new)) = 0
        BY <2>2, FS_EmptySet
    <2>4. new \in all /\ 0 < MaxLedger
        BY <1>4
    <2> QED BY <2>3, <2>4 DEF Trimmed
<1>6. IsFiniteSet(Trimmed(all)) /\ Trimmed(all) \subseteq all /\ Stamped(Trimmed(all))
    <2>1. Trimmed(all) \subseteq all
        BY DEF Trimmed
    <2> QED BY <1>3, <1>4, <2>1, FS_Subset DEF Stamped
<1>7. Cardinality(Trimmed(all)) <= MaxLedger
    <2>1. CASE Cardinality(map) < MaxLedger
        <3>1. Cardinality(Trimmed(all)) <= Cardinality(all) /\ Cardinality(Trimmed(all)) \in Nat
            BY <1>4, <1>6, FS_Subset, FS_CardinalityType
        <3> QED BY <1>4, <2>1, <3>1
    <2>2. CASE ~(Cardinality(map) < MaxLedger)
        <3>1. PICK o \in all : \A s \in all : s # o => s.stamp > o.stamp
            BY <1>3, <1>4, OldestOf
        <3>2. PICK others : others = all \ {o}
            OBVIOUS
        <3>3. IsFiniteSet(others) /\ Cardinality(others) = Cardinality(map)
            BY <1>4, <3>2, FS_RemoveElement
        <3>4. Newer(all, o) = others
            BY <1>3, <3>1, <3>2 DEF Newer, Stamped
        <3>5. Cardinality(map) = MaxLedger
            BY <1>4, <2>2 DEF Capped
        <3>6. Trimmed(all) \subseteq others
            <4>1. ~(Cardinality(Newer(all, o)) < MaxLedger)
                BY <1>4, <3>3, <3>4, <3>5
            <4> QED BY <3>2, <4>1 DEF Trimmed
        <3>7. Cardinality(Trimmed(all)) <= Cardinality(others)
            BY <3>3, <3>6, FS_Subset
        <3> QED BY <3>3, <3>5, <3>7
    <2> QED BY <2>1, <2>2
<1> QED BY <1>5, <1>6, <1>7 DEF Capped

LEMMA PartCaps ==
    ASSUME NEW map, Capped(map), NEW part, part \subseteq map
    PROVE  Capped(part)
<1>1. IsFiniteSet(map) /\ Cardinality(map) <= MaxLedger /\ Stamped(map)
    BY DEF Capped
<1>2. IsFiniteSet(part) /\ Cardinality(part) <= Cardinality(map)
    BY <1>1, FS_Subset
<1>3. Cardinality(part) \in Nat /\ Cardinality(map) \in Nat /\ MaxLedger \in Nat
    BY <1>1, <1>2, FS_CardinalityType, LedgerAssumption
<1> QED BY <1>1, <1>2, <1>3 DEF Capped, Stamped

LEMMA LiveIsPart == \A map : Live(map) \subseteq map
BY DEF Live
-----------------------------------------------------------------------------
(* The invariant. *)

FlowTypes ==
    /\ LedgerTypeOK
    /\ doc \in Documents /\ revision = doc
    /\ pending \subseteq PreviewRecord /\ minted \subseteq Tokens
    /\ lane \in Seq(Mutations) /\ Len(lane) <= MaxQueueDepth + 1
    /\ running \in {"queued", "audit"}
    /\ waiting \in Seq(Callers) /\ failed \in BOOLEAN /\ outcome \in [Callers -> Outcomes]
    /\ stage \in [Tokens -> History!Stages]
    /\ \A v \in verify : v.caller \in Verifiers /\ v.token \in Tokens

MapsCapped ==
    /\ Capped(previews) /\ Capped(applied) /\ Capped(rollbacks)
    /\ Capped(idempotency) /\ Capped(pending)

\* Each token has at most one offer, and what the ledger holds of it goes back to that.
OffersKnown ==
    /\ offers \subseteq History!Offers
    /\ \A o, p \in offers : o.token = p.token => o = p
    /\ \A o \in offers : stage[o.token] # "none"

RecordsOffered ==
    /\ \A p \in previews : \E o \in offers :
           /\ o.token = p.token /\ o.op = p.op /\ o.changes = p.changes
           /\ o.on = p.documentRevision /\ o.on[o.op] = p.fingerprint
    /\ \A r \in rollbacks : \E o \in offers :
           /\ o.token = r.token /\ o.op = r.op /\ o.changes = r.restoredSource
           /\ r.restored = Before(o.on, o.op, o.changes)

\* How far a change has come, of which the maps still hold something.
RecordStages ==
    /\ \A p \in pending : stage[p.token] = "offered"
    /\ \A r \in applied : stage[r.token] \in {"changing", "changed", "reverting", "reverted"}
    /\ \A r \in rollbacks : stage[r.token] \in {"changing", "changed", "reverting"}

\* A mutation in the lane: of an apply that was accepted, or of a rollback of a change
\* that was made; the head is at work during its audit record, and only that one is.
AtWork(n) == n = 1 /\ running = "audit"

LaneStages ==
    /\ running = "audit" => lane # <<>>
    /\ \A n \in DOMAIN lane :
           IF lane[n].kind = "apply"
           THEN stage[lane[n].token] = IF AtWork(n) THEN "changing" ELSE "accepted"
           ELSE stage[lane[n].token] \in
                    IF AtWork(n) THEN {"reverting"} ELSE {"changed", "reverting", "reverted"}
    /\ \A m, n \in DOMAIN lane :
           lane[m].kind = "apply" /\ lane[n].kind = "apply" /\ lane[m].token = lane[n].token => m = n
    /\ \A t \in Tokens : stage[t] \in {"changing", "reverting"} => running = "audit" /\ t = lane[1].token

\* What the mutation at work holds on to undoes exactly its own change.
ReceiptHeld ==
    running = "audit" => \E o \in offers, held \in receipt :
        /\ receipt = {held} /\ o.token = lane[1].token /\ held.op = o.op
        /\ IF lane[1].kind = "apply"
           THEN doc = With(o.on, o.op, o.changes) /\ held.before = Before(o.on, o.op, o.changes)
           ELSE held.before = o.changes

\* The key of the mutation at work is not in use.
KeysApart ==
    /\ \A i, j \in idempotency : i.key = j.key => i = j
    /\ running = "audit" => \A i \in idempotency : i.key = lane[1].key => i.expiresAt < now

AuditTells ==
    /\ \A c \in Callers : outcome[c] = "waiting" => \E n \in DOMAIN waiting : waiting[n] = c
    /\ \A n \in DOMAIN waiting : outcome[waiting[n]] = "waiting"
    /\ \A m, n \in DOMAIN waiting : waiting[m] = waiting[n] => m = n
    /\ \A c \in Callers : outcome[c] = "failed" => failed
    /\ outcome[Mutator] \in IF running = "audit" THEN {"waiting", "acked", "failed"} ELSE {"none"}

\* A verification that began while its apply is at work is behind it in the audit log.
Precedes(c, d) == \A m, n \in DOMAIN waiting : waiting[m] = c /\ waiting[n] = d => m < n

Stands(v) ==
    \/ stage[v.token] \in {"changed", "reverting", "reverted"}
    \/ /\ stage[v.token] = "changing"
       /\ outcome[v.caller] = "acked" => outcome[Mutator] = "acked"
       /\ Precedes(Mutator, v.caller)
    \/ stage[v.token] = "failed" /\ failed /\ outcome[v.caller] # "acked"

VerifyStands == \A v \in verify : Stands(v)

FlowInv ==
    /\ FlowTypes /\ MapsCapped
    /\ OffersKnown /\ RecordsOffered /\ RecordStages
    /\ LaneStages /\ ReceiptHeld /\ KeysApart
    /\ AuditTells /\ VerifyStands
-----------------------------------------------------------------------------
(* Changes of the document. *)

LEMMA WithType ==
    ASSUME NEW d \in Documents, NEW op \in Operations, NEW changes \in Changes
    PROVE  With(d, op, changes) \in Documents
<1>1. d[op] \in [Fields -> Values] /\ \A f \in DOMAIN changes : changes[f] \in Values
    BY DEF Documents, Changes
<1> QED BY <1>1 DEF With, Documents

LEMMA BeforeType ==
    ASSUME NEW d \in Documents, NEW op \in Operations, NEW changes \in Changes
    PROVE  Before(d, op, changes) \in Changes /\ DOMAIN Before(d, op, changes) = DOMAIN changes
<1>1. PICK F \in (SUBSET Fields) \ {{}} : changes \in [F -> Values]
    BY DEF Changes
<1>2. Before(d, op, changes) \in [F -> Values]
    BY <1>1 DEF Before, Documents
<1> QED BY <1>1, <1>2 DEF Changes, Before

LEMMA WithHolds ==
    ASSUME NEW d \in Documents, NEW op \in Operations, NEW changes \in Changes
    PROVE  Holds(With(d, op, changes), op, changes)
<1>1. DOMAIN changes \subseteq Fields
    BY DEF Changes
<1> QED BY <1>1 DEF Holds, With, Documents

\* Undoing a change gives back the whole document.
LEMMA UndoGivesBack ==
    ASSUME NEW d \in Documents, NEW op \in Operations, NEW changes \in Changes
    PROVE  With(With(d, op, changes), op, Before(d, op, changes)) = d
<1> DEFINE changed == With(d, op, changes)
           old == Before(d, op, changes)
           undone == With(changed, op, old)
<1>1. changed \in Documents /\ old \in Changes /\ DOMAIN old = DOMAIN changes
    BY WithType, BeforeType
<1>2. undone \in Documents
    BY <1>1, WithType
<1>3. \A o \in Operations \ {op} : changed[o] = d[o] /\ undone[o] = changed[o]
    BY <1>1 DEF With, Documents
<1>4. \A f \in Fields : undone[op][f] = d[op][f]
    <2>1. \A f \in Fields : changed[op][f] = IF f \in DOMAIN changes THEN changes[f] ELSE d[op][f]
        BY DEF With, Documents
    <2>2. \A f \in DOMAIN changes : old[f] = d[op][f]
        BY DEF Before
    <2> HIDE DEF changed, old
    <2>3. \A f \in Fields : undone[op][f] = IF f \in DOMAIN old THEN old[f] ELSE changed[op][f]
        BY <1>1 DEF With, Documents
    <2> QED BY <1>1, <2>1, <2>2, <2>3
<1>5. undone[op] \in [Fields -> Values] /\ d[op] \in [Fields -> Values]
    BY <1>2 DEF Documents
<1> HIDE DEF undone, changed, old
<1>6. undone[op] = d[op]
    BY <1>4, <1>5
<1>7. \A o \in Operations : undone[o] = d[o]
    BY <1>3, <1>6
<1>8. undone = d
    BY <1>2, <1>7 DEF Documents
<1> QED BY <1>8 DEF undone, changed, old
-----------------------------------------------------------------------------
(* What a map becomes that takes one more record. *)

LEMMA PreviewPut ==
    ASSUME FlowInv, NEW token \in Tokens, NEW op \in Operations, NEW changes \in Changes,
           CreatePreview(token, op, changes, doc, revision)
    PROVE  /\ Capped(previews') /\ previews' \subseteq PreviewRecord
           /\ \A p \in previews' : p \in previews \/
                  /\ p.token = token /\ p.op = op /\ p.changes = changes
                  /\ p.documentRevision = doc /\ p.fingerprint = doc[op]
           /\ \E p \in previews' : p.token = token
<1>1. PICK map : map = Live(previews)
    OBVIOUS
<1>2. Capped(map) /\ map \subseteq previews
    BY <1>1, LiveIsPart, PartCaps DEF FlowInv, MapsCapped
<1>3. PICK r : r = [token |-> token, op |-> op, changes |-> changes, documentRevision |-> doc,
                    fingerprint |-> doc[op], expiresAt |-> Expiry, stamp |-> 0]
    OBVIOUS
<1>4. PICK new : new = [r EXCEPT !.stamp = NextStamp(map)]
    OBVIOUS
<1>5. /\ new.token = token /\ new.op = op /\ new.changes = changes
      /\ new.documentRevision = doc /\ new.fingerprint = doc[op]
      /\ new.stamp = NextStamp(map)
    BY <1>3, <1>4
<1>6. PICK all : all = map \cup {new}
    OBVIOUS
<1>7. Capped(previews') /\ new \in previews' /\ previews' \subseteq map \cup {new}
    <2>1. previews' = Trimmed(all)
        BY <1>1, <1>3, <1>4, <1>6 DEF CreatePreview, FlowInv, FlowTypes, Put
    <2> QED BY <1>2, <1>5, <1>6, <2>1, PutCaps
<1>8. new \in PreviewRecord
    <2>1. Expiry \in Times
        BY LedgerAssumption DEF FlowInv, FlowTypes, LedgerTypeOK, Expiry, Times
    <2>2. doc \in Documents /\ doc[op] \in [Fields -> Values] /\ NextStamp(map) \in Nat
        BY <1>5, <1>7, <1>2, NextStampIsNew DEF FlowInv, FlowTypes, Documents, Capped
    <2> QED BY <1>3, <1>4, <2>1, <2>2 DEF PreviewRecord
<1>9. previews \subseteq PreviewRecord
    BY DEF FlowInv, FlowTypes, LedgerTypeOK
<1> QED BY <1>2, <1>5, <1>7, <1>8, <1>9

LEMMA ApplyPut ==
    ASSUME FlowInv, NEW p \in previews, RecordApply(p)
    PROVE  /\ Capped(applied') /\ applied' \subseteq ApplyRecord
           /\ \A r \in applied' : r \in applied \/ r.token = p.token
           /\ Capped(rollbacks') /\ rollbacks' \subseteq RollbackRecord
           /\ \A r \in rollbacks' : r \in rollbacks \/
                  /\ r.token = p.token /\ r.op = p.op /\ r.restoredSource = p.changes
                  /\ r.restored = [f \in DOMAIN p.changes |-> p.fingerprint[f]]
<1>1. PICK maps : maps = <<Live(applied), Live(rollbacks)>>
    OBVIOUS
<1>2. /\ Capped(maps[1]) /\ maps[1] \subseteq applied
      /\ Capped(maps[2]) /\ maps[2] \subseteq rollbacks
    BY <1>1, LiveIsPart, PartCaps DEF FlowInv, MapsCapped
<1>3. PICK before : before = Before([op \in {p.op} |-> p.fingerprint], p.op, p.changes)
    OBVIOUS
<1>4. PICK a : a = [token |-> p.token, op |-> p.op, before |-> before, after |-> p.changes,
                    expiresAt |-> Expiry, stamp |-> 0]
    OBVIOUS
<1>5. PICK b : b = [token |-> p.token, op |-> p.op, restored |-> before,
                    restoredSource |-> p.changes, expiresAt |-> Expiry, stamp |-> 0]
    OBVIOUS
<1>6. PICK anew : anew = [a EXCEPT !.stamp = NextStamp(maps[1])]
    OBVIOUS
<1>7. PICK bnew : bnew = [b EXCEPT !.stamp = NextStamp(maps[2])]
    OBVIOUS
<1>8. PICK aall, ball : aall = maps[1] \cup {anew} /\ ball = maps[2] \cup {bnew}
    OBVIOUS
<1>9. /\ anew.token = p.token /\ anew.stamp = NextStamp(maps[1])
      /\ bnew.token = p.token /\ bnew.stamp = NextStamp(maps[2])
      /\ bnew.op = p.op /\ bnew.restoredSource = p.changes /\ bnew.restored = before
    BY <1>4, <1>5, <1>6, <1>7
<1>10. PICK amap, bmap : amap = maps[1] /\ bmap = maps[2]
    OBVIOUS
<1>11. Capped(applied') /\ applied' \subseteq applied \cup {anew}
    <2>1. applied' = Trimmed(aall)
        BY <1>1, <1>3, <1>4, <1>6, <1>8 DEF RecordApply, Put
    <2> QED BY <1>2, <1>8, <1>9, <1>10, <2>1, PutCaps
<1>12. Capped(rollbacks') /\ rollbacks' \subseteq rollbacks \cup {bnew}
    <2>1. rollbacks' = Trimmed(ball)
        BY <1>1, <1>3, <1>5, <1>7, <1>8 DEF RecordApply, Put
    <2> QED BY <1>2, <1>8, <1>9, <1>10, <2>1, PutCaps
<1>13. anew \in ApplyRecord /\ bnew \in RollbackRecord
    <2>1. /\ p \in PreviewRecord /\ p.token \in Tokens /\ p.op \in Operations
          /\ p.changes \in Changes /\ p.fingerprint \in [Fields -> Values]
        BY DEF FlowInv, FlowTypes, LedgerTypeOK, PreviewRecord
    <2>2. PICK F \in (SUBSET Fields) \ {{}} : p.changes \in [F -> Values]
        BY <2>1 DEF Changes
    <2>3. before \in [F -> Values]
        BY <1>3, <2>1, <2>2 DEF Before
    <2>4. before \in Changes
        BY <2>3 DEF Changes
    <2>5. Expiry \in Times
        BY LedgerAssumption DEF FlowInv, FlowTypes, LedgerTypeOK, Expiry, Times
    <2>6. NextStamp(maps[1]) \in Nat /\ NextStamp(maps[2]) \in Nat
        BY <1>2, <1>10, NextStampIsNew DEF Capped
    <2>7. anew \in ApplyRecord
        BY <1>4, <1>6, <2>1, <2>4, <2>5, <2>6 DEF ApplyRecord
    <2>8. bnew \in RollbackRecord
        BY <1>5, <1>7, <2>1, <2>4, <2>5, <2>6 DEF RollbackRecord
    <2> QED BY <2>7, <2>8
<1>14. before = [f \in DOMAIN p.changes |-> p.fingerprint[f]]
    BY <1>3 DEF Before
<1>15. applied \subseteq ApplyRecord /\ rollbacks \subseteq RollbackRecord
    BY DEF FlowInv, FlowTypes, LedgerTypeOK
<1> QED BY <1>9, <1>11, <1>12, <1>13, <1>14, <1>15

LEMMA RememberPut ==
    ASSUME FlowInv, NEW key \in Keys, NEW action \in Actions, NEW token \in Tokens,
           NEW to, to = Remembered(key, action, token)
    PROVE  /\ Capped(to) /\ to \subseteq IdempotencyRecord
           /\ \E new : /\ new.key = key /\ new.action = action /\ new.token = token
                      /\ \A j \in to : j = new \/ (j \in idempotency /\ j.key # key)
<1>1. PICK map : map = Live(idempotency) \ Seen(key)
    OBVIOUS
<1>2. Capped(map) /\ map \subseteq idempotency /\ \A j \in map : j.key # key
    <2>1. map \subseteq idempotency /\ \A j \in map : j.key # key
        BY <1>1, LiveIsPart DEF Seen
    <2> QED BY <2>1, PartCaps DEF FlowInv, MapsCapped
<1>3. PICK r : r = [key |-> key, action |-> action, token |-> token,
                    expiresAt |-> Expiry, stamp |-> 0]
    OBVIOUS
<1>4. PICK new : new = [r EXCEPT !.stamp = NextStamp(map)]
    OBVIOUS
<1>5. /\ new.key = key /\ new.action = action /\ new.token = token
      /\ new.stamp = NextStamp(map)
    BY <1>3, <1>4
<1>6. PICK all : all = map \cup {new}
    OBVIOUS
<1>7. Capped(to) /\ new \in to /\ to \subseteq map \cup {new}
    <2>1. to = Trimmed(all)
        BY <1>1, <1>3, <1>4, <1>6, LedgerAssumption DEF Remembered, Put
    <2> QED BY <1>2, <1>5, <1>6, <2>1, PutCaps
<1>8. new \in IdempotencyRecord
    <2>1. Expiry \in Times
        BY LedgerAssumption DEF FlowInv, FlowTypes, LedgerTypeOK, Expiry, Times
    <2>2. NextStamp(map) \in Nat
        BY <1>2, NextStampIsNew DEF Capped
    <2> QED BY <1>3, <1>4, <2>1, <2>2 DEF IdempotencyRecord
<1>9. idempotency \subseteq IdempotencyRecord
    BY DEF FlowInv, FlowTypes, LedgerTypeOK
<1> QED BY <1>2, <1>5, <1>7, <1>8, <1>9

LEMMA PendingPut ==
    ASSUME FlowInv, NEW p \in PreviewRecord, RememberPreview(p)
    PROVE  /\ Capped(pending') /\ pending' \subseteq PreviewRecord
           /\ \A q \in pending' : q \in pending \/ q.token = p.token
<1>1. PICK map : map = Unexpired(pending)
    OBVIOUS
<1>2. Capped(map) /\ map \subseteq pending /\ pending \subseteq PreviewRecord /\ Capped(pending)
    <2>1. map \subseteq pending
        BY <1>1 DEF Unexpired
    <2> QED BY <2>1, PartCaps DEF FlowInv, MapsCapped, FlowTypes
<1>3. PICK new : new = [p EXCEPT !.stamp = NextStamp(map)]
    OBVIOUS
<1>4. new.token = p.token /\ new.stamp = NextStamp(map)
    BY <1>3 DEF PreviewRecord
<1>5. new \in PreviewRecord
    <2>1. NextStamp(map) \in Nat
        BY <1>2, NextStampIsNew DEF Capped
    <2> QED BY <1>3, <2>1 DEF PreviewRecord
<1>6. PICK all : all = map \cup {new}
    OBVIOUS
<1>7. CASE p.expiresAt > now
    <2>1. pending' = Trimmed(all)
        BY <1>1, <1>3, <1>6, <1>7 DEF RememberPreview, Put
    <2>2. Capped(pending') /\ pending' \subseteq map \cup {new}
        BY <1>2, <1>4, <1>6, <2>1, PutCaps
    <2> QED BY <1>2, <1>4, <1>5, <2>2
<1>8. CASE ~(p.expiresAt > now)
    <2>1. pending' = pending
        BY <1>8 DEF RememberPreview
    <2> QED BY <1>2, <2>1 DEF Capped, Stamped
<1> QED BY <1>7, <1>8
-----------------------------------------------------------------------------
(* The steps, as far as the maps and the lane can tell. *)

LEMMA EvictKeeps ==
    ASSUME Evict
    PROVE  /\ previews' \subseteq previews /\ applied' \subseteq applied
           /\ rollbacks' \subseteq rollbacks /\ idempotency' \subseteq idempotency
BY LiveIsPart DEF Evict

\* The mutation at the head of the lane.
LEMMA HeadOfLane ==
    ASSUME FlowInv, lane # <<>>
    PROVE  /\ Head(lane) = lane[1] /\ lane[1] \in Mutations /\ 1 \in DOMAIN lane
           /\ Token = lane[1].token /\ Key = lane[1].key /\ Token \in Tokens
           /\ Tail(lane) \in Seq(Mutations) /\ Len(Tail(lane)) = Len(lane) - 1
           /\ \A n \in DOMAIN Tail(lane) : n + 1 \in DOMAIN lane /\ Tail(lane)[n] = lane[n + 1]
<1>1. lane \in Seq(Mutations)
    BY DEF FlowInv, FlowTypes
<1>2. Head(lane) = lane[1] /\ lane[1] \in Mutations /\ 1 \in DOMAIN lane
    BY <1>1
<1>3. Token = lane[1].token /\ Key = lane[1].key /\ Token \in Tokens
    BY <1>2 DEF Token, Key, Mutations
<1>4. Tail(lane) \in Seq(Mutations) /\ Len(Tail(lane)) = Len(lane) - 1
    BY <1>1
<1>5. \A n \in DOMAIN Tail(lane) : n + 1 \in DOMAIN lane /\ Tail(lane)[n] = lane[n + 1]
    BY <1>1
<1> QED BY <1>2, <1>3, <1>4, <1>5

\* What is rolled back was changed and is not being undone.
LEMMA RollbackOfChanged ==
    ASSUME FlowInv, running = "queued", NEW t \in Tokens, NEW r \in PeekRollback(t)
    PROVE  r \in rollbacks /\ r.token = t /\ stage[t] = "changed"
<1>1. r \in rollbacks /\ r.token = t
    BY LiveIsPart DEF PeekRollback, Of
<1>2. stage[t] \in {"changing", "changed", "reverting"}
    BY <1>1 DEF FlowInv, RecordStages
<1> QED BY <1>1, <1>2 DEF FlowInv, LaneStages

\* The steps in which no map takes a record.
Shrinks ==
    /\ previews' \subseteq previews /\ applied' \subseteq applied
    /\ rollbacks' \subseteq rollbacks /\ idempotency' \subseteq idempotency
    /\ pending' \subseteq pending

Takes ==
    \/ \E token \in Tokens, op \in Operations, changes \in Changes : PreviewOperation(token, op, changes)
    \/ ApplyPreview \/ FinishApply \/ FinishRollback

LEMMA MapSteps ==
    ASSUME FlowInv, [Next]_vars
    PROVE  Shrinks \/ Takes
<1>1. ASSUME NEW caller \in Verifiers, NEW token \in Tokens, BeginVerify(caller, token)
      PROVE  Shrinks
    BY <1>1, EvictKeeps DEF BeginVerify, Shrinks
<1>2. ASSUME NEW token \in Tokens, NothingToApprove(token) \/ AskOperator(token) \/ RefuseApproval(token)
      PROVE  Shrinks
    BY <1>2 DEF NothingToApprove, AskOperator, RefuseApproval, Forget, GateOnly, ledger, Shrinks
<1>3. ASSUME NEW token \in Tokens, NEW key \in Keys \cup {NoKey},
             Approve(token, key) \/ RequestRollback(token, key)
      PROVE  Shrinks
    BY <1>3 DEF Approve, RequestRollback, Forget, GateOnly, ledger, Shrinks
<1>4. CASE RefuseApply
    <2>1. previews' \subseteq previews /\ applied' \subseteq applied
          /\ rollbacks' \subseteq rollbacks /\ idempotency' \subseteq idempotency
        BY <1>4, EvictKeeps, LiveIsPart DEF RefuseApply, ConsumeStale, PreviewsWithout
    <2> QED BY <1>4, <2>1 DEF RefuseApply, Refused, Shrinks
<1>5. CASE RefuseRollback
    BY <1>5, EvictKeeps DEF RefuseRollback, Refused, Shrinks
<1>6. CASE FailApply
    BY <1>6 DEF FailApply, DiscardApplied, Finish, Shrinks
<1>7. CASE Rollback
    <2>1. Evict /\ UNCHANGED pending
        BY <1>7 DEF Rollback, Mutate
    <2> QED BY <2>1, EvictKeeps DEF Shrinks
<1>8. CASE FailRollback
    BY <1>8 DEF FailRollback, Finish, ledger, Shrinks
<1>9. ASSUME NEW v \in verify, EndVerify(v) PROVE Shrinks
    BY <1>9 DEF EndVerify, ledger, Shrinks
<1>10. CASE AuditWrite \/ Tick \/ UNCHANGED vars
    BY <1>10 DEF AuditWrite, Tick, vars, ledger, flowVars, Shrinks
<1> QED BY <1>1, <1>2, <1>3, <1>4, <1>5, <1>6, <1>7, <1>8, <1>9, <1>10
        DEF Next, ClientStep, LaneStep, Takes

LEMMA TimeStep ==
    ASSUME FlowInv, [Next]_vars
    PROVE  now' \in 0..MaxTime /\ now <= now'
<1>1. CASE Tick
    BY <1>1, LedgerAssumption DEF Tick, FlowInv, FlowTypes, LedgerTypeOK
<1>2. CASE ~Tick
    <2>1. UNCHANGED now
        <3>1. ASSUME NEW token \in Tokens, NEW op \in Operations, NEW changes \in Changes,
                     PreviewOperation(token, op, changes)
              PROVE  UNCHANGED now
            BY <3>1 DEF PreviewOperation
        <3>2. ASSUME NEW caller \in Verifiers, NEW token \in Tokens, BeginVerify(caller, token)
              PROVE  UNCHANGED now
            BY <3>2 DEF BeginVerify
        <3>3. ASSUME NEW token \in Tokens,
                     NothingToApprove(token) \/ AskOperator(token) \/ RefuseApproval(token)
              PROVE  UNCHANGED now
            BY <3>3 DEF NothingToApprove, AskOperator, RefuseApproval, GateOnly
        <3>4. ASSUME NEW token \in Tokens, NEW key \in Keys \cup {NoKey},
                     Approve(token, key) \/ RequestRollback(token, key)
              PROVE  UNCHANGED now
            BY <3>4 DEF Approve, RequestRollback, GateOnly
        <3>5. CASE RefuseApply \/ RefuseRollback
            BY <3>5 DEF RefuseApply, RefuseRollback, Refused
        <3>6. CASE ApplyPreview \/ Rollback
            BY <3>6 DEF ApplyPreview, Rollback, Mutate
        <3>7. CASE FinishApply \/ FailApply \/ FinishRollback \/ FailRollback
            BY <3>7 DEF FinishApply, FailApply, FinishRollback, FailRollback, Finish
        <3>8. ASSUME NEW v \in verify, EndVerify(v) PROVE UNCHANGED now
            BY <3>8 DEF EndVerify
        <3>9. CASE AuditWrite \/ UNCHANGED vars
            BY <3>9 DEF AuditWrite, vars
        <3> QED BY <1>2, <3>1, <3>2, <3>3, <3>4, <3>5, <3>6, <3>7, <3>8, <3>9
                DEF Next, ClientStep, LaneStep
    <2> QED BY <2>1, LedgerAssumption DEF FlowInv, FlowTypes, LedgerTypeOK
<1> QED BY <1>1, <1>2

MapTypes == LedgerTypeOK /\ pending \subseteq PreviewRecord

LEMMA MapsShrink ==
    ASSUME FlowInv, [Next]_vars, Shrinks
    PROVE  MapsCapped' /\ MapTypes'
<1>1. Capped(previews') /\ Capped(applied') /\ Capped(rollbacks')
      /\ Capped(idempotency') /\ Capped(pending')
    BY PartCaps DEF FlowInv, MapsCapped, Shrinks
<1>2. Capped(previews)' = Capped(previews') /\ Capped(applied)' = Capped(applied')
      /\ Capped(rollbacks)' = Capped(rollbacks') /\ Capped(idempotency)' = Capped(idempotency')
      /\ Capped(pending)' = Capped(pending')
    BY DEF Capped, Stamped
<1>3. MapsCapped'
    BY <1>1, <1>2 DEF MapsCapped
<1>4. MapTypes'
    BY TimeStep DEF FlowInv, FlowTypes, LedgerTypeOK, MapTypes, Shrinks
<1> QED BY <1>3, <1>4

\* What the idempotency map becomes in a step that remembers the key.
LEMMA RememberStep ==
    ASSUME FlowInv, lane # <<>>, NEW kind \in Actions, Remember(kind)
    PROVE  /\ previews' \subseteq previews /\ applied' \subseteq applied
           /\ Capped(idempotency') /\ idempotency' \subseteq IdempotencyRecord
           /\ \/ Key = NoKey /\ idempotency' = idempotency
              \/ \E new : /\ new.key = Key /\ new.action = kind /\ new.token = Token
                         /\ \A j \in idempotency' : j = new \/ (j \in idempotency /\ j.key # Key)
<1>1. Key \in Keys \cup {NoKey} /\ Token \in Tokens
    BY HeadOfLane DEF Mutations
<1>2. CASE Key = NoKey
    BY <1>2 DEF Remember, FlowInv, MapsCapped, FlowTypes, LedgerTypeOK
<1>3. CASE Key \in Keys
    <2>1. Key # NoKey
        BY <1>3, LedgerAssumption
    <2>2. previews' \subseteq previews /\ applied' \subseteq applied
        BY <2>1, LiveIsPart DEF Remember
    <2>3. idempotency' = Remembered(Key, kind, Token)
        BY <2>1 DEF Remember
    <2>4. PICK key, token, to : key = Key /\ token = Token /\ to = idempotency'
        OBVIOUS
    <2>5. to = Remembered(key, kind, token)
        BY <2>3, <2>4
    <2>6. /\ Capped(to) /\ to \subseteq IdempotencyRecord
          /\ \E new : /\ new.key = key /\ new.action = kind /\ new.token = token
                     /\ \A j \in to : j = new \/ (j \in idempotency /\ j.key # key)
        BY <1>1, <1>3, <2>4, <2>5, RememberPut
    <2> QED BY <2>2, <2>4, <2>6
<1> QED BY <1>1, <1>2, <1>3

LEMMA FinishMaps ==
    ASSUME FlowInv, lane # <<>>, FinishApply \/ FinishRollback
    PROVE  /\ previews' \subseteq previews /\ applied' \subseteq applied
           /\ rollbacks' \subseteq rollbacks /\ UNCHANGED pending
           /\ Capped(idempotency') /\ idempotency' \subseteq IdempotencyRecord
<1>1. CASE FinishApply
    <2>1. Remember("apply") /\ rollbacks' \subseteq rollbacks /\ UNCHANGED pending
        BY <1>1, LiveIsPart DEF FinishApply, Finish
    <2> QED BY <2>1, RememberStep DEF Actions
<1>2. CASE FinishRollback /\ Of(rollbacks, Token) = {}
    <2>1. UNCHANGED <<ledger, pending>>
        BY <1>2 DEF FinishRollback, Finish
    <2> QED BY <2>1 DEF ledger, FlowInv, MapsCapped, FlowTypes, LedgerTypeOK
<1>3. CASE FinishRollback /\ Of(rollbacks, Token) # {}
    <2>1. Remember("rollback") /\ rollbacks' \subseteq rollbacks /\ UNCHANGED pending
        BY <1>3, LiveIsPart DEF FinishRollback, Finish
    <2> QED BY <2>1, RememberStep DEF Actions
<1> QED BY <1>1, <1>2, <1>3

\* The head of the lane is there while its audit record is awaited.
LEMMA SomeoneAtWork ==
    ASSUME FlowInv, running = "audit"
    PROVE  lane # <<>>
BY DEF FlowInv, LaneStages

LEMMA PeekIsPart ==
    ASSUME NEW token, NEW p \in Peek(token)
    PROVE  p \in previews /\ p.token = token
BY LiveIsPart DEF Peek, Of

LEMMA MapsStep ==
    ASSUME FlowInv, [Next]_vars
    PROVE  MapsCapped' /\ MapTypes'
<1>1. /\ MapsCapped /\ now' \in 0..MaxTime
      /\ previews \subseteq PreviewRecord /\ applied \subseteq ApplyRecord
      /\ rollbacks \subseteq RollbackRecord /\ idempotency \subseteq IdempotencyRecord
      /\ pending \subseteq PreviewRecord
    BY TimeStep DEF FlowInv, FlowTypes, LedgerTypeOK
<1>2. Capped(previews)' = Capped(previews') /\ Capped(applied)' = Capped(applied')
      /\ Capped(rollbacks)' = Capped(rollbacks') /\ Capped(idempotency)' = Capped(idempotency')
      /\ Capped(pending)' = Capped(pending')
    BY DEF Capped, Stamped
<1>3. SUFFICES /\ Capped(previews') /\ previews' \subseteq PreviewRecord
               /\ Capped(applied') /\ applied' \subseteq ApplyRecord
               /\ Capped(rollbacks') /\ rollbacks' \subseteq RollbackRecord
               /\ Capped(idempotency') /\ idempotency' \subseteq IdempotencyRecord
               /\ Capped(pending') /\ pending' \subseteq PreviewRecord
    BY <1>1, <1>2 DEF MapsCapped, MapTypes, LedgerTypeOK
<1>4. CASE Shrinks
    <2>1. MapsCapped' /\ MapTypes'
        BY <1>4, MapsShrink
    <2> QED BY <1>2, <2>1 DEF MapsCapped, MapTypes, LedgerTypeOK
<1>5. ASSUME NEW token \in Tokens, NEW op \in Operations, NEW changes \in Changes,
             PreviewOperation(token, op, changes)
      PROVE  /\ Capped(previews') /\ previews' \subseteq PreviewRecord
             /\ Capped(applied') /\ applied' \subseteq applied
             /\ Capped(rollbacks') /\ rollbacks' \subseteq rollbacks
             /\ Capped(idempotency') /\ idempotency' \subseteq idempotency
             /\ Capped(pending') /\ pending' \subseteq PreviewRecord
    <2>1. CreatePreview(token, op, changes, doc, revision)
        BY <1>5 DEF PreviewOperation
    <2>2. Capped(previews') /\ previews' \subseteq PreviewRecord /\ \E p \in previews' : p.token = token
        BY <2>1, PreviewPut
    <2>3. applied' \subseteq applied /\ rollbacks' \subseteq rollbacks /\ idempotency' \subseteq idempotency
        BY <2>1, LiveIsPart DEF CreatePreview
    <2>4. Capped(applied') /\ Capped(rollbacks') /\ Capped(idempotency')
        BY <1>1, <2>3, PartCaps DEF MapsCapped
    <2>5. Capped(pending') /\ pending' \subseteq PreviewRecord
        <3>1. CASE failed
            BY <1>1, <1>5, <3>1 DEF PreviewOperation, MapsCapped
        <3>2. CASE ~failed
            <4>1. PICK p : p = CHOOSE q \in previews' : q.token = token
                OBVIOUS
            <4>2. p \in PreviewRecord
                BY <2>2, <4>1
            <4>3. RememberPreview(p)
                BY <1>5, <3>2, <4>1 DEF PreviewOperation
            <4> QED BY <4>2, <4>3, PendingPut
        <3> QED BY <3>1, <3>2
    <2> QED BY <2>2, <2>3, <2>4, <2>5
<1>6. CASE ApplyPreview
    <2>1. PICK p \in Peek(Token) : RecordApply(p) /\ UNCHANGED pending
        BY <1>6 DEF ApplyPreview, Mutate
    <2>2. p \in previews
        BY <2>1, PeekIsPart
    <2>3. previews' \subseteq previews /\ idempotency' \subseteq idempotency
        BY <2>1, LiveIsPart DEF RecordApply, PreviewsWithout
    <2>4. Capped(previews') /\ Capped(idempotency')
        BY <1>1, <2>3, PartCaps DEF MapsCapped
    <2>5. /\ Capped(applied') /\ applied' \subseteq ApplyRecord
          /\ Capped(rollbacks') /\ rollbacks' \subseteq RollbackRecord
        BY <2>1, <2>2, ApplyPut
    <2> QED BY <1>1, <2>1, <2>3, <2>4, <2>5 DEF MapsCapped
<1>7. CASE FinishApply \/ FinishRollback
    <2>1. lane # <<>>
        BY <1>7, SomeoneAtWork DEF FinishApply, FinishRollback, Finishing
    <2>2. /\ previews' \subseteq previews /\ applied' \subseteq applied
          /\ rollbacks' \subseteq rollbacks /\ UNCHANGED pending
          /\ Capped(idempotency') /\ idempotency' \subseteq IdempotencyRecord
        BY <1>7, <2>1, FinishMaps
    <2>3. Capped(previews') /\ Capped(applied') /\ Capped(rollbacks')
        BY <1>1, <2>2, PartCaps DEF MapsCapped
    <2> QED BY <1>1, <2>2, <2>3 DEF MapsCapped
<1> QED BY <1>1, <1>4, <1>5, <1>6, <1>7, MapSteps DEF Takes
-----------------------------------------------------------------------------
(* How far a change comes in each step. *)

LEMMA OfferMoves ==
    ASSUME FlowInv, NEW token \in Tokens, NEW op \in Operations, NEW changes \in Changes,
           PreviewOperation(token, op, changes)
    PROVE  History!Move(token, "none", "offered")
BY DEF PreviewOperation, Move, History!Move

LEMMA ApproveMoves ==
    ASSUME FlowInv, NEW token \in Tokens, NEW key, Approve(token, key)
    PROVE  History!Move(token, "offered", "accepted") /\ UNCHANGED offers
<1>1. PICK p \in Shown(token) : TRUE
    BY DEF Approve
<1>2. p \in pending /\ p.token = token
    BY <1>1 DEF Shown, Of, Unexpired
<1>3. stage[token] = "offered"
    BY <1>2 DEF FlowInv, RecordStages
<1> QED BY <1>3 DEF Approve, GateOnly, Move, History!Move

LEMMA ApplyMoves ==
    ASSUME FlowInv, ApplyPreview
    PROVE  /\ lane # <<>> /\ running = "queued" /\ lane[1].kind = "apply" /\ Token \in Tokens
           /\ History!Move(Token, "accepted", "changing") /\ UNCHANGED offers
<1>1. lane # <<>> /\ running = "queued" /\ lane[1].kind = "apply"
    BY HeadOfLane DEF ApplyPreview, Running
<1>2. stage[Token] = "accepted"
    BY <1>1, HeadOfLane DEF FlowInv, LaneStages, AtWork
<1> QED BY <1>1, <1>2, HeadOfLane DEF ApplyPreview, Mutate, Move, History!Move

LEMMA RollbackMoves ==
    ASSUME FlowInv, Rollback
    PROVE  /\ lane # <<>> /\ running = "queued" /\ lane[1].kind = "rollback" /\ Token \in Tokens
           /\ History!Move(Token, "changed", "reverting") /\ UNCHANGED offers
<1>1. lane # <<>> /\ running = "queued" /\ lane[1].kind = "rollback" /\ Token \in Tokens
    BY HeadOfLane DEF Rollback, Running
<1>2. stage[Token] = "changed"
    BY <1>1, RollbackOfChanged DEF Rollback
<1> QED BY <1>1, <1>2 DEF Rollback, Mutate, Move, History!Move

LEMMA AtWorkStage ==
    ASSUME FlowInv, running = "audit"
    PROVE  /\ lane # <<>> /\ Head(lane) = lane[1] /\ Token \in Tokens
           /\ stage[Token] = IF lane[1].kind = "apply" THEN "changing" ELSE "reverting"
<1>1. lane # <<>>
    BY SomeoneAtWork
<1>2. stage[lane[1].token] = IF lane[1].kind = "apply" THEN "changing" ELSE "reverting"
    BY <1>1, HeadOfLane DEF FlowInv, LaneStages, AtWork
<1> QED BY <1>1, <1>2, HeadOfLane

LEMMA FinishMoves ==
    ASSUME FlowInv, FinishApply \/ FailApply \/ FinishRollback \/ FailRollback
    PROVE  /\ running = "audit" /\ lane # <<>> /\ Token \in Tokens /\ UNCHANGED offers
           /\ FinishApply => lane[1].kind = "apply" /\ History!Move(Token, "changing", "changed")
           /\ FailApply => lane[1].kind = "apply" /\ History!Move(Token, "changing", "failed")
           /\ FinishRollback => lane[1].kind = "rollback" /\ History!Move(Token, "reverting", "reverted")
           /\ FailRollback => lane[1].kind = "rollback" /\ History!Move(Token, "reverting", "changed")
<1>1. running = "audit" /\ UNCHANGED offers
    BY DEF FinishApply, FailApply, FinishRollback, FailRollback, Finishing, Finish
<1>2. FinishApply => lane[1].kind = "apply" /\ History!Move(Token, "changing", "changed")
    BY <1>1, AtWorkStage DEF FinishApply, Finishing, Move, History!Move
<1>3. FailApply => lane[1].kind = "apply" /\ History!Move(Token, "changing", "failed")
    BY <1>1, AtWorkStage DEF FailApply, Finishing, Move, History!Move
<1>4. FinishRollback => lane[1].kind = "rollback" /\ History!Move(Token, "reverting", "reverted")
    BY <1>1, AtWorkStage DEF FinishRollback, Finishing, Move, History!Move
<1>5. FailRollback => lane[1].kind = "rollback" /\ History!Move(Token, "reverting", "changed")
    BY <1>1, AtWorkStage DEF FailRollback, Finishing, Move, History!Move
<1> QED BY <1>1, <1>2, <1>3, <1>4, <1>5, AtWorkStage

\* The steps in which a change comes further; the others leave the document alone as well.
Moving ==
    \/ \E token \in Tokens, op \in Operations, changes \in Changes : PreviewOperation(token, op, changes)
    \/ \E token \in Tokens, key \in Keys \cup {NoKey} : Approve(token, key)
    \/ ApplyPreview \/ FinishApply \/ FailApply
    \/ Rollback \/ FinishRollback \/ FailRollback

LEMMA StillSteps ==
    ASSUME [Next]_vars, ~Moving
    PROVE  UNCHANGED <<doc, revision, running, receipt, offers, stage>>
<1>1. ASSUME NEW caller \in Verifiers, NEW token \in Tokens, BeginVerify(caller, token)
      PROVE  UNCHANGED <<doc, revision, running, receipt, offers, stage>>
    BY <1>1 DEF BeginVerify
<1>2. ASSUME NEW token \in Tokens, NothingToApprove(token) \/ AskOperator(token) \/ RefuseApproval(token)
      PROVE  UNCHANGED <<doc, revision, running, receipt, offers, stage>>
    BY <1>2 DEF NothingToApprove, AskOperator, RefuseApproval, GateOnly
<1>3. ASSUME NEW token \in Tokens, NEW key \in Keys \cup {NoKey}, RequestRollback(token, key)
      PROVE  UNCHANGED <<doc, revision, running, receipt, offers, stage>>
    BY <1>3 DEF RequestRollback, GateOnly
<1>4. CASE RefuseApply \/ RefuseRollback
    BY <1>4 DEF RefuseApply, RefuseRollback, Refused
<1>5. ASSUME NEW v \in verify, EndVerify(v)
      PROVE  UNCHANGED <<doc, revision, running, receipt, offers, stage>>
    BY <1>5 DEF EndVerify
<1>6. CASE AuditWrite \/ Tick \/ UNCHANGED vars
    BY <1>6 DEF AuditWrite, Tick, vars, flowVars
<1> QED BY <1>1, <1>2, <1>3, <1>4, <1>5, <1>6 DEF Next, ClientStep, LaneStep, Moving

LEMMA MoveFrom ==
    ASSUME stage \in [Tokens -> History!Stages], NEW t \in Tokens, NEW from \in History!Stages,
           NEW to \in History!Stages, History!Move(t, from, to)
    PROVE  /\ stage' \in [Tokens -> History!Stages] /\ stage[t] = from /\ stage'[t] = to
           /\ \A u \in Tokens : u # t => stage'[u] = stage[u]
BY DEF History!Move

\* Who moves, and from where to where.
LEMMA StageSteps ==
    ASSUME FlowInv, [Next]_vars
    PROVE  \/ UNCHANGED <<doc, revision, running, receipt, offers, stage>>
           \/ \E t \in Tokens : History!Move(t, "none", "offered")
           \/ UNCHANGED offers /\ \E t \in Tokens : History!Move(t, "offered", "accepted")
           \/ /\ UNCHANGED offers /\ Token \in Tokens
              /\ \/ running = "queued" /\ History!Move(Token, "accepted", "changing")
                 \/ running = "queued" /\ History!Move(Token, "changed", "reverting")
                 \/ running = "audit" /\ History!Move(Token, "changing", "changed")
                 \/ running = "audit" /\ History!Move(Token, "changing", "failed")
                 \/ running = "audit" /\ History!Move(Token, "reverting", "reverted")
                 \/ running = "audit" /\ History!Move(Token, "reverting", "changed")
<1>1. CASE ~Moving
    BY <1>1, StillSteps
<1>2. ASSUME NEW token \in Tokens, NEW op \in Operations, NEW changes \in Changes,
             PreviewOperation(token, op, changes)
      PROVE  History!Move(token, "none", "offered")
    BY <1>2, OfferMoves
<1>3. ASSUME NEW token \in Tokens, NEW key \in Keys \cup {NoKey}, Approve(token, key)
      PROVE  History!Move(token, "offered", "accepted") /\ UNCHANGED offers
    BY <1>3, ApproveMoves
<1>4. CASE ApplyPreview
    BY <1>4, ApplyMoves
<1>5. CASE Rollback
    BY <1>5, RollbackMoves
<1>6. CASE FinishApply \/ FailApply \/ FinishRollback \/ FailRollback
    BY <1>6, FinishMoves
<1> QED BY <1>1, <1>2, <1>3, <1>4, <1>5, <1>6 DEF Moving

LEMMA StageStep ==
    ASSUME FlowInv, [Next]_vars
    PROVE  /\ stage' \in [Tokens -> History!Stages]
           /\ \A t \in Tokens : stage[t] # "none" => stage'[t] # "none"
           /\ \A t \in Tokens : stage[t] \in {"changing", "changed", "reverting", "reverted"} =>
                  \/ stage'[t] \in {"changing", "changed", "reverting", "reverted"}
                  \/ (FailApply /\ t = Token)
<1>1. stage \in [Tokens -> History!Stages]
    BY DEF FlowInv, FlowTypes
<1>2. {"none", "offered", "accepted", "changing", "failed", "changed", "reverting", "reverted"}
          \subseteq History!Stages
    BY DEF History!Stages
<1>3. /\ stage' \in [Tokens -> History!Stages]
      /\ \A t \in Tokens : stage[t] # "none" => stage'[t] # "none"
    BY <1>1, <1>2, StageSteps, MoveFrom
<1>4. ASSUME NEW t \in Tokens, stage[t] \in {"changing", "changed", "reverting", "reverted"},
             stage'[t] \notin {"changing", "changed", "reverting", "reverted"}
      PROVE  FailApply /\ t = Token
    <2>1. ASSUME NEW token \in Tokens, NEW op \in Operations, NEW changes \in Changes,
                 PreviewOperation(token, op, changes)
          PROVE  FALSE
        BY <1>1, <1>2, <1>4, <2>1, OfferMoves, MoveFrom
    <2>2. ASSUME NEW token \in Tokens, NEW key \in Keys \cup {NoKey}, Approve(token, key)
          PROVE  FALSE
        BY <1>1, <1>2, <1>4, <2>2, ApproveMoves, MoveFrom
    <2>3. ~ApplyPreview /\ ~Rollback
        BY <1>1, <1>2, <1>4, ApplyMoves, RollbackMoves, MoveFrom
    <2>4. ~FinishApply /\ ~FinishRollback /\ ~FailRollback
        BY <1>1, <1>2, <1>4, FinishMoves, MoveFrom
    <2>5. Moving
        BY <1>4, StillSteps
    <2>6. FailApply
        BY <2>1, <2>2, <2>3, <2>4, <2>5 DEF Moving
    <2> QED BY <1>1, <1>2, <1>4, <2>6, FinishMoves, MoveFrom
<1> QED BY <1>3, <1>4
-----------------------------------------------------------------------------
(* Offers, and what the ledger holds of them. *)

Offering(token, op, changes) ==
    /\ token \in Tokens /\ op \in Operations /\ changes \in Changes
    /\ PreviewOperation(token, op, changes)

LEMMA OffersStay ==
    ASSUME FlowInv, [Next]_vars, ~ \E token, op, changes : Offering(token, op, changes)
    PROVE  UNCHANGED offers
<1>1. CASE ~Moving
    BY <1>1, StillSteps
<1>2. ASSUME NEW token \in Tokens, NEW key \in Keys \cup {NoKey}, Approve(token, key)
      PROVE  UNCHANGED offers
    BY <1>2, ApproveMoves
<1>3. CASE ApplyPreview \/ Rollback
    BY <1>3, ApplyMoves, RollbackMoves
<1>4. CASE FinishApply \/ FailApply \/ FinishRollback \/ FailRollback
    BY <1>4, FinishMoves
<1> QED BY <1>1, <1>2, <1>3, <1>4 DEF Moving, Offering

LEMMA OffersStep ==
    ASSUME FlowInv, [Next]_vars
    PROVE  OffersKnown'
<1>1. /\ stage' \in [Tokens -> History!Stages]
      /\ \A t \in Tokens : stage[t] # "none" => stage'[t] # "none"
    BY StageStep
<1>2. /\ offers \subseteq History!Offers
      /\ \A o, p \in offers : o.token = p.token => o = p
      /\ \A o \in offers : o.token \in Tokens /\ stage[o.token] # "none"
    BY DEF FlowInv, OffersKnown, History!Offers
<1>3. CASE UNCHANGED offers
    BY <1>1, <1>2, <1>3 DEF OffersKnown
<1>4. ASSUME NEW token, NEW op, NEW changes, Offering(token, op, changes)
      PROVE  OffersKnown'
    <2>1. History!Move(token, "none", "offered") /\ token \in Tokens
        BY <1>4, OfferMoves DEF Offering
    <2>2. PICK new : new = [token |-> token, op |-> op, changes |-> changes, on |-> doc]
        OBVIOUS
    <2>3. offers' = offers \cup {new}
        BY <1>4, <2>2 DEF Offering, PreviewOperation
    <2>4. new \in History!Offers /\ new.token = token
        <3>1. token \in Tokens /\ op \in Operations /\ changes \in Changes /\ doc \in Documents
            BY <1>4 DEF Offering, FlowInv, FlowTypes
        <3>2. Documents = History!Documents /\ Changes = History!Changes
            BY DEF Documents, Changes, History!Documents, History!Changes
        <3> QED BY <2>2, <3>1, <3>2 DEF History!Offers
    <2>5. stage[token] = "none" /\ stage'[token] # "none"
        BY <2>1, MoveFrom DEF FlowInv, FlowTypes, History!Stages
    <2>6. \A o, p \in offers' : o.token = p.token => o = p
        BY <1>2, <2>3, <2>4, <2>5
    <2>7. \A o \in offers' : stage'[o.token] # "none"
        BY <1>1, <1>2, <2>3, <2>4, <2>5
    <2> QED BY <1>2, <2>3, <2>4, <2>6, <2>7 DEF OffersKnown
<1> QED BY <1>3, <1>4, OffersStay

OfferedPreview(p) ==
    \E o \in offers : /\ o.token = p.token /\ o.op = p.op /\ o.changes = p.changes
                      /\ o.on = p.documentRevision /\ o.on[o.op] = p.fingerprint
OfferedReceipt(r) ==
    \E o \in offers : /\ o.token = r.token /\ o.op = r.op /\ o.changes = r.restoredSource
                      /\ r.restored = Before(o.on, o.op, o.changes)

LEMMA RecordsOfferedIs ==
    RecordsOffered <=> /\ \A p \in previews : OfferedPreview(p)
                       /\ \A r \in rollbacks : OfferedReceipt(r)
BY DEF RecordsOffered, OfferedPreview, OfferedReceipt

LEMMA OffersGrow ==
    ASSUME FlowInv, [Next]_vars
    PROVE  offers \subseteq offers'
<1>1. ASSUME NEW token, NEW op, NEW changes, Offering(token, op, changes)
      PROVE  offers \subseteq offers'
    BY <1>1 DEF Offering, PreviewOperation
<1> QED BY <1>1, OffersStay

LEMMA RecordsStep ==
    ASSUME FlowInv, [Next]_vars
    PROVE  RecordsOffered'
<1> SUFFICES /\ \A p \in previews' : OfferedPreview(p)'
             /\ \A r \in rollbacks' : OfferedReceipt(r)'
    BY DEF RecordsOffered, OfferedPreview, OfferedReceipt
<1>1. /\ \A p \in previews : OfferedPreview(p)'
      /\ \A r \in rollbacks : OfferedReceipt(r)'
    BY OffersGrow, RecordsOfferedIs DEF FlowInv, OfferedPreview, OfferedReceipt
<1>2. ASSUME NEW token, NEW op, NEW changes, Offering(token, op, changes)
      PROVE  /\ \A p \in previews' : OfferedPreview(p)'
             /\ \A r \in rollbacks' : OfferedReceipt(r)'
    <2>1. CreatePreview(token, op, changes, doc, revision)
        BY <1>2 DEF Offering, PreviewOperation
    <2>2. PICK new : new = [token |-> token, op |-> op, changes |-> changes, on |-> doc]
        OBVIOUS
    <2>3. new \in offers'
        BY <1>2, <2>2 DEF Offering, PreviewOperation
    <2>4. \A p \in previews' : p \in previews \/
              /\ p.token = token /\ p.op = op /\ p.changes = changes
              /\ p.documentRevision = doc /\ p.fingerprint = doc[op]
        BY <1>2, <2>1, PreviewPut DEF Offering
    <2>5. rollbacks' \subseteq rollbacks
        BY <2>1, LiveIsPart DEF CreatePreview
    <2>6. \A p \in previews' : OfferedPreview(p)'
        BY <1>1, <2>2, <2>3, <2>4 DEF OfferedPreview
    <2> QED BY <1>1, <2>5, <2>6
<1>3. CASE ApplyPreview
    <2>1. PICK p \in Peek(Token) : RecordApply(p)
        BY <1>3 DEF ApplyPreview
    <2>2. p \in previews
        BY <2>1, PeekIsPart
    <2>3. PICK o \in offers : /\ o.token = p.token /\ o.op = p.op /\ o.changes = p.changes
                              /\ o.on = p.documentRevision /\ o.on[o.op] = p.fingerprint
        BY <2>2 DEF FlowInv, RecordsOffered
    <2>4. \A r \in rollbacks' : r \in rollbacks \/
              /\ r.token = p.token /\ r.op = p.op /\ r.restoredSource = p.changes
              /\ r.restored = [f \in DOMAIN p.changes |-> p.fingerprint[f]]
        BY <2>1, <2>2, ApplyPut
    <2>5. Before(o.on, o.op, o.changes) = [f \in DOMAIN p.changes |-> p.fingerprint[f]]
        BY <2>3 DEF Before
    <2>6. o \in offers'
        BY <2>3, OffersGrow
    <2>7. \A r \in rollbacks' : OfferedReceipt(r)'
        BY <1>1, <2>3, <2>4, <2>5, <2>6 DEF OfferedReceipt
    <2>8. previews' \subseteq previews
        BY <2>1, LiveIsPart DEF RecordApply, PreviewsWithout
    <2> QED BY <1>1, <2>7, <2>8
<1>4. CASE FinishApply \/ FinishRollback
    <2>1. lane # <<>>
        BY <1>4, FinishMoves
    <2> QED BY <1>1, <1>4, <2>1, FinishMaps
<1>5. CASE Shrinks
    BY <1>1, <1>5 DEF Shrinks
<1> QED BY <1>2, <1>3, <1>4, <1>5, MapSteps DEF Takes, Offering
-----------------------------------------------------------------------------
(* How far the changes have come of which the maps hold something. *)

LEMMA PendingOffered ==
    ASSUME FlowInv, [Next]_vars
    PROVE  \A p \in pending' : stage'[p.token] = "offered"
<1>1. /\ stage \in [Tokens -> History!Stages] /\ pending \subseteq PreviewRecord
      /\ \A p \in pending : p.token \in Tokens /\ stage[p.token] = "offered"
    BY DEF FlowInv, FlowTypes, RecordStages, PreviewRecord
<1>2. {"none", "offered", "accepted", "changing", "failed", "changed", "reverting", "reverted"}
          \subseteq History!Stages
    BY DEF History!Stages
<1>3. ASSUME NEW token, NEW op, NEW changes, Offering(token, op, changes)
      PROVE  \A p \in pending' : stage'[p.token] = "offered"
    <2>1. History!Move(token, "none", "offered") /\ token \in Tokens
        BY <1>3, OfferMoves DEF Offering
    <2>2. \A q \in pending' : q \in pending \/ q.token = token
        <3>1. CASE failed
            BY <1>3, <3>1 DEF Offering, PreviewOperation
        <3>2. CASE ~failed
            <4>1. previews' \subseteq PreviewRecord /\ \E p \in previews' : p.token = token
                BY <1>3, PreviewPut DEF Offering, PreviewOperation
            <4>2. PICK p : p = CHOOSE q \in previews' : q.token = token
                OBVIOUS
            <4>3. p \in PreviewRecord /\ p.token = token
                BY <4>1, <4>2
            <4>4. RememberPreview(p)
                BY <1>3, <3>2, <4>2 DEF Offering, PreviewOperation
            <4> QED BY <4>3, <4>4, PendingPut
        <3> QED BY <3>1, <3>2
    <2>3. stage'[token] = "offered" /\ \A t \in Tokens : t # token => stage'[t] = stage[t]
        BY <1>1, <1>2, <2>1, MoveFrom
    <2> QED BY <1>1, <2>2, <2>3
<1>4. ASSUME NEW token \in Tokens, NEW key \in Keys \cup {NoKey}, Approve(token, key)
      PROVE  \A p \in pending' : stage'[p.token] = "offered"
    <2>1. History!Move(token, "offered", "accepted")
        BY <1>4, ApproveMoves
    <2>2. \A q \in pending' : q \in pending /\ q.token # token
        BY <1>4 DEF Approve, Forget, Of
    <2> QED BY <1>1, <1>2, <2>1, <2>2, MoveFrom
<1>5. ASSUME pending' \subseteq pending,
             UNCHANGED stage \/ \E t \in Tokens, from, to \in History!Stages :
                                    from # "offered" /\ History!Move(t, from, to)
      PROVE  \A p \in pending' : stage'[p.token] = "offered"
    <2>1. CASE UNCHANGED stage
        BY <1>1, <1>5, <2>1
    <2>2. ASSUME NEW t \in Tokens, NEW from \in History!Stages, NEW to \in History!Stages,
                 from # "offered", History!Move(t, from, to)
          PROVE  \A p \in pending' : stage'[p.token] = "offered"
        BY <1>1, <1>5, <2>2, MoveFrom
    <2> QED BY <1>5, <2>1, <2>2
<1>6. CASE ~Moving
    <2>1. Shrinks /\ UNCHANGED stage
        BY <1>6, StillSteps, MapSteps DEF Takes, Moving
    <2> QED BY <1>5, <2>1 DEF Shrinks
<1>7. CASE ApplyPreview \/ Rollback
    <2>1. UNCHANGED pending
        BY <1>7 DEF ApplyPreview, Rollback, Mutate
    <2> QED BY <1>2, <1>5, <1>7, <2>1, ApplyMoves, RollbackMoves
<1>8. CASE FinishApply \/ FailApply \/ FinishRollback \/ FailRollback
    <2>1. UNCHANGED pending
        BY <1>8 DEF FinishApply, FailApply, FinishRollback, FailRollback, Finish
    <2> QED BY <1>2, <1>5, <1>8, <2>1, FinishMoves
<1> QED BY <1>3, <1>4, <1>6, <1>7, <1>8 DEF Moving, Offering

LEMMA AppliedStage ==
    ASSUME FlowInv, [Next]_vars
    PROVE  \A r \in applied' : stage'[r.token] \in {"changing", "changed", "reverting", "reverted"}
<1>1. /\ stage \in [Tokens -> History!Stages]
      /\ \A r \in applied : r.token \in Tokens /\
             stage[r.token] \in {"changing", "changed", "reverting", "reverted"}
    BY DEF FlowInv, FlowTypes, LedgerTypeOK, RecordStages, ApplyRecord
<1>2. CASE ApplyPreview
    <2>1. PICK p \in Peek(Token) : RecordApply(p)
        BY <1>2 DEF ApplyPreview
    <2>2. \A r \in applied' : r \in applied \/ r.token = Token
        BY <2>1, PeekIsPart, ApplyPut
    <2>3. stage'[Token] = "changing" /\ ~FailApply
        BY <1>1, <1>2, ApplyMoves, FinishMoves, MoveFrom DEF History!Stages
    <2> QED BY <1>1, <2>2, <2>3, StageStep
<1>3. CASE FailApply
    <2>1. \A r \in applied' : r \in applied /\ r.token # Token
        BY <1>3 DEF FailApply, DiscardApplied, Of
    <2> QED BY <1>1, <2>1, StageStep
<1>4. CASE ~ApplyPreview /\ ~FailApply
    <2>1. applied' \subseteq applied
        <3>1. CASE Shrinks
            BY <3>1 DEF Shrinks
        <3>2. ASSUME NEW token, NEW op, NEW changes, PreviewOperation(token, op, changes)
              PROVE  applied' \subseteq applied
            BY <3>2, LiveIsPart DEF PreviewOperation, CreatePreview
        <3>3. CASE FinishApply \/ FinishRollback
            BY <3>3, FinishMoves, FinishMaps
        <3> QED BY <1>4, <3>1, <3>2, <3>3, MapSteps DEF Takes
    <2> QED BY <1>1, <1>4, <2>1, StageStep
<1> QED BY <1>2, <1>3, <1>4

\* A receipt that is left belongs to a change that is not undone for good.
LEMMA ReceiptStage ==
    ASSUME FlowInv, [Next]_vars
    PROVE  \A r \in rollbacks' : stage'[r.token] \in {"changing", "changed", "reverting"}
<1>1. /\ stage \in [Tokens -> History!Stages]
      /\ \A r \in rollbacks : r.token \in Tokens /\ stage[r.token] \in {"changing", "changed", "reverting"}
    BY DEF FlowInv, FlowTypes, LedgerTypeOK, RecordStages, RollbackRecord
<1>2. {"none", "offered", "accepted", "changing", "failed", "changed", "reverting", "reverted"}
          \subseteq History!Stages
    BY DEF History!Stages
<1>3. CASE ApplyPreview
    <2>1. PICK p \in Peek(Token) : RecordApply(p)
        BY <1>3 DEF ApplyPreview
    <2>2. \A r \in rollbacks' : r \in rollbacks \/ r.token = Token
        BY <2>1, PeekIsPart, ApplyPut
    <2> QED BY <1>1, <1>2, <1>3, <2>2, ApplyMoves, MoveFrom
<1>4. CASE FailApply
    <2>1. \A r \in rollbacks' : r \in rollbacks /\ r.token # Token
        BY <1>4 DEF FailApply, DiscardApplied, Of
    <2> QED BY <1>1, <1>2, <1>4, <2>1, FinishMoves, MoveFrom
<1>5. CASE FinishRollback
    <2>1. \A r \in rollbacks' : r \in rollbacks /\ r.token # Token
        <3>1. CASE Of(rollbacks, Token) = {}
            BY <1>5, <3>1 DEF FinishRollback, ledger, Of
        <3>2. CASE Of(rollbacks, Token) # {}
            BY <1>5, <3>2, LiveIsPart DEF FinishRollback, Of
        <3> QED BY <3>1, <3>2
    <2> QED BY <1>1, <1>2, <1>5, <2>1, FinishMoves, MoveFrom
<1>6. CASE FinishApply
    <2>1. rollbacks' \subseteq rollbacks
        BY <1>6, FinishMoves, FinishMaps
    <2> QED BY <1>1, <1>2, <1>6, <2>1, FinishMoves, MoveFrom
<1>7. CASE FailRollback \/ Rollback
    <2>1. rollbacks' \subseteq rollbacks
        BY <1>7, LiveIsPart DEF FailRollback, ledger, Rollback, Evict
    <2> QED BY <1>1, <1>2, <1>7, <2>1, FinishMoves, RollbackMoves, MoveFrom
<1>8. ASSUME NEW token, NEW op, NEW changes, Offering(token, op, changes)
      PROVE  \A r \in rollbacks' : stage'[r.token] \in {"changing", "changed", "reverting"}
    <2>1. rollbacks' \subseteq rollbacks
        BY <1>8, LiveIsPart DEF Offering, PreviewOperation, CreatePreview
    <2>2. History!Move(token, "none", "offered") /\ token \in Tokens
        BY <1>8, OfferMoves DEF Offering
    <2> QED BY <1>1, <1>2, <2>1, <2>2, MoveFrom
<1>9. ASSUME NEW token \in Tokens, NEW key \in Keys \cup {NoKey}, Approve(token, key)
      PROVE  \A r \in rollbacks' : stage'[r.token] \in {"changing", "changed", "reverting"}
    <2>1. UNCHANGED rollbacks
        BY <1>9 DEF Approve, GateOnly, ledger
    <2> QED BY <1>1, <1>2, <1>9, <2>1, ApproveMoves, MoveFrom
<1>10. CASE ~Moving
    <2>1. Shrinks /\ UNCHANGED stage
        BY <1>10, StillSteps, MapSteps DEF Takes, Moving
    <2> QED BY <1>1, <2>1 DEF Shrinks
<1> QED BY <1>3, <1>4, <1>5, <1>6, <1>7, <1>8, <1>9, <1>10 DEF Moving, Offering

LEMMA RecordStagesStep ==
    ASSUME FlowInv, [Next]_vars
    PROVE  RecordStages'
BY PendingOffered, AppliedStage, ReceiptStage DEF RecordStages
-----------------------------------------------------------------------------
(* The lane. *)

LEMMA ScheduleAppends ==
    ASSUME FlowInv, NEW mutation \in Mutations, Schedule(mutation)
    PROVE  /\ lane' \in Seq(Mutations) /\ Len(lane') <= MaxQueueDepth + 1
           /\ \/ lane' = lane
              \/ /\ DOMAIN lane' = DOMAIN lane \cup {Len(lane) + 1} /\ Len(lane) \in Nat
                 /\ lane'[Len(lane) + 1] = mutation
                 /\ \A n \in DOMAIN lane : n \in Nat /\ n <= Len(lane) /\ lane'[n] = lane[n]
<1>1. lane \in Seq(Mutations) /\ Len(lane) \in Nat /\ Len(lane) <= MaxQueueDepth + 1
    BY DEF FlowInv, FlowTypes
<1>2. CASE lane' = lane
    BY <1>1, <1>2
<1>3. CASE LaneTakes /\ lane' = Append(lane, mutation)
    <2>1. lane' \in Seq(Mutations) /\ Len(lane') = Len(lane) + 1
        BY <1>1, <1>3
    <2>2. Len(lane) <= MaxQueueDepth /\ MaxQueueDepth \in Nat
        BY <1>3, FlowAssumption DEF LaneTakes
    <2>3. DOMAIN lane' = DOMAIN lane \cup {Len(lane) + 1} /\ lane'[Len(lane) + 1] = mutation
        BY <1>1, <1>3
    <2>4. \A n \in DOMAIN lane : n \in Nat /\ n <= Len(lane) /\ lane'[n] = lane[n]
        BY <1>1, <1>3
    <2> QED BY <1>1, <2>1, <2>2, <2>3, <2>4
<1> QED BY <1>2, <1>3 DEF Schedule

LaneTypes == lane \in Seq(Mutations) /\ Len(lane) <= MaxQueueDepth + 1

\* The entry of the lane at position n, when the head is at work or not.
Placed(stages, entry, atWork) ==
    IF entry.kind = "apply"
    THEN stages[entry.token] = IF atWork THEN "changing" ELSE "accepted"
    ELSE stages[entry.token] \in IF atWork THEN {"reverting"} ELSE {"changed", "reverting", "reverted"}

LEMMA LanePlaced ==
    ASSUME FlowInv
    PROVE  /\ stage \in [Tokens -> History!Stages]
           /\ lane \in Seq(Mutations) /\ Len(lane) \in Nat /\ Len(lane) <= MaxQueueDepth + 1
           /\ \A n \in DOMAIN lane : /\ lane[n].token \in Tokens /\ lane[n].kind \in Actions
                                     /\ Placed(stage, lane[n], AtWork(n))
           /\ \A m, n \in DOMAIN lane :
                  lane[m].kind = "apply" /\ lane[n].kind = "apply" /\ lane[m].token = lane[n].token => m = n
           /\ running = "audit" => lane # <<>>
           /\ \A t \in Tokens : stage[t] \in {"changing", "reverting"} => running = "audit" /\ t = lane[1].token
<1>1. stage \in [Tokens -> History!Stages] /\ lane \in Seq(Mutations) /\ Len(lane) <= MaxQueueDepth + 1
    BY DEF FlowInv, FlowTypes
<1>2. \A n \in DOMAIN lane : lane[n].token \in Tokens /\ lane[n].kind \in Actions
    <2>1. \A n \in DOMAIN lane : lane[n] \in Mutations
        BY <1>1
    <2> QED BY <2>1 DEF Mutations
<1>3. \A n \in DOMAIN lane : Placed(stage, lane[n], AtWork(n))
    BY DEF FlowInv, LaneStages, Placed
<1> QED BY <1>1, <1>2, <1>3 DEF FlowInv, LaneStages

\* Nothing in the lane changes, and only tokens move that it does not hold.
LEMMA LaneWaits ==
    ASSUME FlowInv, UNCHANGED <<lane, running>>,
           UNCHANGED stage \/ \E t \in Tokens : History!Move(t, "none", "offered")
    PROVE  LaneStages' /\ LaneTypes'
<1>1. \A t \in Tokens : \/ stage'[t] = stage[t]
                        \/ stage[t] = "none" /\ stage'[t] = "offered"
    BY MoveFrom DEF FlowInv, FlowTypes, History!Stages
<1>2. \A n \in DOMAIN lane : stage'[lane[n].token] = stage[lane[n].token]
    BY <1>1, LanePlaced DEF Placed
<1>3. LaneTypes'
    BY LanePlaced DEF LaneTypes
<1> QED BY <1>1, <1>2, <1>3, LanePlaced DEF LaneStages, Placed, AtWork

LEMMA LaneGrows ==
    ASSUME FlowInv, NEW token \in Tokens, NEW key \in Keys \cup {NoKey},
           Approve(token, key) \/ RequestRollback(token, key)
    PROVE  LaneStages' /\ LaneTypes'
<1> DEFINE kind == IF Approve(token, key) THEN "apply" ELSE "rollback"
<1>1. PICK mutation : mutation = [kind |-> kind, token |-> token, key |-> key]
    OBVIOUS
<1>2. /\ mutation \in Mutations /\ Schedule(mutation) /\ UNCHANGED running
      /\ mutation.kind = kind /\ mutation.token = token
    BY <1>1 DEF Approve, RequestRollback, GateOnly, Mutations, Actions
<1>3. CASE Approve(token, key)
    <2>1. /\ stage[token] = "offered" /\ stage'[token] = "accepted"
          /\ \A t \in Tokens : t # token => stage'[t] = stage[t]
        BY <1>3, ApproveMoves, MoveFrom DEF FlowInv, FlowTypes, History!Stages
    <2>2. \A n \in DOMAIN lane : lane[n].token # token /\ stage'[lane[n].token] = stage[lane[n].token]
        BY <2>1, LanePlaced DEF Placed, AtWork
    <2>3. mutation.kind = "apply"
        BY <1>2, <1>3
    <2>4. CASE lane' = lane
        BY <1>2, <2>1, <2>2, <2>4, LanePlaced DEF LaneStages, LaneTypes, Placed, AtWork
    <2>5. CASE lane' # lane
        <3>1. /\ lane' \in Seq(Mutations) /\ Len(lane') <= MaxQueueDepth + 1 /\ Len(lane) \in Nat
              /\ DOMAIN lane' = DOMAIN lane \cup {Len(lane) + 1}
              /\ lane'[Len(lane) + 1] = mutation
              /\ \A n \in DOMAIN lane : n \in Nat /\ n <= Len(lane) /\ lane'[n] = lane[n]
            BY <1>2, <2>5, ScheduleAppends
        <3>2. /\ running = "audit" => Len(lane) + 1 # 1 /\ 1 \in DOMAIN lane
              /\ lane' # <<>>
            BY <3>1, LanePlaced
        <3>3. \A n \in DOMAIN lane' : Placed(stage', lane'[n], AtWork(n)')
            BY <1>2, <2>1, <2>2, <2>3, <3>1, <3>2, LanePlaced DEF Placed, AtWork
        <3>4. \A m, n \in DOMAIN lane' :
                  lane'[m].kind = "apply" /\ lane'[n].kind = "apply" /\ lane'[m].token = lane'[n].token => m = n
            BY <1>2, <2>2, <3>1, LanePlaced
        <3>5. \A t \in Tokens : stage'[t] \in {"changing", "reverting"} =>
                  running' = "audit" /\ t = lane'[1].token
            BY <1>2, <2>1, <3>1, <3>2, LanePlaced
        <3> QED BY <3>1, <3>2, <3>3, <3>4, <3>5 DEF LaneStages, LaneTypes, Placed
    <2> QED BY <2>4, <2>5
<1>4. CASE ~Approve(token, key)
    <2>1. stage[token] \in {"changed", "reverting", "reverted"} /\ UNCHANGED stage
        BY <1>4 DEF RequestRollback
    <2>2. mutation.kind = "rollback"
        BY <1>2, <1>4
    <2>3. CASE lane' = lane
        BY <1>2, <2>1, <2>3, LaneWaits
    <2>4. CASE lane' # lane
        <3>1. /\ lane' \in Seq(Mutations) /\ Len(lane') <= MaxQueueDepth + 1 /\ Len(lane) \in Nat
              /\ DOMAIN lane' = DOMAIN lane \cup {Len(lane) + 1}
              /\ lane'[Len(lane) + 1] = mutation
              /\ \A n \in DOMAIN lane : n \in Nat /\ n <= Len(lane) /\ lane'[n] = lane[n]
            BY <1>2, <2>4, ScheduleAppends
        <3>2. /\ running = "audit" => Len(lane) + 1 # 1 /\ 1 \in DOMAIN lane
              /\ lane' # <<>>
            BY <3>1, LanePlaced
        <3>3. \A n \in DOMAIN lane' : Placed(stage', lane'[n], AtWork(n)')
            BY <1>2, <2>1, <2>2, <3>1, <3>2, LanePlaced DEF Placed, AtWork
        <3>4. \A m, n \in DOMAIN lane' :
                  lane'[m].kind = "apply" /\ lane'[n].kind = "apply" /\ lane'[m].token = lane'[n].token => m = n
            BY <1>2, <2>2, <3>1, LanePlaced
        <3>5. \A t \in Tokens : stage'[t] \in {"changing", "reverting"} =>
                  running' = "audit" /\ t = lane'[1].token
            BY <1>2, <2>1, <3>1, <3>2, LanePlaced
        <3> QED BY <3>1, <3>2, <3>3, <3>4, <3>5 DEF LaneStages, LaneTypes, Placed
    <2> QED BY <2>3, <2>4
<1> QED BY <1>3, <1>4

\* The head gets to work.
LEMMA LaneStarts ==
    ASSUME FlowInv, ApplyPreview \/ Rollback
    PROVE  LaneStages' /\ LaneTypes'
<1>1. /\ lane # <<>> /\ running = "queued" /\ Token = lane[1].token /\ Token \in Tokens
      /\ 1 \in DOMAIN lane /\ running' = "audit" /\ UNCHANGED lane
    BY ApplyMoves, RollbackMoves, HeadOfLane DEF ApplyPreview, Rollback, Mutate
<1>2. \A t \in Tokens : t # Token => stage'[t] = stage[t] /\ stage[t] \notin {"changing", "reverting"}
    <2>1. \A t \in Tokens : t # Token => stage'[t] = stage[t]
        BY ApplyMoves, RollbackMoves, MoveFrom DEF FlowInv, FlowTypes, History!Stages
    <2> QED BY <1>1, <2>1, LanePlaced
<1>3. \A n \in DOMAIN lane : Placed(stage', lane[n], AtWork(n)')
    <2>1. CASE ApplyPreview
        <3>1. lane[1].kind = "apply" /\ stage[Token] = "accepted" /\ stage'[Token] = "changing"
            BY <2>1, ApplyMoves, MoveFrom DEF FlowInv, FlowTypes, History!Stages
        <3>2. \A n \in DOMAIN lane : n # 1 => lane[n].token # Token
            BY <1>1, <3>1, LanePlaced DEF Placed, AtWork, Actions
        <3> QED BY <1>1, <1>2, <3>1, <3>2, LanePlaced DEF Placed, AtWork
    <2>2. CASE Rollback
        <3>1. lane[1].kind = "rollback" /\ stage[Token] = "changed" /\ stage'[Token] = "reverting"
            BY <2>2, RollbackMoves, MoveFrom DEF FlowInv, FlowTypes, History!Stages
        <3>2. \A n \in DOMAIN lane : lane[n].token = Token => lane[n].kind # "apply"
            BY <1>1, <3>1, LanePlaced DEF Placed, AtWork
        <3> QED BY <1>1, <1>2, <3>1, <3>2, LanePlaced DEF Placed, AtWork
    <2> QED BY <2>1, <2>2
<1>4. \A t \in Tokens : stage'[t] \in {"changing", "reverting"} =>
          running' = "audit" /\ t = lane'[1].token
    BY <1>1, <1>2
<1> QED BY <1>1, <1>3, <1>4, LanePlaced DEF LaneStages, LaneTypes, Placed

\* The head leaves.
LEMMA LaneShortens ==
    ASSUME FlowInv, lane # <<>>, lane' = Tail(lane), running' = "queued",
           \A n \in DOMAIN lane : n # 1 => Placed(stage', lane[n], FALSE),
           \A t \in Tokens : stage'[t] \notin {"changing", "reverting"}
    PROVE  LaneStages' /\ LaneTypes'
<1>1. /\ lane' \in Seq(Mutations) /\ Len(lane') = Len(lane) - 1
      /\ \A n \in DOMAIN lane' : n \in Nat /\ n # 0 /\ n + 1 \in DOMAIN lane /\ lane'[n] = lane[n + 1]
    <2>1. lane' \in Seq(Mutations) /\ Len(lane') = Len(lane) - 1
        BY HeadOfLane
    <2>2. \A n \in DOMAIN lane' : n \in Nat /\ n # 0
        BY <2>1
    <2> QED BY <2>1, <2>2, HeadOfLane
<1>2. LaneTypes'
    <2>1. Len(lane') <= MaxQueueDepth + 1
        BY <1>1, LanePlaced, FlowAssumption
    <2> QED BY <1>1, <2>1 DEF LaneTypes
<1>3. \A n \in DOMAIN lane' : Placed(stage', lane'[n], FALSE) /\ ~AtWork(n)'
    <2>1. \A n : ~AtWork(n)'
        BY DEF AtWork
    <2>2. ASSUME NEW n \in DOMAIN lane' PROVE Placed(stage', lane'[n], FALSE)
        <3>1. n + 1 \in DOMAIN lane /\ n + 1 # 1 /\ lane'[n] = lane[n + 1]
            BY <1>1
        <3> QED BY <3>1
    <2> QED BY <2>1, <2>2
<1>4. \A m, n \in DOMAIN lane' :
          lane'[m].kind = "apply" /\ lane'[n].kind = "apply" /\ lane'[m].token = lane'[n].token => m = n
    <2>1. ASSUME NEW m \in DOMAIN lane', NEW n \in DOMAIN lane', lane'[m].kind = "apply",
                 lane'[n].kind = "apply", lane'[m].token = lane'[n].token
          PROVE  m = n
        <3>1. m + 1 = n + 1
            BY <1>1, <2>1, LanePlaced
        <3> QED BY <1>1, <3>1
    <2> QED BY <2>1
<1> QED BY <1>2, <1>3, <1>4 DEF LaneStages, Placed

LEMMA LaneRefuses ==
    ASSUME FlowInv, RefuseApply \/ RefuseRollback
    PROVE  LaneStages' /\ LaneTypes'
<1>1. /\ lane # <<>> /\ running = "queued" /\ lane' = Tail(lane)
      /\ running' = "queued" /\ UNCHANGED stage
    BY DEF RefuseApply, RefuseRollback, Running, Refused
<1>2. \A n \in DOMAIN lane : Placed(stage', lane[n], FALSE)
    BY <1>1, LanePlaced DEF Placed, AtWork
<1>3. \A t \in Tokens : stage'[t] \notin {"changing", "reverting"}
    BY <1>1, LanePlaced
<1> QED BY <1>1, <1>2, <1>3, LaneShortens

LEMMA LaneReturns ==
    ASSUME FlowInv, FinishApply \/ FailApply \/ FinishRollback \/ FailRollback
    PROVE  LaneStages' /\ LaneTypes'
<1>1. /\ lane # <<>> /\ running = "audit" /\ lane' = Tail(lane) /\ running' = "queued"
      /\ Token \in Tokens /\ Token = lane[1].token /\ 1 \in DOMAIN lane
    BY FinishMoves, HeadOfLane DEF FinishApply, FailApply, FinishRollback, FailRollback, Finish
<1>2. /\ \A t \in Tokens : t # Token => stage'[t] = stage[t] /\ stage[t] \notin {"changing", "reverting"}
      /\ \/ stage[Token] = "changing" /\ stage'[Token] \in {"changed", "failed"}
         \/ stage[Token] = "reverting" /\ stage'[Token] \in {"changed", "reverted"}
    <2>1. /\ \A t \in Tokens : t # Token => stage'[t] = stage[t]
          /\ \/ stage[Token] = "changing" /\ stage'[Token] \in {"changed", "failed"}
             \/ stage[Token] = "reverting" /\ stage'[Token] \in {"changed", "reverted"}
        BY <1>1, FinishMoves, MoveFrom DEF FlowInv, FlowTypes, History!Stages
    <2> QED BY <1>1, <2>1, LanePlaced
<1>3. ASSUME NEW n \in DOMAIN lane, n # 1 PROVE Placed(stage', lane[n], FALSE)
    <2>1. Placed(stage, lane[n], FALSE) /\ lane[n].token \in Tokens
        BY <1>3, LanePlaced DEF Placed, AtWork
    <2>2. CASE lane[n].token # Token
        BY <1>2, <2>1, <2>2 DEF Placed
    <2>3. CASE lane[n].token = Token
        BY <1>2, <2>1, <2>3 DEF Placed
    <2> QED BY <2>2, <2>3
<1>4. \A t \in Tokens : stage'[t] \notin {"changing", "reverting"}
    BY <1>2
<1> QED BY <1>1, <1>3, <1>4, LaneShortens

LEMMA LanesStep ==
    ASSUME FlowInv, [Next]_vars
    PROVE  LaneStages' /\ LaneTypes'
<1>1. ASSUME NEW token, NEW op, NEW changes, Offering(token, op, changes)
      PROVE  LaneStages' /\ LaneTypes'
    <2>1. UNCHANGED <<lane, running>> /\ History!Move(token, "none", "offered") /\ token \in Tokens
        BY <1>1, OfferMoves DEF Offering, PreviewOperation
    <2> QED BY <2>1, LaneWaits
<1>2. ASSUME NEW caller \in Verifiers, NEW token \in Tokens, BeginVerify(caller, token)
      PROVE  LaneStages' /\ LaneTypes'
    BY <1>2, LaneWaits DEF BeginVerify
<1>3. ASSUME NEW token \in Tokens, NothingToApprove(token) \/ AskOperator(token) \/ RefuseApproval(token)
      PROVE  LaneStages' /\ LaneTypes'
    BY <1>3, LaneWaits DEF NothingToApprove, AskOperator, RefuseApproval, GateOnly
<1>4. ASSUME NEW v \in verify, EndVerify(v) PROVE LaneStages' /\ LaneTypes'
    BY <1>4, LaneWaits DEF EndVerify
<1>5. CASE AuditWrite \/ Tick \/ UNCHANGED vars
    BY <1>5, LaneWaits DEF AuditWrite, Tick, vars, flowVars
<1> QED BY <1>1, <1>2, <1>3, <1>4, <1>5, LaneGrows, LaneStarts, LaneRefuses, LaneReturns
        DEF Next, ClientStep, LaneStep, Offering
-----------------------------------------------------------------------------
(* The document. *)

LEMMA OfferTypes ==
    ASSUME FlowInv, NEW o \in offers
    PROVE  o.token \in Tokens /\ o.op \in Operations /\ o.changes \in Changes /\ o.on \in Documents
<1>1. o \in History!Offers
    BY DEF FlowInv, OffersKnown
<1>2. Documents = History!Documents /\ Changes = History!Changes
    BY DEF Documents, Changes, History!Documents, History!Changes
<1> QED BY <1>1, <1>2 DEF History!Offers

\* An apply makes the change that was offered, on the document it was offered for.
LEMMA ApplyMakes ==
    ASSUME FlowInv, ApplyPreview
    PROVE  \E o \in offers, held \in receipt' :
               /\ o.token = Token /\ doc = o.on
               /\ doc' = With(o.on, o.op, o.changes) /\ revision' = doc'
               /\ receipt' = {held} /\ held.op = o.op /\ held.before = Before(o.on, o.op, o.changes)
<1>1. PICK p \in Peek(Token) :
          /\ ~Stale(p, doc, revision)
          /\ Mutate(With(doc, p.op, p.changes),
                    [op |-> p.op, before |-> Before(doc, p.op, p.changes), after |-> p.changes])
    BY DEF ApplyPreview
<1>2. p \in previews /\ p.token = Token
    BY <1>1, PeekIsPart
<1>3. PICK o \in offers : /\ o.token = p.token /\ o.op = p.op /\ o.changes = p.changes
                          /\ o.on = p.documentRevision /\ o.on[o.op] = p.fingerprint
    BY <1>2 DEF FlowInv, RecordsOffered
<1>4. doc = o.on
    BY <1>1, <1>3 DEF Stale, FlowInv, FlowTypes
<1>5. PICK held : held = [op |-> p.op, before |-> Before(doc, p.op, p.changes), after |-> p.changes]
    OBVIOUS
<1>6. receipt' = {held} /\ held.op = o.op /\ held.before = Before(o.on, o.op, o.changes)
    BY <1>1, <1>3, <1>4, <1>5 DEF Mutate
<1>7. doc' = With(o.on, o.op, o.changes) /\ revision' = doc'
    BY <1>1, <1>3, <1>4 DEF Mutate
<1> QED BY <1>2, <1>3, <1>4, <1>6, <1>7

\* A rollback undoes it while the operation still is what the change made of it.
LEMMA RollbackUndoes ==
    ASSUME FlowInv, Rollback
    PROVE  \E o \in offers, held \in receipt' :
               /\ o.token = Token /\ Holds(doc, o.op, o.changes)
               /\ doc' = With(doc, o.op, Before(o.on, o.op, o.changes)) /\ revision' = doc'
               /\ receipt' = {held} /\ held.op = o.op /\ held.before = o.changes
<1>1. PICK r \in PeekRollback(Token) :
          /\ Holds(doc, r.op, r.restoredSource)
          /\ Mutate(With(doc, r.op, r.restored),
                    [op |-> r.op, before |-> r.restoredSource, after |-> r.restored])
    BY DEF Rollback
<1>2. r \in rollbacks /\ r.token = Token
    BY <1>1, RollbackMoves, RollbackOfChanged
<1>3. PICK o \in offers : /\ o.token = r.token /\ o.op = r.op /\ o.changes = r.restoredSource
                          /\ r.restored = Before(o.on, o.op, o.changes)
    BY <1>2 DEF FlowInv, RecordsOffered
<1>4. PICK held : held = [op |-> r.op, before |-> r.restoredSource, after |-> r.restored]
    OBVIOUS
<1>5. receipt' = {held} /\ held.op = o.op /\ held.before = o.changes
    BY <1>1, <1>3, <1>4 DEF Mutate
<1>6. doc' = With(doc, o.op, Before(o.on, o.op, o.changes)) /\ revision' = doc'
    BY <1>1, <1>3 DEF Mutate
<1> QED BY <1>1, <1>2, <1>3, <1>5, <1>6

\* An apply that could not be audited gives back the document that was previewed.
LEMMA FailUndoes ==
    ASSUME FlowInv, FailApply
    PROVE  \E o \in offers :
               /\ o.token = Token /\ Holds(doc, o.op, o.changes)
               /\ doc' = With(doc, o.op, Before(o.on, o.op, o.changes)) /\ doc' = o.on
               /\ revision' = doc'
<1>1. lane[1].kind = "apply" /\ running = "audit" /\ Token = lane[1].token
    BY FinishMoves, HeadOfLane
<1>2. PICK o \in offers, held \in receipt :
          /\ receipt = {held} /\ o.token = Token /\ held.op = o.op
          /\ doc = With(o.on, o.op, o.changes) /\ held.before = Before(o.on, o.op, o.changes)
    BY <1>1 DEF FlowInv, ReceiptHeld
<1>3. doc' = With(doc, o.op, Before(o.on, o.op, o.changes)) /\ revision' = doc'
    BY <1>2 DEF FailApply, Compensate
<1>4. doc' = o.on
    BY <1>2, <1>3, OfferTypes, UndoGivesBack
<1>5. Holds(doc, o.op, o.changes)
    BY <1>2, OfferTypes, WithHolds
<1> QED BY <1>2, <1>3, <1>4, <1>5

\* A rollback that could not be audited makes the change again.
LEMMA FailRedoes ==
    ASSUME FlowInv, FailRollback
    PROVE  \E o \in offers :
               o.token = Token /\ doc' = With(doc, o.op, o.changes) /\ revision' = doc'
<1>1. lane[1].kind = "rollback" /\ running = "audit" /\ Token = lane[1].token
    BY FinishMoves, HeadOfLane
<1>2. PICK o \in offers, held \in receipt :
          receipt = {held} /\ o.token = Token /\ held.op = o.op /\ held.before = o.changes
    BY <1>1 DEF FlowInv, ReceiptHeld
<1>3. doc' = With(doc, o.op, o.changes) /\ revision' = doc'
    BY <1>2 DEF FailRollback, Compensate
<1> QED BY <1>2, <1>3

LEMMA DocStays ==
    ASSUME FlowInv, [Next]_vars, ~ApplyPreview, ~Rollback, ~FailApply, ~FailRollback
    PROVE  UNCHANGED <<doc, revision>>
<1>1. CASE ~Moving
    BY <1>1, StillSteps
<1>2. ASSUME NEW token, NEW op, NEW changes, Offering(token, op, changes)
      PROVE  UNCHANGED <<doc, revision>>
    BY <1>2 DEF Offering, PreviewOperation
<1>3. ASSUME NEW token, NEW key, Approve(token, key)
      PROVE  UNCHANGED <<doc, revision>>
    BY <1>3 DEF Approve, GateOnly
<1>4. CASE FinishApply \/ FinishRollback
    BY <1>4 DEF FinishApply, FinishRollback
<1> QED BY <1>1, <1>2, <1>3, <1>4 DEF Moving, Offering

LEMMA DocStep ==
    ASSUME FlowInv, [Next]_vars
    PROVE  doc' \in Documents /\ revision' = doc'
<1>1. doc \in Documents /\ revision = doc
    BY DEF FlowInv, FlowTypes
<1>2. CASE ApplyPreview
    BY <1>2, ApplyMakes, OfferTypes, WithType
<1>3. CASE Rollback
    <2>1. PICK o \in offers : doc' = With(doc, o.op, Before(o.on, o.op, o.changes)) /\ revision' = doc'
        BY <1>3, RollbackUndoes
    <2>2. PICK before \in Changes : before = Before(o.on, o.op, o.changes)
        BY OfferTypes, BeforeType
    <2> QED BY <1>1, <2>1, <2>2, OfferTypes, WithType
<1>4. CASE FailApply
    BY <1>4, FailUndoes, OfferTypes
<1>5. CASE FailRollback
    BY <1>1, <1>5, FailRedoes, OfferTypes, WithType
<1> QED BY <1>1, <1>2, <1>3, <1>4, <1>5, DocStays

\* The mutation at work stays at the head.
LEMMA HeadStays ==
    ASSUME FlowInv, [Next]_vars, running = "audit", running' = "audit"
    PROVE  /\ lane'[1] = lane[1] /\ UNCHANGED <<doc, receipt>>
           /\ ~ApplyPreview /\ ~Rollback /\ ~RefuseApply /\ ~RefuseRollback
           /\ ~FinishApply /\ ~FailApply /\ ~FinishRollback /\ ~FailRollback
<1>1. ~ApplyPreview /\ ~Rollback /\ ~RefuseApply /\ ~RefuseRollback
    BY ApplyMoves, RollbackMoves DEF RefuseApply, RefuseRollback, Running
<1>2. ~FinishApply /\ ~FailApply /\ ~FinishRollback /\ ~FailRollback
    BY DEF FinishApply, FailApply, FinishRollback, FailRollback, Finish
<1>3. UNCHANGED <<doc, receipt>>
    <2>1. CASE ~Moving
        BY <2>1, StillSteps
    <2>2. ASSUME NEW token, NEW op, NEW changes, Offering(token, op, changes)
          PROVE  UNCHANGED <<doc, receipt>>
        BY <2>2 DEF Offering, PreviewOperation
    <2>3. ASSUME NEW token, NEW key, Approve(token, key)
          PROVE  UNCHANGED <<doc, receipt>>
        BY <2>3 DEF Approve, GateOnly
    <2> QED BY <1>1, <1>2, <2>1, <2>2, <2>3 DEF Moving, Offering
<1>4. lane'[1] = lane[1]
    <2>1. ASSUME NEW token \in Tokens, NEW key \in Keys \cup {NoKey},
                 Approve(token, key) \/ RequestRollback(token, key)
          PROVE  lane'[1] = lane[1]
        <3>1. PICK mutation : Schedule(mutation) /\ mutation \in Mutations
            <4>1. PICK apply : apply = [kind |-> "apply", token |-> token, key |-> key]
                OBVIOUS
            <4>2. PICK rollback : rollback = [kind |-> "rollback", token |-> token, key |-> key]
                OBVIOUS
            <4>3. apply \in Mutations /\ rollback \in Mutations
                BY <4>1, <4>2 DEF Mutations, Actions
            <4>4. Schedule(apply) \/ Schedule(rollback)
                BY <2>1, <4>1, <4>2 DEF Approve, RequestRollback
            <4> QED BY <4>3, <4>4
        <3>2. 1 \in DOMAIN lane
            BY SomeoneAtWork, HeadOfLane
        <3> QED BY <3>1, <3>2, ScheduleAppends
    <2>2. ASSUME NEW token, NEW op, NEW changes, PreviewOperation(token, op, changes)
          PROVE  lane'[1] = lane[1]
        BY <2>2 DEF PreviewOperation
    <2>3. ASSUME NEW caller \in Verifiers, NEW token \in Tokens, BeginVerify(caller, token)
          PROVE  lane'[1] = lane[1]
        BY <2>3 DEF BeginVerify
    <2>4. ASSUME NEW token \in Tokens, NothingToApprove(token) \/ AskOperator(token) \/ RefuseApproval(token)
          PROVE  lane'[1] = lane[1]
        BY <2>4 DEF NothingToApprove, AskOperator, RefuseApproval, GateOnly
    <2>5. ASSUME NEW v \in verify, EndVerify(v) PROVE lane'[1] = lane[1]
        BY <2>5 DEF EndVerify
    <2>6. CASE AuditWrite \/ Tick \/ UNCHANGED vars
        BY <2>6 DEF AuditWrite, Tick, vars, flowVars
    <2> QED BY <1>1, <1>2, <2>1, <2>2, <2>3, <2>4, <2>5, <2>6 DEF Next, ClientStep, LaneStep
<1> QED BY <1>1, <1>2, <1>3, <1>4

\* Only an apply or a rollback gets to work.
LEMMA WorkBegins ==
    ASSUME FlowInv, [Next]_vars, running' = "audit"
    PROVE  running = "audit" \/ ApplyPreview \/ Rollback
<1>1. CASE ~Moving
    BY <1>1, StillSteps
<1>2. ASSUME NEW token, NEW op, NEW changes, Offering(token, op, changes)
      PROVE  running = "audit"
    BY <1>2 DEF Offering, PreviewOperation
<1>3. ASSUME NEW token, NEW key, Approve(token, key)
      PROVE  running = "audit"
    BY <1>3 DEF Approve, GateOnly
<1>4. CASE FinishApply \/ FailApply \/ FinishRollback \/ FailRollback
    BY <1>4 DEF FinishApply, FailApply, FinishRollback, FailRollback, Finishing
<1> QED BY <1>1, <1>2, <1>3, <1>4 DEF Moving, Offering

LEMMA ReceiptStep ==
    ASSUME FlowInv, [Next]_vars
    PROVE  ReceiptHeld' /\ running' \in {"queued", "audit"}
<1>1. CASE running = "audit" /\ running' = "audit"
    <2>1. lane'[1] = lane[1] /\ UNCHANGED <<doc, receipt>> /\ offers \subseteq offers'
        BY <1>1, HeadStays, OffersGrow
    <2> QED BY <1>1, <2>1 DEF FlowInv, ReceiptHeld
<1>2. CASE ApplyPreview
    <2>1. lane' = lane /\ lane[1].kind = "apply" /\ Token = lane[1].token /\ running' = "audit"
        BY <1>2, ApplyMoves, HeadOfLane DEF ApplyPreview, Mutate
    <2> QED BY <1>2, <2>1, ApplyMakes, OffersGrow DEF ReceiptHeld
<1>3. CASE Rollback
    <2>1. lane' = lane /\ lane[1].kind = "rollback" /\ Token = lane[1].token /\ running' = "audit"
        BY <1>3, RollbackMoves, HeadOfLane DEF Rollback, Mutate
    <2> QED BY <1>3, <2>1, RollbackUndoes, OffersGrow DEF ReceiptHeld
<1>4. CASE running' # "audit"
    <2>1. running' \in {"queued", "audit"}
        <3>1. CASE ~Moving
            BY <3>1, StillSteps DEF FlowInv, FlowTypes
        <3>2. ASSUME NEW token, NEW op, NEW changes, Offering(token, op, changes)
              PROVE  running' = running
            BY <3>2 DEF Offering, PreviewOperation
        <3>3. ASSUME NEW token, NEW key, Approve(token, key)
              PROVE  running' = running
            BY <3>3 DEF Approve, GateOnly
        <3>4. CASE FinishApply \/ FailApply \/ FinishRollback \/ FailRollback
            BY <3>4 DEF FinishApply, FailApply, FinishRollback, FailRollback, Finish
        <3>5. CASE ApplyPreview \/ Rollback
            BY <3>5 DEF ApplyPreview, Rollback, Mutate
        <3>6. running \in {"queued", "audit"}
            BY DEF FlowInv, FlowTypes
        <3> QED BY <3>1, <3>2, <3>3, <3>4, <3>5, <3>6 DEF Moving, Offering
    <2> QED BY <1>4, <2>1 DEF ReceiptHeld
<1> QED BY <1>1, <1>2, <1>3, <1>4, WorkBegins
-----------------------------------------------------------------------------
(* The idempotency keys. *)

\* The map changes only as a mutation that kept its change remembers its key.
LEMMA KeySteps ==
    ASSUME FlowInv, [Next]_vars
    PROVE  \/ idempotency' \subseteq idempotency
           \/ /\ FinishApply \/ FinishRollback
              /\ \E new : /\ new.key = Key
                          /\ \A j \in idempotency' : j = new \/ (j \in idempotency /\ j.key # Key)
<1>1. CASE Shrinks
    BY <1>1 DEF Shrinks
<1>2. ASSUME NEW token, NEW op, NEW changes, PreviewOperation(token, op, changes)
      PROVE  idempotency' \subseteq idempotency
    BY <1>2, LiveIsPart DEF PreviewOperation, CreatePreview
<1>3. CASE ApplyPreview
    BY <1>3, LiveIsPart DEF ApplyPreview, RecordApply
<1>4. CASE FinishApply
    <2>1. lane # <<>> /\ Remember("apply")
        BY <1>4, FinishMoves DEF FinishApply
    <2> QED BY <1>4, <2>1, RememberStep DEF Actions
<1>5. CASE FinishRollback
    <2>1. lane # <<>> /\ (Remember("rollback") \/ UNCHANGED ledger)
        BY <1>5, FinishMoves DEF FinishRollback
    <2>2. CASE Remember("rollback")
        BY <1>5, <2>1, <2>2, RememberStep DEF Actions
    <2>3. CASE UNCHANGED ledger
        BY <2>3 DEF ledger
    <2> QED BY <2>1, <2>2, <2>3
<1> QED BY <1>1, <1>2, <1>3, <1>4, <1>5, MapSteps DEF Takes

\* The key of a mutation that begins is not in use.
LEMMA BeginsUnused ==
    ASSUME FlowInv, ApplyPreview \/ Rollback
    PROVE  /\ UNCHANGED <<now, lane>> /\ Key = lane[1].key /\ idempotency' \subseteq idempotency
           /\ \A i \in idempotency : i.key = lane[1].key => i.expiresAt < now
<1>1. UNCHANGED <<now, lane>> /\ ~KeyUsed(Key) /\ idempotency' \subseteq idempotency
    BY LiveIsPart DEF ApplyPreview, Rollback, Mutate, RecordApply, Evict
<1>2. Key = lane[1].key
    BY ApplyMoves, RollbackMoves, HeadOfLane
<1>3. \A i \in idempotency : i.key = Key => ~(i.expiresAt >= now)
    BY <1>1 DEF KeyUsed, Seen, Live
<1>4. \A i \in idempotency : i.expiresAt \in Int /\ now \in Int
    BY LedgerAssumption DEF FlowInv, FlowTypes, LedgerTypeOK, IdempotencyRecord, Times
<1> QED BY <1>1, <1>2, <1>3, <1>4

LEMMA KeysStep ==
    ASSUME FlowInv, [Next]_vars
    PROVE  KeysApart'
<1>1. \A i, j \in idempotency : i.key = j.key => i = j
    BY DEF FlowInv, KeysApart
<1>2. \A i, j \in idempotency' : i.key = j.key => i = j
    BY <1>1, KeySteps
<1>3. ASSUME running' = "audit", NEW i \in idempotency', i.key = lane'[1].key
      PROVE  i.expiresAt < now'
    <2>1. CASE running = "audit"
        <3>1. lane'[1] = lane[1] /\ ~FinishApply /\ ~FinishRollback
            BY <1>3, <2>1, HeadStays
        <3>2. i \in idempotency /\ i.expiresAt < now
            BY <1>3, <2>1, <3>1, KeySteps DEF FlowInv, KeysApart
        <3>3. i.expiresAt \in Int /\ now \in Int /\ now' \in Int /\ now <= now'
            BY <3>2, TimeStep, LedgerAssumption
               DEF FlowInv, FlowTypes, LedgerTypeOK, IdempotencyRecord, Times
        <3> QED BY <3>2, <3>3
    <2>2. CASE ApplyPreview \/ Rollback
        BY <1>3, <2>2, BeginsUnused
    <2> QED BY <1>3, <2>1, <2>2, WorkBegins
<1> QED BY <1>2, <1>3 DEF KeysApart
-----------------------------------------------------------------------------
(* The audit records. *)

AuditTypes == waiting \in Seq(Callers) /\ failed \in BOOLEAN /\ outcome \in [Callers -> Outcomes]

WaitersTell ==
    /\ \A c \in Callers : outcome[c] = "waiting" => \E n \in DOMAIN waiting : waiting[n] = c
    /\ \A n \in DOMAIN waiting : outcome[waiting[n]] = "waiting"
    /\ \A m, n \in DOMAIN waiting : waiting[m] = waiting[n] => m = n
    /\ \A c \in Callers : outcome[c] = "failed" => failed

\* A record that is begun: its caller waits behind all others, or is told of the failure.
LEMMA RequestTells ==
    ASSUME AuditTypes, WaitersTell, NEW c \in Callers, Request(c)
    PROVE  /\ AuditTypes' /\ WaitersTell'
           /\ failed' = failed /\ outcome'[c] \in {"waiting", "failed"}
           /\ \A d \in Callers : d # c => outcome'[d] = outcome[d]
           /\ \A n \in DOMAIN waiting : n \in DOMAIN waiting' /\ waiting'[n] = waiting[n] /\ waiting[n] # c
           /\ \A n \in DOMAIN waiting' : \/ n \in DOMAIN waiting
                                         \/ waiting'[n] = c /\ \A m \in DOMAIN waiting : m < n
<1>1. \A n \in DOMAIN waiting : waiting[n] # c
    BY DEF Request, WaitersTell
<1>2. /\ failed' = failed /\ outcome' \in [Callers -> Outcomes]
      /\ \A d \in Callers : d # c => outcome'[d] = outcome[d]
    BY DEF Request, AuditTypes, Outcomes
<1>3. CASE failed
    <2>1. outcome'[c] = "failed" /\ waiting' = waiting
        BY <1>3 DEF Request, AuditTypes
    <2> QED BY <1>1, <1>2, <1>3, <2>1 DEF AuditTypes, WaitersTell
<1>4. CASE ~failed
    <2>1. outcome'[c] = "waiting" /\ waiting' = Append(waiting, c)
        BY <1>4 DEF Request, AuditTypes
    <2>2. /\ waiting' \in Seq(Callers) /\ waiting'[Len(waiting) + 1] = c
          /\ Len(waiting) \in Nat /\ DOMAIN waiting' = DOMAIN waiting \cup {Len(waiting) + 1}
          /\ \A n \in DOMAIN waiting : n \in Nat /\ n < Len(waiting) + 1 /\ waiting'[n] = waiting[n]
                                       /\ waiting[n] \in Callers
        BY <2>1 DEF AuditTypes
    <2>3. \A d \in Callers : outcome'[d] = "waiting" => \E n \in DOMAIN waiting' : waiting'[n] = d
        <3>1. ASSUME NEW d \in Callers, outcome'[d] = "waiting"
              PROVE  \E n \in DOMAIN waiting' : waiting'[n] = d
            <4>1. CASE d = c
                BY <2>2, <4>1
            <4>2. CASE d # c
                BY <1>2, <2>2, <3>1, <4>2 DEF WaitersTell
            <4> QED BY <4>1, <4>2
        <3> QED BY <3>1
    <2>4. \A n \in DOMAIN waiting' : outcome'[waiting'[n]] = "waiting"
        BY <1>1, <1>2, <2>1, <2>2 DEF WaitersTell
    <2>5. \A m, n \in DOMAIN waiting' : waiting'[m] = waiting'[n] => m = n
        BY <1>1, <2>2 DEF WaitersTell
    <2>6. \A d \in Callers : outcome'[d] = "failed" => failed'
        BY <1>2, <2>1 DEF WaitersTell
    <2>7. WaitersTell'
        BY <2>3, <2>4, <2>5, <2>6 DEF WaitersTell
    <2> QED BY <1>1, <1>2, <2>1, <2>2, <2>7 DEF AuditTypes
<1> QED BY <1>3, <1>4
\* The log settles its oldest record, or fails for one that nobody waits for.
LEMMA AuditStepTells ==
    ASSUME AuditTypes, WaitersTell, AuditStep
    PROVE  /\ AuditTypes' /\ WaitersTell' /\ (failed => failed')
           /\ \/ \A n \in DOMAIN waiting' : n \in DOMAIN waiting /\ waiting'[n] = waiting[n]
              \/ \A n \in DOMAIN waiting' : n + 1 \in DOMAIN waiting /\ waiting'[n] = waiting[n + 1]
           /\ \A c \in Callers :
                  \/ outcome'[c] = outcome[c]
                  \/ /\ 1 \in DOMAIN waiting /\ waiting[1] = c /\ outcome[c] = "waiting"
                     /\ outcome'[c] = IF failed' THEN "failed" ELSE "acked"
<1>1. CASE OtherWriteFails
    BY <1>1 DEF OtherWriteFails, AuditTypes, WaitersTell
<1>2. CASE SettleOldest
    <2>1. waiting # <<>> /\ waiting \in Seq(Callers)
        BY <1>2 DEF SettleOldest, AuditTypes
    <2>2. PICK c \in Callers : c = Head(waiting) /\ c = waiting[1] /\ 1 \in DOMAIN waiting
        BY <2>1
    <2>3. /\ waiting' \in Seq(Callers)
          /\ \A n \in DOMAIN waiting' : n \in Nat /\ n + 1 # 1 /\ n + 1 \in DOMAIN waiting /\ waiting'[n] = waiting[n + 1]
          /\ \A k \in DOMAIN waiting : k # 1 => k - 1 \in DOMAIN waiting' /\ waiting'[k - 1] = waiting[k]
        BY <1>2, <2>1 DEF SettleOldest
    <2>4. failed' \in BOOLEAN /\ (failed => failed')
        <3>1. failed' = failed \/ failed' = TRUE
            BY <1>2 DEF SettleOldest
        <3>2. failed \in BOOLEAN
            BY DEF AuditTypes
        <3>3. CASE failed' = failed
            <4>1. failed' \in BOOLEAN
                BY <3>2, <3>3
            <4>2. failed => failed'
                BY <3>3
            <4> QED BY <4>1, <4>2
        <3>4. CASE failed' = TRUE
            <4>1. failed' \in BOOLEAN
                BY <3>4
            <4>2. failed'
                BY <3>4
            <4> QED BY <4>1, <4>2
        <3> QED BY <3>1, <3>3, <3>4
    <2>5. PICK o \in {"failed", "acked"} :
              o = (IF failed' THEN "failed" ELSE "acked") /\ outcome' = [outcome EXCEPT ![c] = o]
        BY <1>2, <2>2 DEF SettleOldest
    <2>6. /\ outcome' \in [Callers -> Outcomes] /\ outcome'[c] = o /\ outcome[c] = "waiting"
          /\ \A d \in Callers : d # c => outcome'[d] = outcome[d]
        BY <2>2, <2>5 DEF AuditTypes, Outcomes, WaitersTell
    <2>7. \A n \in DOMAIN waiting' : waiting'[n] # c /\ waiting'[n] \in Callers
        BY <2>2, <2>3 DEF WaitersTell
    <2>8. \A d \in Callers : outcome'[d] = "waiting" => \E n \in DOMAIN waiting' : waiting'[n] = d
        <3>1. ASSUME NEW d \in Callers, outcome'[d] = "waiting"
              PROVE  \E n \in DOMAIN waiting' : waiting'[n] = d
            <4>1. d # c /\ outcome[d] = "waiting"
                BY <2>5, <2>6, <3>1
            <4>2. PICK k \in DOMAIN waiting : waiting[k] = d
                BY <4>1 DEF WaitersTell
            <4> QED BY <2>2, <2>3, <4>1, <4>2
        <3> QED BY <3>1
    <2>9. \A n \in DOMAIN waiting' : outcome'[waiting'[n]] = "waiting"
        <3>1. ASSUME NEW n \in DOMAIN waiting' PROVE outcome'[waiting'[n]] = "waiting"
            <4>1. outcome[waiting[n + 1]] = "waiting" /\ waiting'[n] = waiting[n + 1]
                BY <2>3, <3>1 DEF WaitersTell
            <4> QED BY <2>6, <2>7, <3>1, <4>1
        <3> QED BY <3>1
    <2>10. \A m, n \in DOMAIN waiting' : waiting'[m] = waiting'[n] => m = n
        <3>1. ASSUME NEW m \in DOMAIN waiting', NEW n \in DOMAIN waiting', waiting'[m] = waiting'[n]
              PROVE  m = n
            <4>1. m + 1 = n + 1
                BY <2>3, <3>1 DEF WaitersTell
            <4> QED BY <2>3, <4>1
        <3> QED BY <3>1
    <2>11. \A d \in Callers : outcome'[d] = "failed" => failed'
        BY <2>4, <2>5, <2>6 DEF WaitersTell
    <2>12. WaitersTell'
        BY <2>8, <2>9, <2>10, <2>11 DEF WaitersTell
    <2>13. \A d \in Callers :
              \/ outcome'[d] = outcome[d]
              \/ /\ 1 \in DOMAIN waiting /\ waiting[1] = d /\ outcome[d] = "waiting"
                 /\ outcome'[d] = IF failed' THEN "failed" ELSE "acked"
        BY <2>2, <2>5, <2>6
    <2> QED BY <2>3, <2>4, <2>6, <2>12, <2>13 DEF AuditTypes
<1> QED BY <1>1, <1>2 DEF AuditStep

\* A caller that has its answer returns.
LEMMA ReturnTells ==
    ASSUME AuditTypes, WaitersTell, NEW c \in Callers, outcome[c] # "waiting",
           outcome' = [outcome EXCEPT ![c] = "none"], UNCHANGED <<waiting, failed>>
    PROVE  /\ AuditTypes' /\ WaitersTell' /\ outcome'[c] = "none"
           /\ \A d \in Callers : d # c => outcome'[d] = outcome[d]
BY DEF AuditTypes, WaitersTell, Outcomes

LEMMA FlowAuditTells ==
    ASSUME FlowInv
    PROVE  /\ AuditTypes /\ WaitersTell
           /\ outcome[Mutator] \in IF running = "audit" THEN {"waiting", "acked", "failed"} ELSE {"none"}
           /\ Mutator \in Callers /\ Verifiers \subseteq Callers /\ Mutator \notin Verifiers
           /\ \A v \in verify : v.caller \in Verifiers /\ v.token \in Tokens
BY FlowAssumption DEF FlowInv, FlowTypes, AuditTells, AuditTypes, WaitersTell, Verifiers

LEMMA AuditSteps ==
    ASSUME [Next]_vars
    PROVE  \/ UNCHANGED <<waiting, failed, outcome, running, verify>>
           \/ \E caller \in Verifiers, t \in Tokens : BeginVerify(caller, t)
           \/ \E v \in verify : EndVerify(v)
           \/ ApplyPreview \/ Rollback
           \/ FinishApply \/ FailApply \/ FinishRollback \/ FailRollback
           \/ AuditWrite
<1>1. ASSUME NEW token, NEW op, NEW changes, PreviewOperation(token, op, changes)
      PROVE  UNCHANGED <<waiting, failed, outcome, running, verify>>
    BY <1>1 DEF PreviewOperation, auditVars
<1>2. ASSUME NEW token, NothingToApprove(token) \/ AskOperator(token) \/ RefuseApproval(token)
      PROVE  UNCHANGED <<waiting, failed, outcome, running, verify>>
    BY <1>2 DEF NothingToApprove, AskOperator, RefuseApproval, GateOnly, auditVars
<1>3. ASSUME NEW token, NEW key, Approve(token, key) \/ RequestRollback(token, key)
      PROVE  UNCHANGED <<waiting, failed, outcome, running, verify>>
    BY <1>3 DEF Approve, RequestRollback, GateOnly, auditVars
<1>4. CASE RefuseApply \/ RefuseRollback
    BY <1>4 DEF RefuseApply, RefuseRollback, Refused, auditVars
<1>5. CASE Tick \/ UNCHANGED vars
    BY <1>5 DEF Tick, vars, auditVars, flowVars
<1> QED BY <1>1, <1>2, <1>3, <1>4, <1>5 DEF Next, ClientStep, LaneStep

\* The mutation that begins asks for its audit record, and the one that ends has its answer.
LEMMA MutatorAsks ==
    ASSUME FlowInv, ApplyPreview \/ Rollback
    PROVE  Request(Mutator) /\ running' = "audit" /\ UNCHANGED verify
BY DEF ApplyPreview, Rollback, Mutate

LEMMA MutatorReturns ==
    ASSUME FlowInv, FinishApply \/ FailApply \/ FinishRollback \/ FailRollback
    PROVE  /\ outcome[Mutator] \in {"acked", "failed"}
           /\ outcome' = [outcome EXCEPT ![Mutator] = "none"]
           /\ UNCHANGED <<waiting, failed, verify>> /\ running' = "queued"
           /\ FailApply => outcome[Mutator] = "failed"
BY DEF FinishApply, FailApply, FinishRollback, FailRollback, Finishing, Settled, Kept, Finish

LEMMA AuditTellsStep ==
    ASSUME FlowInv, [Next]_vars
    PROVE  AuditTells' /\ AuditTypes'
<1>1. /\ AuditTypes /\ WaitersTell
      /\ outcome[Mutator] \in IF running = "audit" THEN {"waiting", "acked", "failed"} ELSE {"none"}
      /\ Mutator \in Callers /\ Verifiers \subseteq Callers /\ Mutator \notin Verifiers
      /\ \A v \in verify : v.caller \in Verifiers
    BY FlowAuditTells
<1> SUFFICES /\ AuditTypes' /\ WaitersTell'
             /\ outcome'[Mutator] \in IF running' = "audit" THEN {"waiting", "acked", "failed"} ELSE {"none"}
    BY DEF AuditTells, WaitersTell
<1>2. CASE UNCHANGED <<waiting, failed, outcome, running, verify>>
    BY <1>1, <1>2 DEF AuditTypes, WaitersTell
<1>3. ASSUME NEW caller \in Verifiers, NEW t \in Tokens, BeginVerify(caller, t)
      PROVE  /\ AuditTypes' /\ WaitersTell'
             /\ outcome'[Mutator] = outcome[Mutator] /\ running' = running
    <2>1. Request(caller) /\ running' = running /\ caller \in Callers /\ caller # Mutator
        BY <1>1, <1>3 DEF BeginVerify
    <2> QED BY <1>1, <2>1, RequestTells
<1>4. ASSUME NEW v \in verify, EndVerify(v)
      PROVE  /\ AuditTypes' /\ WaitersTell'
             /\ outcome'[Mutator] = outcome[Mutator] /\ running' = running
    <2>1. PICK c \in Callers : c = v.caller /\ c # Mutator
        BY <1>1
    <2>2. /\ outcome[c] # "waiting" /\ outcome' = [outcome EXCEPT ![c] = "none"]
          /\ UNCHANGED <<waiting, failed>> /\ running' = running
        BY <1>4, <2>1 DEF EndVerify
    <2> QED BY <1>1, <2>1, <2>2, ReturnTells
<1>5. CASE ApplyPreview \/ Rollback
    BY <1>1, <1>5, MutatorAsks, RequestTells
<1>6. CASE FinishApply \/ FailApply \/ FinishRollback \/ FailRollback
    <2>1. /\ outcome[Mutator] \in {"acked", "failed"}
          /\ outcome' = [outcome EXCEPT ![Mutator] = "none"]
          /\ UNCHANGED <<waiting, failed>> /\ running' = "queued"
        BY <1>6, MutatorReturns
    <2>2. AuditTypes' /\ WaitersTell' /\ outcome'[Mutator] = "none"
        BY <1>1, <2>1, ReturnTells
    <2> QED BY <2>1, <2>2
<1>7. CASE AuditWrite
    <2>1. AuditStep /\ running' = running
        BY <1>7 DEF AuditWrite, flowVars
    <2>2. /\ AuditTypes' /\ WaitersTell'
          /\ \/ outcome'[Mutator] = outcome[Mutator]
             \/ /\ outcome[Mutator] = "waiting"
                /\ outcome'[Mutator] = IF failed' THEN "failed" ELSE "acked"
        BY <1>1, <2>1, AuditStepTells
    <2> QED BY <1>1, <2>1, <2>2
<1> QED BY <1>1, <1>2, <1>3, <1>4, <1>5, <1>6, <1>7, AuditSteps

\* A verification keeps its place behind the mutation when others come and go.
LEMMA PrecedesStays ==
    ASSUME FlowInv, AuditStep, NEW c, NEW d, Precedes(c, d)
    PROVE  Precedes(c, d)'
<1>1. \/ \A n \in DOMAIN waiting' : n \in DOMAIN waiting /\ waiting'[n] = waiting[n]
      \/ \A n \in DOMAIN waiting' : n + 1 \in DOMAIN waiting /\ waiting'[n] = waiting[n + 1]
    BY FlowAuditTells, AuditStepTells
<1>2. \A n \in DOMAIN waiting' : n \in Nat
    BY FlowAuditTells, AuditStepTells DEF AuditTypes
<1>3. CASE \A n \in DOMAIN waiting' : n \in DOMAIN waiting /\ waiting'[n] = waiting[n]
    BY <1>3 DEF Precedes
<1>4. CASE \A n \in DOMAIN waiting' : n + 1 \in DOMAIN waiting /\ waiting'[n] = waiting[n + 1]
    <2>1. ASSUME NEW m \in DOMAIN waiting', NEW n \in DOMAIN waiting',
                 waiting'[m] = c, waiting'[n] = d
          PROVE  m < n
        <3>1. m + 1 < n + 1
            BY <1>4, <2>1 DEF Precedes
        <3> QED BY <1>2, <3>1
    <2> QED BY <2>1 DEF Precedes
<1> QED BY <1>1, <1>3, <1>4

\* What the clients and the audit log do does not move a change that was accepted.
LEMMA AcceptedStays ==
    ASSUME FlowInv, [Next]_vars, ~ApplyPreview, ~Rollback,
           ~FinishApply, ~FailApply, ~FinishRollback, ~FailRollback,
           NEW t \in Tokens, stage[t] \notin {"none", "offered"}
    PROVE  stage'[t] = stage[t]
<1>1. CASE ~Moving
    BY <1>1, StillSteps
<1>2. ASSUME NEW token, NEW op, NEW changes, Offering(token, op, changes)
      PROVE  stage'[t] = stage[t]
    BY <1>2, OfferMoves, MoveFrom DEF Offering, FlowInv, FlowTypes, History!Stages
<1>3. ASSUME NEW token \in Tokens, NEW key \in Keys \cup {NoKey}, Approve(token, key)
      PROVE  stage'[t] = stage[t]
    BY <1>3, ApproveMoves, MoveFrom DEF FlowInv, FlowTypes, History!Stages
<1> QED BY <1>1, <1>2, <1>3 DEF Moving, Offering

LEMMA StandsWith ==
    ASSUME FlowInv, NEW v \in verify
    PROVE  /\ Stands(v) /\ v.token \in Tokens /\ v.caller \in Callers /\ v.caller # Mutator
           /\ stage[v.token] \in {"changing", "changed", "reverting", "reverted", "failed"}
BY FlowAuditTells DEF FlowInv, VerifyStands, Stands

LEMMA VerifySettles ==
    ASSUME FlowInv, AuditWrite, NEW v \in verify
    PROVE  Stands(v)'
<1>1. AuditStep /\ UNCHANGED <<stage, running, verify, lane>>
    BY DEF AuditWrite, flowVars
<1>2. /\ Stands(v) /\ v.token \in Tokens /\ v.caller \in Callers /\ v.caller # Mutator
      /\ AuditTypes /\ WaitersTell /\ Mutator \in Callers
    BY FlowAuditTells, StandsWith
<1>3. /\ AuditTypes' /\ WaitersTell' /\ (failed => failed')
      /\ \A c \in Callers :
             \/ outcome'[c] = outcome[c]
             \/ /\ 1 \in DOMAIN waiting /\ waiting[1] = c /\ outcome[c] = "waiting"
                /\ outcome'[c] = IF failed' THEN "failed" ELSE "acked"
    BY <1>1, <1>2, AuditStepTells
<1>4. CASE stage[v.token] \in {"changed", "reverting", "reverted"}
    BY <1>1, <1>4 DEF Stands
<1>5. CASE stage[v.token] = "failed"
    <2>1. failed /\ outcome[v.caller] # "acked"
        BY <1>2, <1>5 DEF Stands
    <2>2. failed' /\ outcome'[v.caller] # "acked"
        BY <1>2, <1>3, <2>1
    <2> QED BY <1>1, <1>5, <2>2 DEF Stands
<1>6. CASE stage[v.token] = "changing"
    <2>1. /\ outcome[v.caller] = "acked" => outcome[Mutator] = "acked"
          /\ Precedes(Mutator, v.caller)
        BY <1>2, <1>6 DEF Stands
    <2>2. Precedes(Mutator, v.caller)'
        BY <1>1, <2>1, PrecedesStays
    <2>3. running = "audit" /\ outcome[Mutator] \in {"waiting", "acked", "failed"}
        BY <1>2, <1>6, LanePlaced, FlowAuditTells
    <2>4. ASSUME outcome'[v.caller] = "acked" PROVE outcome'[Mutator] = "acked"
        <3>1. CASE outcome'[v.caller] = outcome[v.caller]
            <4>1. outcome[Mutator] = "acked"
                BY <2>1, <2>4, <3>1
            <4> QED BY <1>2, <1>3, <4>1
        <3>2. CASE outcome'[v.caller] # outcome[v.caller]
            <4>1. 1 \in DOMAIN waiting /\ waiting[1] = v.caller /\ ~failed'
                BY <1>2, <1>3, <2>4, <3>2
            <4>2. outcome[Mutator] # "waiting"
                <5>1. ASSUME outcome[Mutator] = "waiting" PROVE FALSE
                    <6>1. PICK m \in DOMAIN waiting : waiting[m] = Mutator
                        BY <1>2, <5>1 DEF WaitersTell
                    <6>2. m \in Nat \ {0}
                        BY <1>2 DEF AuditTypes
                    <6>3. m < 1
                        BY <2>1, <4>1, <6>1 DEF Precedes
                    <6> QED BY <6>2, <6>3
                <5> QED BY <5>1
            <4>3. outcome[Mutator] # "failed"
                BY <1>2, <1>3, <4>1 DEF WaitersTell
            <4>4. outcome[Mutator] = "acked"
                BY <2>3, <4>2, <4>3
            <4> QED BY <1>2, <1>3, <4>4
        <3> QED BY <3>1, <3>2
    <2> QED BY <1>1, <1>6, <2>2, <2>4 DEF Stands
<1> QED BY <1>4, <1>5, <1>6, StandsWith

LEMMA VerifyBegins ==
    ASSUME FlowInv, [Next]_vars, NEW caller \in Verifiers, NEW t \in Tokens, BeginVerify(caller, t)
    PROVE  VerifyStands' /\ \A v \in verify' : v.caller \in Verifiers /\ v.token \in Tokens
<1>1. /\ Request(caller) /\ UNCHANGED stage /\ caller \in Callers /\ caller # Mutator
      /\ \A v \in verify : v.caller # caller
    BY FlowAuditTells DEF BeginVerify
<1>2. AuditTypes /\ WaitersTell /\ Mutator \in Callers
      /\ \A v \in verify : v.caller \in Verifiers /\ v.token \in Tokens
    BY FlowAuditTells
<1>3. /\ failed' = failed /\ outcome'[caller] \in {"waiting", "failed"} /\ WaitersTell'
      /\ \A d \in Callers : d # caller => outcome'[d] = outcome[d]
      /\ \A n \in DOMAIN waiting : n \in DOMAIN waiting' /\ waiting'[n] = waiting[n] /\ waiting[n] # caller
      /\ \A n \in DOMAIN waiting' : \/ n \in DOMAIN waiting
                                    \/ waiting'[n] = caller /\ \A m \in DOMAIN waiting : m < n
    BY <1>1, <1>2, RequestTells
<1>4. PICK r \in PeekApplied(t) :
          verify' = verify \cup {[caller |-> caller, token |-> t, op |-> r.op, read |-> doc[r.op]]}
    BY DEF BeginVerify
<1>5. PICK new : new = [caller |-> caller, token |-> t, op |-> r.op, read |-> doc[r.op]]
    OBVIOUS
<1>6. verify' = verify \cup {new} /\ new.caller = caller /\ new.token = t
    BY <1>4, <1>5
<1>7. stage[t] \in {"changing", "changed", "reverting", "reverted"}
    <2>1. r \in applied /\ r.token = t
        BY LiveIsPart DEF PeekApplied, Of
    <2> QED BY <2>1 DEF FlowInv, RecordStages
<1>8. Precedes(Mutator, caller)'
    <2>1. ASSUME NEW m \in DOMAIN waiting', NEW n \in DOMAIN waiting',
                 waiting'[m] = Mutator, waiting'[n] = caller
          PROVE  m < n
        BY <1>1, <1>3, <2>1
    <2> QED BY <2>1 DEF Precedes
<1>9. Stands(new)'
    BY <1>1, <1>3, <1>6, <1>7, <1>8 DEF Stands
<1>10. ASSUME NEW v \in verify PROVE Stands(v)'
    <2>1. /\ Stands(v) /\ v.token \in Tokens /\ v.caller \in Callers /\ v.caller # caller
        BY <1>1, StandsWith
    <2>2. outcome'[v.caller] = outcome[v.caller] /\ outcome'[Mutator] = outcome[Mutator]
        BY <1>1, <1>2, <1>3, <2>1
    <2>3. Precedes(Mutator, v.caller) => Precedes(Mutator, v.caller)'
        BY <1>1, <1>3, <2>1 DEF Precedes
    <2> QED BY <1>1, <1>3, <2>1, <2>2, <2>3 DEF Stands
<1> QED BY <1>2, <1>6, <1>9, <1>10 DEF VerifyStands

LEMMA VerifyEnds ==
    ASSUME FlowInv, NEW w \in verify, EndVerify(w)
    PROVE  VerifyStands' /\ verify' \subseteq verify
<1>1. /\ verify' \subseteq verify /\ UNCHANGED <<waiting, failed, stage>>
      /\ outcome[w.caller] # "waiting" /\ outcome' = [outcome EXCEPT ![w.caller] = "none"]
    BY DEF EndVerify
<1>2. AuditTypes /\ WaitersTell /\ Mutator \in Callers
    BY FlowAuditTells
<1>3. PICK c \in Callers : c = w.caller /\ c # Mutator
    BY StandsWith
<1>4. outcome'[c] = "none" /\ \A d \in Callers : d # c => outcome'[d] = outcome[d]
    BY <1>1, <1>2, <1>3, ReturnTells
<1>5. ASSUME NEW v \in verify PROVE Stands(v)'
    <2>1. Stands(v) /\ v.token \in Tokens /\ v.caller \in Callers
        BY StandsWith
    <2>2. outcome'[v.caller] = "acked" => outcome[v.caller] = "acked"
        BY <1>4, <2>1
    <2>3. outcome'[Mutator] = outcome[Mutator]
        BY <1>2, <1>3, <1>4
    <2>4. Precedes(Mutator, v.caller) => Precedes(Mutator, v.caller)'
        BY <1>1 DEF Precedes
    <2> QED BY <1>1, <2>1, <2>2, <2>3, <2>4 DEF Stands
<1> QED BY <1>1, <1>5 DEF VerifyStands

\* The mutation begins: no change is being made that a verification could be of.
LEMMA VerifyWaits ==
    ASSUME FlowInv, ApplyPreview \/ Rollback
    PROVE  VerifyStands' /\ UNCHANGED verify
<1>1. Request(Mutator) /\ UNCHANGED verify /\ Mutator \in Callers /\ AuditTypes /\ WaitersTell
    BY MutatorAsks, FlowAuditTells
<1>2. failed' = failed /\ \A d \in Callers : d # Mutator => outcome'[d] = outcome[d]
    BY <1>1, RequestTells
<1>3. \A t \in Tokens : stage[t] \in {"changed", "reverting", "reverted", "failed", "changing"} =>
          /\ stage[t] # "changing"
          /\ stage[t] = "failed" => stage'[t] = "failed"
          /\ stage[t] # "failed" => stage'[t] \in {"changed", "reverting", "reverted"}
    <2>1. running = "queued"
        BY ApplyMoves, RollbackMoves
    <2>2. \A t \in Tokens : stage[t] # "changing"
        BY <2>1, LanePlaced
    <2> QED BY <2>2, ApplyMoves, RollbackMoves, MoveFrom DEF FlowInv, FlowTypes, History!Stages
<1>4. ASSUME NEW v \in verify PROVE Stands(v)'
    <2>1. /\ Stands(v) /\ v.token \in Tokens /\ v.caller \in Callers /\ v.caller # Mutator
          /\ stage[v.token] \in {"changing", "changed", "reverting", "reverted", "failed"}
        BY StandsWith
    <2>2. outcome'[v.caller] = outcome[v.caller]
        BY <1>2, <2>1
    <2> QED BY <1>2, <1>3, <2>1, <2>2 DEF Stands
<1> QED BY <1>1, <1>4 DEF VerifyStands

\* The mutation ends: a verification that was told of its record was told after it.
LEMMA VerifySees ==
    ASSUME FlowInv, FinishApply \/ FailApply \/ FinishRollback \/ FailRollback
    PROVE  VerifyStands' /\ UNCHANGED verify
<1>1. /\ outcome[Mutator] \in {"acked", "failed"}
      /\ outcome' = [outcome EXCEPT ![Mutator] = "none"]
      /\ UNCHANGED <<waiting, failed, verify>>
      /\ FailApply => outcome[Mutator] = "failed"
      /\ Mutator \in Callers /\ AuditTypes /\ WaitersTell
    BY MutatorReturns, FlowAuditTells
<1>2. \A d \in Callers : d # Mutator => outcome'[d] = outcome[d]
    BY <1>1, ReturnTells
<1>3. Token \in Tokens /\ running = "audit" /\ Token = lane[1].token
    BY FinishMoves, HeadOfLane
<1>4. \A t \in Tokens : t # Token => stage'[t] = stage[t] /\ stage[t] # "changing"
    BY <1>3, FinishMoves, MoveFrom, LanePlaced DEF FlowInv, FlowTypes, History!Stages
<1>5. /\ FailApply => stage[Token] = "changing" /\ stage'[Token] = "failed"
      /\ ~FailApply => /\ stage[Token] \in {"changing", "reverting"}
                       /\ stage'[Token] \in {"changed", "reverted"}
    BY FinishMoves, MoveFrom DEF FlowInv, FlowTypes, History!Stages
<1>6. ASSUME NEW v \in verify PROVE Stands(v)'
    <2>1. /\ Stands(v) /\ v.token \in Tokens /\ v.caller \in Callers /\ v.caller # Mutator
        BY StandsWith
    <2>2. outcome'[v.caller] = outcome[v.caller]
        BY <1>2, <2>1
    <2>3. CASE v.token # Token
        BY <1>1, <1>4, <2>1, <2>2, <2>3 DEF Stands
    <2>4. CASE v.token = Token /\ ~FailApply
        BY <1>5, <2>4 DEF Stands
    <2>5. CASE v.token = Token /\ FailApply
        <3>1. failed /\ outcome[v.caller] # "acked"
            BY <1>1, <1>5, <2>1, <2>5 DEF Stands, WaitersTell
        <3> QED BY <1>1, <1>5, <2>2, <2>5, <3>1 DEF Stands
    <2> QED BY <2>3, <2>4, <2>5
<1> QED BY <1>1, <1>6 DEF VerifyStands

LEMMA VerifyStep ==
    ASSUME FlowInv, [Next]_vars
    PROVE  VerifyStands' /\ \A v \in verify' : v.caller \in Verifiers /\ v.token \in Tokens
<1>1. \A v \in verify : v.caller \in Verifiers /\ v.token \in Tokens
    BY FlowAuditTells
<1>2. CASE /\ UNCHANGED <<waiting, failed, outcome, running, verify>>
           /\ ~ApplyPreview /\ ~Rollback /\ ~FinishApply /\ ~FailApply /\ ~FinishRollback /\ ~FailRollback
    <2>1. ASSUME NEW v \in verify PROVE Stands(v)'
        <3>1. Stands(v) /\ v.token \in Tokens /\ stage'[v.token] = stage[v.token]
            BY <1>2, StandsWith, AcceptedStays
        <3>2. Precedes(Mutator, v.caller)' = Precedes(Mutator, v.caller)
            BY <1>2 DEF Precedes
        <3> QED BY <1>2, <3>1, <3>2 DEF Stands
    <2> QED BY <1>1, <1>2, <2>1 DEF VerifyStands
<1>3. CASE AuditWrite
    <2>1. UNCHANGED verify
        BY <1>3 DEF AuditWrite, flowVars
    <2> QED BY <1>1, <1>3, <2>1, VerifySettles DEF VerifyStands
<1> QED BY <1>1, <1>2, <1>3, AuditSteps, VerifyBegins, VerifyEnds, VerifyWaits, VerifySees
-----------------------------------------------------------------------------
(* The invariant holds. *)

LEMMA MintedStep ==
    ASSUME FlowInv, [Next]_vars
    PROVE  minted' \subseteq Tokens
<1>1. minted \subseteq Tokens
    BY DEF FlowInv, FlowTypes
<1>2. ASSUME NEW token, NEW op, NEW changes, PreviewOperation(token, op, changes)
      PROVE  minted' \subseteq Tokens
    BY <1>1, <1>2 DEF PreviewOperation
<1>3. ASSUME NEW caller, NEW t, BeginVerify(caller, t) PROVE minted' \subseteq Tokens
    BY <1>1, <1>3 DEF BeginVerify
<1>4. ASSUME NEW token \in Tokens, NothingToApprove(token) \/ AskOperator(token) \/ RefuseApproval(token)
      PROVE  minted' \subseteq Tokens
    BY <1>1, <1>4 DEF NothingToApprove, AskOperator, RefuseApproval, Forget
<1>5. ASSUME NEW token \in Tokens, NEW key, Approve(token, key) \/ RequestRollback(token, key)
      PROVE  minted' \subseteq Tokens
    BY <1>1, <1>5 DEF Approve, RequestRollback, Forget
<1>6. CASE LaneStep
    BY <1>1, <1>6 DEF LaneStep, RefuseApply, RefuseRollback, Refused, ApplyPreview, Rollback, Mutate,
                      FinishApply, FailApply, FinishRollback, FailRollback, Finish
<1>7. ASSUME NEW v, EndVerify(v) PROVE minted' \subseteq Tokens
    BY <1>1, <1>7 DEF EndVerify
<1>8. CASE AuditWrite \/ Tick \/ UNCHANGED vars
    BY <1>1, <1>8 DEF AuditWrite, Tick, vars, flowVars
<1> QED BY <1>2, <1>3, <1>4, <1>5, <1>6, <1>7, <1>8 DEF Next, ClientStep

LEMMA FlowInvInit == Init => FlowInv
<1> SUFFICES ASSUME Init PROVE FlowInv
    OBVIOUS
<1>1. now \in 0..MaxTime /\ lane \in Seq(Mutations) /\ Len(lane) <= MaxQueueDepth + 1
    BY LedgerAssumption, FlowAssumption DEF Init
<1>2. stage \in [Tokens -> History!Stages] /\ outcome \in [Callers -> Outcomes] /\ waiting \in Seq(Callers)
    BY DEF Init, AuditInit, History!Stages, Outcomes
<1>3. FlowTypes
    BY <1>1, <1>2, FlowAssumption DEF Init, AuditInit, FlowTypes, LedgerTypeOK
<1>4. Capped({})
    <2>1. IsFiniteSet({}) /\ Cardinality({}) = 0
        BY FS_EmptySet
    <2>2. 0 <= MaxLedger
        BY LedgerAssumption
    <2> QED BY <2>1, <2>2 DEF Capped, Stamped
<1>5. MapsCapped
    BY <1>4 DEF Init, MapsCapped
<1>6. OffersKnown /\ RecordsOffered /\ RecordStages /\ ReceiptHeld /\ KeysApart
    BY DEF Init, OffersKnown, RecordsOffered, RecordStages, ReceiptHeld, KeysApart
<1>7. LaneStages
    BY DEF Init, LaneStages
<1>8. AuditTells /\ VerifyStands
    BY FlowAssumption DEF Init, AuditInit, AuditTells, VerifyStands
<1> QED BY <1>3, <1>5, <1>6, <1>7, <1>8 DEF FlowInv

LEMMA FlowInvStep ==
    ASSUME FlowInv, [Next]_vars
    PROVE  FlowInv'
<1>1. MapsCapped' /\ MapTypes'
    BY MapsStep
<1>2. LaneStages' /\ LaneTypes'
    BY LanesStep
<1>3. FlowTypes'
    BY <1>1, <1>2, DocStep, MintedStep, ReceiptStep, AuditTellsStep, StageStep, VerifyStep
       DEF FlowTypes, MapTypes, LaneTypes, AuditTypes
<1>4. OffersKnown' /\ RecordsOffered' /\ RecordStages'
    BY OffersStep, RecordsStep, RecordStagesStep
<1>5. ReceiptHeld' /\ KeysApart' /\ AuditTells' /\ VerifyStands'
    BY ReceiptStep, KeysStep, AuditTellsStep, VerifyStep
<1> QED BY <1>1, <1>2, <1>3, <1>4, <1>5 DEF FlowInv

LEMMA FlowInvHolds == Spec => []FlowInv
BY FlowInvInit, FlowInvStep, PTL DEF Spec

\* Whatever is previewed, approved, applied, rolled back and verified, no map of the
\* ledger and not the server's map of pending previews grows beyond its capacity,
\* the queue of mutations not beyond its depth (approval.ts trimOldest, scheduler.ts),
\* and every record in them is one that the code can have put there.
THEOREM FlowTypesCorrect == Spec => []FlowTypeOK
<1>1. ASSUME FlowInv PROVE FlowTypeOK
    <2>1. \A map \in {previews, applied, rollbacks, idempotency, pending} : Cardinality(map) <= MaxLedger
        BY <1>1 DEF FlowInv, MapsCapped, Capped
    <2> QED BY <1>1, <2>1 DEF FlowInv, FlowTypes, FlowTypeOK
<1> QED BY <1>1, FlowInvHolds, PTL

\* A verify_change that is told that its record was kept is of a change that stays:
\* its apply was made and its own audit record, which is older, was kept.
THEOREM VerifiedChangesStand == Spec => []VerifiedChangeStands
<1>1. ASSUME FlowInv PROVE VerifiedChangeStands
    <2>1. ASSUME NEW v \in verify, outcome[v.caller] = "acked"
          PROVE  \/ stage[v.token] \in {"changed", "reverting", "reverted"}
                 \/ stage[v.token] = "changing" /\ outcome[Mutator] = "acked"
        <3>1. Stands(v)
            BY <1>1 DEF FlowInv, VerifyStands
        <3> QED BY <2>1, <3>1 DEF Stands
    <2> QED BY <2>1 DEF VerifiedChangeStands
<1> QED BY <1>1, FlowInvHolds, PTL

\* rememberIdempotency never gives a key that is in use to another mutation: the one
\* that began while the key was free is the only one at work until it remembers it.
THEOREM KeysKeepTheirMeaning == Spec => KeyKeepsItsMeaning
<1>1. ASSUME FlowInv, [Next]_vars
      PROVE  \A i \in Live(idempotency), j \in idempotency' :
                 i.key = j.key => i.action = j.action /\ i.token = j.token
    <2>1. ASSUME NEW i \in Live(idempotency), NEW j \in idempotency', i.key = j.key
          PROVE  i = j
        <3>1. i \in idempotency /\ i.expiresAt >= now
            BY <2>1 DEF Live
        <3>2. \A k \in idempotency : k.key = i.key => k = i
            BY <1>1, <3>1 DEF FlowInv, KeysApart
        <3>3. CASE j \in idempotency
            BY <2>1, <3>2, <3>3
        <3>4. CASE j \notin idempotency
            <4>1. /\ FinishApply \/ FinishRollback
                  /\ j.key = Key
                BY <1>1, <3>4, KeySteps
            <4>2. running = "audit" /\ Key = lane[1].key
                BY <1>1, <4>1, FinishMoves, HeadOfLane
            <4>3. i.expiresAt < now
                BY <1>1, <2>1, <3>1, <4>1, <4>2 DEF FlowInv, KeysApart
            <4>4. i.expiresAt \in Int /\ now \in Int
                BY <1>1, <3>1, LedgerAssumption
                   DEF FlowInv, FlowTypes, LedgerTypeOK, IdempotencyRecord, Times
            <4> QED BY <3>1, <4>3, <4>4
        <3> QED BY <3>3, <3>4
    <2> QED BY <2>1
<1>2. ASSUME FlowInv, [Next]_vars
      PROVE  [\A i \in Live(idempotency), j \in idempotency' :
                  i.key = j.key => i.action = j.action /\ i.token = j.token]_vars
    BY <1>1, <1>2
<1> QED BY <1>2, FlowInvHolds, PTL DEF Spec, KeyKeepsItsMeaning
-----------------------------------------------------------------------------
(* Every step is one of ApprovedChange, or leaves what it tells of alone. *)

LEMMA SameDocuments ==
    /\ Documents = History!Documents /\ Changes = History!Changes
    /\ \A d, op, part : With(d, op, part) = History!With(d, op, part)
    /\ \A d, op, part : Holds(d, op, part) <=> History!Holds(d, op, part)
    /\ \A d, op, part : Before(d, op, part) = History!Before(d, op, part)
BY DEF Documents, Changes, History!Documents, History!Changes, With, History!With,
       Holds, History!Holds, Before, History!Before

LEMMA NoneAtWork ==
    ASSUME FlowInv, running = "queued"
    PROVE  History!Quiet
BY LanePlaced DEF History!Quiet

LEMMA ApprovedStep ==
    ASSUME FlowInv, [Next]_vars
    PROVE  [History!ChangeNext]_(History!changeVars)
<1>1. CASE ~Moving
    BY <1>1, StillSteps DEF History!changeVars
<1>2. ASSUME NEW token, NEW op, NEW changes, Offering(token, op, changes)
      PROVE  History!Offer(token) /\ token \in Tokens
    <2>1. History!Move(token, "none", "offered") /\ token \in Tokens
        BY <1>2, OfferMoves DEF Offering
    <2>2. /\ op \in Operations /\ changes \in History!Changes /\ UNCHANGED doc
          /\ offers' = offers \cup {[token |-> token, op |-> op, changes |-> changes, on |-> doc]}
        BY <1>2, SameDocuments DEF Offering, PreviewOperation
    <2> QED BY <2>1, <2>2 DEF History!Offer
<1>3. ASSUME NEW token \in Tokens, NEW key \in Keys \cup {NoKey}, Approve(token, key)
      PROVE  History!Accept(token)
    BY <1>3, ApproveMoves DEF Approve, GateOnly, History!Accept, History!Settle
<1>4. CASE ApplyPreview
    <2>1. PICK o \in offers : o.token = Token /\ doc = o.on /\ doc' = With(o.on, o.op, o.changes)
        BY <1>4, ApplyMakes
    <2>2. o \in History!OfferOf(Token) /\ History!Make(o)
        BY <2>1, SameDocuments DEF History!OfferOf, History!Make
    <2>3. History!Change(Token)
        BY <1>4, <2>1, <2>2, ApplyMoves, NoneAtWork DEF History!Change
    <2> QED BY <1>4, <2>3, ApplyMoves DEF History!ChangeNext
<1>5. CASE Rollback
    <2>1. PICK o \in offers : /\ o.token = Token /\ Holds(doc, o.op, o.changes)
                              /\ doc' = With(doc, o.op, Before(o.on, o.op, o.changes))
        BY <1>5, RollbackUndoes
    <2>2. o \in History!OfferOf(Token) /\ History!Undo(o)
        BY <2>1, SameDocuments DEF History!OfferOf, History!Undo
    <2>3. History!Revert(Token)
        BY <1>5, <2>2, RollbackMoves, NoneAtWork DEF History!Revert
    <2> QED BY <1>5, <2>3, RollbackMoves DEF History!ChangeNext
<1>6. CASE FinishApply
    <2>1. History!Keep(Token)
        BY <1>6, FinishMoves DEF FinishApply, History!Keep, History!Settle
    <2> QED BY <1>6, <2>1, FinishMoves DEF History!ChangeNext
<1>7. CASE FinishRollback
    <2>1. History!KeepReverted(Token)
        BY <1>7, FinishMoves DEF FinishRollback, History!KeepReverted, History!Settle
    <2> QED BY <1>7, <2>1, FinishMoves DEF History!ChangeNext
<1>8. CASE FailApply
    <2>1. PICK o \in offers : /\ o.token = Token /\ Holds(doc, o.op, o.changes)
                              /\ doc' = With(doc, o.op, Before(o.on, o.op, o.changes)) /\ doc' = o.on
        BY <1>8, FailUndoes
    <2>2. o \in History!OfferOf(Token) /\ History!Undo(o)
        BY <2>1, SameDocuments DEF History!OfferOf, History!Undo
    <2>3. History!Fail(Token)
        BY <1>8, <2>1, <2>2, FinishMoves DEF History!Fail
    <2> QED BY <1>8, <2>3, FinishMoves DEF History!ChangeNext
<1>9. CASE FailRollback
    <2>1. PICK o \in offers : o.token = Token /\ doc' = With(doc, o.op, o.changes)
        BY <1>9, FailRedoes
    <2>2. o \in History!OfferOf(Token) /\ History!Make(o)
        BY <2>1, SameDocuments DEF History!OfferOf, History!Make
    <2>3. History!Redo(Token)
        BY <1>9, <2>2, FinishMoves DEF History!Redo
    <2> QED BY <1>9, <2>3, FinishMoves DEF History!ChangeNext
<1> QED BY <1>1, <1>2, <1>3, <1>4, <1>5, <1>6, <1>7, <1>8, <1>9 DEF Moving, Offering, History!ChangeNext

\* Tokens that expire, full maps, queues, keys and an audit log that fails notwithstanding,
\* the server and the backend change a document only as ApprovedChange says: by a change that
\* was previewed on exactly this document and accepted, each once, and undone only while
\* nobody has changed the operation since.
THEOREM FlowChangesAsApproved == Spec => ChangesAsApproved
<1>1. Init => History!ChangeInit
    BY SameDocuments, FlowAssumption DEF Init, History!ChangeInit
<1>2. FlowInv /\ [Next]_vars => [History!ChangeNext]_(History!changeVars)
    BY ApprovedStep
<1> QED BY <1>1, <1>2, FlowInvHolds, PTL DEF Spec, ChangesAsApproved, History!ChangeSpec
=============================================================================
