---------------------------- MODULE SettingsProofs --------------------------
(***************************************************************************)
(* Proofs about the options in a uri, for queries of every length.         *)
(***************************************************************************)
EXTENDS Settings, TLAPS

\* k is the last of the pairs before n that sets member m.
DecidesBefore(n, k, m) ==
  /\ k < n /\ query[k].key \in Known /\ Member(query[k].key) = m
  /\ \A l \in DOMAIN query : k < l /\ l < n => Member(query[l].key) # m

On(n, m) ==
  \E k \in DOMAIN query : DecidesBefore(n, k, m) /\ ReadBool(query[k].value)

(* The pairs read so far have decided.                                     *)
SettingsInv ==
  /\ QueriesTyped
  /\ query \in Queries /\ i \in Nat \ {0}
  /\ settings \in [Members -> BOOLEAN]
  /\ pc \in {"query", "pairs", "done"}
  /\ pc = "query" => i = 1 /\ settings = Default
  /\ pc = "pairs" => /\ WellFormed
                     /\ i <= Len(query) + 1
                     /\ \A m \in Members : settings[m] <=> On(i, m)
  /\ pc = "done" => LastPairDecides

LEMMA MembersOfKeys ==
  /\ Default \in [Members -> BOOLEAN]
  /\ \A m \in Members : Default[m] = FALSE
  /\ \A key \in Known : Member(key) \in Members
  /\ \A key : key \notin Known => Member(key) \notin Members
BY DEF Members, Default, Known, Member

LEMMA QueryIsSequence ==
  ASSUME SettingsInv
  PROVE  Len(query) \in Nat /\ DOMAIN query = 1..Len(query)
<1>1. query \in Seq([key : STRING,
                     value : {"true", "false", NoValue} \cup DOMAIN Number])
  BY DEF QueriesTyped, SettingsInv
<1>2. QED
  BY <1>1

(* A pair decides its own member from now on and no other.                 *)
LEMMA PairDecides ==
  ASSUME SettingsInv, NEW m \in Members, i \in DOMAIN query,
         settings[m] <=> On(i, m)
  PROVE  On(i + 1, m) <=>
           IF query[i].key \in Known /\ Member(query[i].key) = m
             THEN ReadBool(query[i].value) ELSE settings[m]
<1>1. i \in Nat /\ \A k \in DOMAIN query : k \in Int
  BY QueryIsSequence DEF SettingsInv
<1>2. CASE query[i].key \in Known /\ Member(query[i].key) = m
  <2>1. \A k \in DOMAIN query : DecidesBefore(i + 1, k, m) <=> k = i
    BY <1>1, <1>2 DEF DecidesBefore
  <2>2. QED
    BY <1>2, <2>1 DEF On
<1>3. CASE ~(query[i].key \in Known /\ Member(query[i].key) = m)
  <2>1. Member(query[i].key) # m
    BY <1>3, MembersOfKeys
  <2>2. \A k \in DOMAIN query : DecidesBefore(i + 1, k, m) <=> DecidesBefore(i, k, m)
    BY <1>1, <2>1 DEF DecidesBefore
  <2>3. On(i + 1, m) <=> On(i, m)
    BY <2>2 DEF On
  <2>4. QED
    BY <1>3, <2>3
<1>4. QED
  BY <1>2, <1>3

(* All pairs read, the last one before the end is the last one.            *)
LEMMA EndDecides ==
  ASSUME SettingsInv, NEW m \in Members
  PROVE  On(Len(query) + 1, m) <=>
           \E k \in DOMAIN query : Decides(k, m) /\ ReadBool(query[k].value)
<1>1. \A k \in DOMAIN query : k \in Int /\ k < Len(query) + 1
  BY QueryIsSequence
<1>2. \A k \in DOMAIN query : DecidesBefore(Len(query) + 1, k, m) <=> Decides(k, m)
  BY <1>1, QueryIsSequence DEF DecidesBefore, Decides
<1>3. QED
  BY <1>2 DEF On

LEMMA SettingsStep == SettingsInv /\ [Next]_vars => SettingsInv'
<1> SUFFICES ASSUME SettingsInv, [Next]_vars PROVE SettingsInv'
  OBVIOUS
<1>1. CASE Skip
  <2>1. \A m \in Members : ~settings[m]
    BY <1>1, MembersOfKeys DEF Skip, SettingsInv
  <2>2. ~(WellFormed /\ \E k \in DOMAIN query : TRUE)
    <3>1. query = <<>> => DOMAIN query = {}
      OBVIOUS
    <3>2. QED
      BY <1>1, <3>1 DEF Skip
  <2>3. LastPairDecides'
    BY <1>1, <2>1, <2>2
    DEF Skip, LastPairDecides, WellFormed, Decides
  <2>4. QED
    BY <1>1, <2>3 DEF Skip, SettingsInv
<1>2. CASE Enter
  <2>1. \A m \in Members : ~On(1, m)
    BY QueryIsSequence DEF On, DecidesBefore
  <2>2. Len(query) \in Nat
    BY QueryIsSequence
  <2>3. \A m \in Members : settings[m] <=> On(i, m)
    BY <1>2, <2>1, MembersOfKeys DEF Enter, SettingsInv
  <2>4. QED
    BY <1>2, <2>2, <2>3
    DEF Enter, SettingsInv, On, DecidesBefore, WellFormed
<1>3. CASE Pair
  <2>1. i \in Nat /\ i + 1 <= Len(query) + 1
    BY <1>3, QueryIsSequence DEF Pair, SettingsInv
  <2>2. settings' \in [Members -> BOOLEAN]
    BY <1>3 DEF Pair, SettingsInv, ReadBool
  <2>3. ASSUME NEW m \in Members PROVE settings'[m] <=> On(i + 1, m)
    <3>1. settings[m] <=> On(i, m)
      BY <1>3 DEF Pair, SettingsInv
    <3>2. settings'[m] <=>
            IF query[i].key \in Known /\ Member(query[i].key) = m
              THEN ReadBool(query[i].value) ELSE settings[m]
      BY <1>3, MembersOfKeys DEF Pair, SettingsInv
    <3>3. QED
      BY <1>3, <3>1, <3>2, PairDecides DEF Pair
  <2>4. \A m \in Members : settings'[m] <=> On(i, m)'
    BY <1>3, <2>3 DEF Pair, On, DecidesBefore
  <2>5. QED
    BY <1>3, <2>1, <2>2, <2>4 DEF Pair, SettingsInv, WellFormed
<1>4. CASE End
  <2>1. i = Len(query) + 1
    BY <1>4, QueryIsSequence DEF End, SettingsInv
  <2>2. \A m \in Members : settings[m] <=>
          \E k \in DOMAIN query : Decides(k, m) /\ ReadBool(query[k].value)
    BY <1>4, <2>1, EndDecides DEF End, SettingsInv
  <2>3. LastPairDecides'
    BY <1>4, <2>2
    DEF End, SettingsInv, LastPairDecides, WellFormed, Decides
  <2>4. QED
    BY <1>4, <2>3 DEF End, SettingsInv
<1>5. CASE UNCHANGED vars
  BY <1>5
  DEF vars, SettingsInv, LastPairDecides, WellFormed, Decides, On, DecidesBefore
<1>6. QED
  BY <1>1, <1>2, <1>3, <1>4, <1>5 DEF Next

(* An option of a uri is on exactly if the last pair that names it is      *)
(* true, for queries of every length and order.                            *)
THEOREM LastPairAlwaysDecides ==
  ASSUME QueriesTyped
  PROVE  Spec => []LastPairDecides
<1>1. Init => SettingsInv
  BY MembersOfKeys, QueriesTyped DEF Init, Start, SettingsInv
<1>2. SettingsInv => LastPairDecides
  BY DEF SettingsInv, LastPairDecides
<1>3. QED
  BY <1>1, <1>2, SettingsStep, PTL DEF Spec
=============================================================================
