-------------------------- MODULE RegistryOpsProofs --------------------------
(***************************************************************************)
(* What each mutator of the registry leaves behind: a well-typed registry, *)
(* and of every sensor the metadata and the control revision.  The proofs  *)
(* about SensorRegistry and about ControlLoop rest on these lemmas.        *)
(***************************************************************************)
EXTENDS RegistryOps, TLAPS

\* The sensors other than s are what they were.
OthersKept(s, reg, new) ==
  \A r \in Sources \ {s} :
    Get(new, r) = Get(reg, r) /\ new.control[r] = reg.control[r]

(* Reading a sensor, configured or not, yields well-typed metadata. *)
LEMMA GetType ==
  ASSUME NEW reg \in Registry, NEW s \in Sources
  PROVE  Get(reg, s) \in Metadata
BY NoneAssumption DEF Get, Registry, Metadata, DefaultMetadata

(* The switch is a Boolean and its command number a natural number. *)
LEMMA SwitchType ==
  ASSUME NEW reg \in Registry, NEW s \in Sources
  PROVE  /\ Get(reg, s).enabled \in BOOLEAN /\ Get(reg, s).retired \in BOOLEAN
         /\ reg.control[s] \in Nat
BY GetType DEF Metadata, Registry

(* observe() records what a producer says of itself and touches no switch. *)
LEMMA ObservedIs ==
  ASSUME NEW reg \in Registry, NEW s \in Sources,
         NEW t \in Types, NEW d \in Devices \cup {None}
  PROVE  /\ Observed(reg, s, t, d) \in Registry
         /\ Observed(reg, s, t, d).control = reg.control
         /\ \A r \in Sources : Get(Observed(reg, s, t, d), r) = Get(reg, r)
<1> DEFINE new == Observed(reg, s, t, d)
<1>1. Described(reg, s, t, d) \in Discovery
  BY NoneAssumption DEF Described, Discovery, Registry
<1>2. new \in Registry
  BY <1>1, GetType DEF Observed, Advance, Registry
<1>3. \A r \in Sources : Get(new, r) = Get(reg, r)
  BY GetType, NoneAssumption DEF Observed, Get, Registry
<1>4. QED
  BY <1>2, <1>3 DEF Observed

(* register() makes an entry of what an absent one already meant. *)
LEMMA RegisteredIs ==
  ASSUME NEW reg \in Registry, NEW s \in Sources, reg.entries[s] = None
  PROVE  /\ Registered(reg, s) \in Registry
         /\ Registered(reg, s).control = reg.control
         /\ \A r \in Sources : Get(Registered(reg, s), r) = Get(reg, r)
<1> DEFINE new == Registered(reg, s)
<1>1. new \in Registry
  BY DEF Registered, Registry, Metadata, DefaultMetadata
<1>2. \A r \in Sources : Get(new, r) = Get(reg, r)
  BY DEF Registered, Get, Registry
<1>3. QED
  BY <1>1, <1>2 DEF Registered

(* retire() switches off, and counts that as a command if it was on. *)
LEMMA RetiredIs ==
  ASSUME NEW reg \in Registry, NEW s \in Sources
  PROVE  /\ Retired(reg, s) \in Registry
         /\ OthersKept(s, reg, Retired(reg, s))
         /\ ~Get(Retired(reg, s), s).enabled /\ Get(Retired(reg, s), s).retired
         /\ Retired(reg, s).control[s] =
              IF Get(reg, s).enabled THEN reg.control[s] + 1 ELSE reg.control[s]
<1> DEFINE new == Retired(reg, s)
           off == [meta |-> Get(reg, s).meta, enabled |-> FALSE, retired |-> TRUE]
<1>1. /\ new.entries = [reg.entries EXCEPT ![s] = off]
      /\ new.control = [reg.control EXCEPT
                          ![s] = IF Get(reg, s).enabled THEN @ + 1 ELSE @]
  BY DEF Retired, Advance
<1>2. off \in Metadata
  BY GetType DEF Metadata
<1>3. new \in Registry
  BY <1>2 DEF Retired, Advance, Registry
<1>4. OthersKept(s, reg, new)
  BY <1>1 DEF OthersKept, Get, Registry
<1>5. Get(new, s) = off
  <2> HIDE DEF off
  <2>1. QED
    BY <1>1, <1>2, NoneAssumption DEF Get, Registry
<1>6. new.control[s] = IF Get(reg, s).enabled THEN reg.control[s] + 1
                                              ELSE reg.control[s]
  BY <1>1 DEF Registry
<1>7. QED
  BY <1>3, <1>4, <1>5, <1>6

(* restore() leaves the sensor switched off. *)
LEMMA RestoredIs ==
  ASSUME NEW reg \in Registry, NEW s \in Sources
  PROVE  /\ Restored(reg, s) \in Registry
         /\ OthersKept(s, reg, Restored(reg, s))
         /\ ~Get(Restored(reg, s), s).enabled /\ ~Get(Restored(reg, s), s).retired
         /\ Restored(reg, s).control = reg.control
<1> DEFINE new == Restored(reg, s)
           off == [meta |-> Get(reg, s).meta, enabled |-> FALSE, retired |-> FALSE]
<1>1. /\ new.entries = [reg.entries EXCEPT ![s] = off]
      /\ new.control = reg.control
  BY DEF Restored
<1>2. off \in Metadata
  BY GetType DEF Metadata
<1>3. new \in Registry
  BY <1>2 DEF Restored, Registry
<1>4. OthersKept(s, reg, new)
  BY <1>1 DEF OthersKept, Get, Registry
<1>5. Get(new, s) = off
  <2> HIDE DEF off
  <2>1. QED
    BY <1>1, <1>2, NoneAssumption DEF Get, Registry
<1>6. QED
  BY <1>1, <1>3, <1>4, <1>5

(* forget() leaves nothing of the sensor. *)
LEMMA ForgottenIs ==
  ASSUME NEW reg \in Registry, NEW s \in Sources
  PROVE  /\ Forgotten(reg, s) \in Registry
         /\ OthersKept(s, reg, Forgotten(reg, s))
         /\ Forgotten(reg, s).entries[s] = None
         /\ Forgotten(reg, s).control[s] = 0
         /\ Get(Forgotten(reg, s), s) = DefaultMetadata
<1>1. Forgotten(reg, s) \in Registry
  BY DEF Forgotten, Registry
<1>2. OthersKept(s, reg, Forgotten(reg, s))
  BY DEF OthersKept, Forgotten, Get, Registry
<1>3. QED
  BY <1>1, <1>2 DEF Forgotten, Get, Registry

(* patch() stores the entry, and counts a flipped switch as a command. *)
LEMMA PatchedIs ==
  ASSUME NEW reg \in Registry, NEW s \in Sources,
         NEW m \in Metas \cup {NoMeta, None}, NEW e \in BOOLEAN \cup {None}
  PROVE  /\ Patched(reg, s, m, e) \in Registry
         /\ OthersKept(s, reg, Patched(reg, s, m, e))
         /\ PatchedEntry(reg, s, m, e) \in Metadata
         /\ Get(Patched(reg, s, m, e), s) = PatchedEntry(reg, s, m, e)
         /\ Patched(reg, s, m, e).control[s] =
              IF PatchedEntry(reg, s, m, e).enabled # Get(reg, s).enabled
              THEN reg.control[s] + 1 ELSE reg.control[s]
<1> DEFINE new == Patched(reg, s, m, e)
           entry == PatchedEntry(reg, s, m, e)
           flips == entry.enabled # Get(reg, s).enabled
<1>1. entry \in Metadata
  BY GetType, NoneAssumption DEF PatchedEntry, Metadata
<1>2. /\ new.entries = [reg.entries EXCEPT ![s] = entry]
      /\ new.control = [reg.control EXCEPT ![s] = IF flips THEN @ + 1 ELSE @]
  BY DEF Patched, Advance
<1>3. new \in Registry
  <2> HIDE DEF entry
  <2>1. QED
    BY <1>1 DEF entry, Patched, Advance, Registry
<1> HIDE DEF new, entry
<1>4. OthersKept(s, reg, new)
  BY <1>2 DEF OthersKept, Get, Registry
<1>5. /\ Get(new, s) = entry
      /\ new.control[s] = IF flips THEN reg.control[s] + 1 ELSE reg.control[s]
  BY <1>1, <1>2, NoneAssumption DEF Get, Registry
<1>6. QED
  BY <1>1, <1>3, <1>4, <1>5 DEF new, entry
=============================================================================
