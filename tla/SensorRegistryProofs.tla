------------------------ MODULE SensorRegistryProofs ------------------------
(***************************************************************************)
(* The properties of SensorRegistry for every set of sensors, types,       *)
(* devices and metadata and with no use of the bound on revisions.         *)
(*                                                                         *)
(* The argument.  What every mutator guarantees of the state it leaves in  *)
(* memory is one predicate, GoodEffect, proved once per mutator; the       *)
(* inductive invariant RegInv says that memory is the committed registry,  *)
(* or one good effect further that the undo record takes back.  Of a       *)
(* bootstrap, read call by call, it says that no part is older than the    *)
(* revision read first, so that a part can disagree with the committed     *)
(* registry only when that revision is no longer the current one.          *)
(***************************************************************************)
EXTENDS SensorRegistry, RegistryOpsProofs

\* What must hold of every registry state, in memory or in the file.
SoundRegistry(reg) ==
  \A s \in Sources :
    /\ ~(Get(reg, s).retired /\ Get(reg, s).enabled)
    /\ Get(reg, s).enabled <=> reg.control[s] % 2 = 0

\* Nothing is kept of a sensor that has no entry.
NothingOfAbsent(reg) ==
  \A s \in Sources :
    reg.entries[s] = None => reg.discovery[s] = None /\ reg.control[s] = 0

\* What a mutator op on source s may do to the registry.
GoodEffect(op, s, old, new) ==
  /\ new \in Registry
  /\ \A g \in BOOLEAN : RolledBack(new, Locals(op, s, old, g)) = old
  /\ new.revision >= old.revision
  /\ new.revision = old.revision => View(new) = View(old)
  /\ SoundRegistry(old) => SoundRegistry(new)
  /\ NothingOfAbsent(old) => NothingOfAbsent(new)
  /\ \A r \in Sources :
       \/ Get(old, r).enabled = Get(new, r).enabled
       \/ new.control[r] > old.control[r]
       \/ Get(old, r).retired /\ new.entries[r] = None

-----------------------------------------------------------------------------
(* The effects, mutator by mutator.                                        *)

(* A command changes the parity of the control revision. *)
LEMMA ParityStep == \A n \in Nat : (n + 1) % 2 = 0 <=> n % 2 # 0
OBVIOUS

(* A mutator that leaves its sensor with an entry keeps nothing of the     *)
(* sensors without one.                                                    *)
LEMMA EntryMade ==
  ASSUME NEW reg \in Registry, NEW s \in Sources, NEW entry \in Metadata, NEW new,
         new.entries = [reg.entries EXCEPT ![s] = entry],
         \A r \in Sources \ {s} : /\ new.discovery[r] = reg.discovery[r]
                                  /\ new.control[r] = reg.control[r]
  PROVE  NothingOfAbsent(reg) => NothingOfAbsent(new)
<1>1. new.entries[s] # None
  BY NoneAssumption DEF Registry
<1>2. \A r \in Sources \ {s} : new.entries[r] = reg.entries[r]
  BY DEF Registry
<1>3. QED
  BY <1>1, <1>2 DEF NothingOfAbsent

(* What observing a sensor does to the registry. *)
LEMMA ObservedEffect ==
  ASSUME NEW reg \in Registry, NEW s \in Sources,
         NEW t \in Types, NEW d \in Devices \cup {None}
  PROVE  GoodEffect("observe", s, reg, Observed(reg, s, t, d))
<1> DEFINE new == Observed(reg, s, t, d)
<1>1. new \in Registry /\ new.control = reg.control
  BY ObservedIs
<1>2. \A g \in BOOLEAN : RolledBack(new, Locals("observe", s, reg, g)) = reg
  BY DEF Observed, RolledBack, Locals, Registry
<1>3. \A r \in Sources : Get(new, r) = Get(reg, r)
  BY ObservedIs
<1>4. new.revision >= reg.revision
  BY DEF Observed, Advance, Registry
<1>5. new.revision = reg.revision => View(new) = View(reg)
  <2>1. SUFFICES ASSUME new.revision = reg.revision
                 PROVE  View(new) = View(reg)
    OBVIOUS
  <2>2. reg.discovery[s] = Described(reg, s, t, d)
    BY <2>1 DEF Observed, Advance, Registry
  <2>3. new.discovery = reg.discovery /\ new.control = reg.control
    BY <2>2 DEF Observed, Registry
  <2>4. QED
    BY <1>3, <2>3 DEF View
<1>6. SoundRegistry(reg) => SoundRegistry(new)
  BY <1>1, <1>3 DEF SoundRegistry
<1>7. NothingOfAbsent(reg) => NothingOfAbsent(new)
  <2>1. /\ Get(reg, s) \in Metadata
        /\ new.entries = [reg.entries EXCEPT ![s] = Get(reg, s)]
        /\ \A r \in Sources \ {s} : /\ new.discovery[r] = reg.discovery[r]
                                    /\ new.control[r] = reg.control[r]
    BY GetType DEF Observed, Registry
  <2>2. QED
    BY <2>1, EntryMade
<1>8. QED
  BY <1>1, <1>2, <1>3, <1>4, <1>5, <1>6, <1>7 DEF GoodEffect

(* What registering a sensor does to the registry. *)
LEMMA RegisteredEffect ==
  ASSUME NEW reg \in Registry, NEW s \in Sources, reg.entries[s] = None
  PROVE  GoodEffect("register", s, reg, Registered(reg, s))
<1> DEFINE new == Registered(reg, s)
<1>1. new \in Registry /\ new.control = reg.control
  BY RegisteredIs
<1>2. \A g \in BOOLEAN : RolledBack(new, Locals("register", s, reg, g)) = reg
  BY DEF Registered, RolledBack, Locals, Registry
<1>3. \A r \in Sources : Get(new, r) = Get(reg, r)
  BY RegisteredIs
<1>4. new.revision > reg.revision
  BY DEF Registered, Registry
<1>5. SoundRegistry(reg) => SoundRegistry(new)
  BY <1>1, <1>3 DEF SoundRegistry
<1>6. NothingOfAbsent(reg) => NothingOfAbsent(new)
  <2>1. /\ DefaultMetadata \in Metadata
        /\ new.entries = [reg.entries EXCEPT ![s] = DefaultMetadata]
        /\ new.discovery = reg.discovery /\ new.control = reg.control
    BY DEF Registered, DefaultMetadata, Metadata
  <2>2. QED
    BY <2>1, EntryMade
<1>7. QED
  BY <1>1, <1>2, <1>3, <1>4, <1>5, <1>6 DEF GoodEffect, Registry

(* What retiring a sensor does to the registry. *)
LEMMA RetiredEffect ==
  ASSUME NEW reg \in Registry, NEW s \in Sources
  PROVE  GoodEffect("retire", s, reg, Retired(reg, s))
<1> DEFINE new == Retired(reg, s)
<1>1. new \in Registry
  BY RetiredIs
<1>2. \A g \in BOOLEAN : RolledBack(new, Locals("retire", s, reg, g)) = reg
  BY DEF Retired, RolledBack, Locals, Registry
<1>3. new.revision > reg.revision
  BY DEF Retired, Registry
<1>4. \A r \in Sources \ {s} :
         Get(new, r) = Get(reg, r) /\ new.control[r] = reg.control[r]
  BY RetiredIs DEF OthersKept
<1>5. /\ ~Get(new, s).enabled /\ Get(new, s).retired
      /\ new.control[s] = IF Get(reg, s).enabled
                          THEN reg.control[s] + 1 ELSE reg.control[s]
  BY RetiredIs
<1> HIDE DEF new
<1>6. SoundRegistry(reg) => SoundRegistry(new)
  BY <1>4, <1>5, ParityStep DEF SoundRegistry, Advance, Registry
<1>7. \A r \in Sources : \/ Get(reg, r).enabled = Get(new, r).enabled
                         \/ new.control[r] > reg.control[r]
  <2>1. reg.control[s] \in Nat /\ Get(reg, s).enabled \in BOOLEAN
    BY GetType DEF Registry, Metadata
  <2>2. CASE Get(reg, s).enabled
    <3>1. new.control[s] > reg.control[s]
      BY <1>5, <2>1, <2>2
    <3>2. QED
      BY <1>4, <3>1
  <2>3. CASE ~Get(reg, s).enabled
    <3>1. Get(new, s).enabled \in BOOLEAN
      BY <1>1, GetType DEF Metadata
    <3>2. Get(reg, s).enabled = Get(new, s).enabled
      BY <1>5, <2>1, <2>3, <3>1
    <3>3. QED
      BY <1>4, <3>2
  <2>4. QED
    BY <2>2, <2>3
<1>8. NothingOfAbsent(reg) => NothingOfAbsent(new)
  <2> DEFINE off == [meta |-> Get(reg, s).meta, enabled |-> FALSE, retired |-> TRUE]
  <2>1. off \in Metadata
    BY GetType DEF Metadata
  <2>2. /\ new.entries = [reg.entries EXCEPT ![s] = off]
        /\ new.discovery = reg.discovery
    BY DEF new, Retired
  <2> HIDE DEF off
  <2>3. QED
    BY <1>4, <2>1, <2>2, EntryMade
<1>9. QED
  BY <1>1, <1>2, <1>3, <1>6, <1>7, <1>8 DEF GoodEffect, Registry, new

(* What restoring a sensor does to the registry. *)
LEMMA RestoredEffect ==
  ASSUME NEW reg \in Registry, NEW s \in Sources, Get(reg, s).retired,
         SoundRegistry(reg)
  PROVE  GoodEffect("restore", s, reg, Restored(reg, s))
<1> DEFINE new == Restored(reg, s)
<1>1. new \in Registry /\ new.control = reg.control
  BY RestoredIs
<1>2. \A g \in BOOLEAN : RolledBack(new, Locals("restore", s, reg, g)) = reg
  BY DEF Restored, RolledBack, Locals, Registry
<1>3. new.revision > reg.revision
  BY DEF Restored, Registry
<1>4. \A r \in Sources \ {s} : Get(new, r) = Get(reg, r)
  BY RestoredIs DEF OthersKept
<1>5. ~Get(new, s).enabled /\ ~Get(reg, s).enabled
  BY RestoredIs DEF SoundRegistry
<1> HIDE DEF new
<1>6. Get(new, s).enabled = Get(reg, s).enabled
  <2>1. Get(new, s) \in Metadata /\ Get(reg, s) \in Metadata
    BY <1>1, GetType
  <2>2. QED
    BY <1>5, <2>1 DEF Metadata
<1>7. SoundRegistry(new)
  BY <1>1, <1>4, <1>5, <1>6 DEF SoundRegistry
<1>8. NothingOfAbsent(reg) => NothingOfAbsent(new)
  <2> DEFINE off == [meta |-> Get(reg, s).meta, enabled |-> FALSE, retired |-> FALSE]
  <2>1. off \in Metadata
    BY GetType DEF Metadata
  <2>2. /\ new.entries = [reg.entries EXCEPT ![s] = off]
        /\ new.discovery = reg.discovery
    BY DEF new, Restored
  <2> HIDE DEF off
  <2>3. QED
    BY <1>1, <2>1, <2>2, EntryMade
<1>9. QED
  BY <1>1, <1>2, <1>3, <1>4, <1>6, <1>7, <1>8 DEF GoodEffect, Registry, new

(* What forgetting a sensor does to the registry. *)
LEMMA ForgottenEffect ==
  ASSUME NEW reg \in Registry, NEW s \in Sources, Get(reg, s).retired
  PROVE  GoodEffect("forget", s, reg, Forgotten(reg, s))
<1> DEFINE new == Forgotten(reg, s)
<1>1. new \in Registry
  BY ForgottenIs
<1>2. \A g \in BOOLEAN : RolledBack(new, Locals("forget", s, reg, g)) = reg
  BY DEF Forgotten, RolledBack, Locals, Registry
<1>3. new.revision > reg.revision
  BY DEF Forgotten, Registry
<1>4. \A r \in Sources \ {s} :
         Get(new, r) = Get(reg, r) /\ new.control[r] = reg.control[r]
  BY ForgottenIs DEF OthersKept
<1>5. /\ new.entries[s] = None
      /\ new.control[s] = 0
      /\ Get(new, s) = DefaultMetadata
  BY ForgottenIs
<1>6. SoundRegistry(reg) => SoundRegistry(new)
  <2>1. Get(new, s).enabled /\ ~Get(new, s).retired /\ 0 % 2 = 0
    BY <1>5 DEF DefaultMetadata
  <2>2. QED
    BY <1>4, <1>5, <2>1 DEF SoundRegistry
<1>7. NothingOfAbsent(reg) => NothingOfAbsent(new)
  BY DEF NothingOfAbsent, Forgotten, Registry
<1>8. QED
  BY <1>1, <1>2, <1>3, <1>4, <1>5, <1>6, <1>7 DEF GoodEffect, Registry

(* What patching a sensor does to the registry. *)
LEMMA PatchedEffect ==
  ASSUME NEW reg \in Registry, NEW s \in Sources,
         NEW m \in Metas \cup {NoMeta, None}, NEW e \in BOOLEAN \cup {None},
         ~PatchRefused(reg, s, e)
  PROVE  GoodEffect("patch", s, reg, Patched(reg, s, m, e))
<1> DEFINE new == Patched(reg, s, m, e)
           entry == PatchedEntry(reg, s, m, e)
           flips == entry.enabled # Get(reg, s).enabled
<1>1. entry \in Metadata /\ new \in Registry
  BY PatchedIs
<1>2. /\ new.entries = [reg.entries EXCEPT ![s] = entry]
      /\ new.discovery = reg.discovery
      /\ new.control = [reg.control EXCEPT ![s] = IF flips THEN @ + 1 ELSE @]
      /\ new.revision = IF entry # Get(reg, s) THEN reg.revision + 1
                                                ELSE reg.revision
  BY DEF Patched, Advance, Registry
<1>3. \A r \in Sources \ {s} :
         Get(new, r) = Get(reg, r) /\ new.control[r] = reg.control[r]
  BY PatchedIs DEF OthersKept
<1>4. /\ Get(new, s) = entry
      /\ new.control[s] = IF flips THEN reg.control[s] + 1
                                   ELSE reg.control[s]
  BY PatchedIs
<1> HIDE DEF new, entry
<1>5. \A g \in BOOLEAN : RolledBack(new, Locals("patch", s, reg, g)) = reg
  BY <1>2 DEF RolledBack, Locals, Registry
<1>6. new.revision >= reg.revision
  BY <1>2 DEF Advance, Registry
<1>7. new.revision = reg.revision => View(new) = View(reg)
  <2>1. SUFFICES ASSUME new.revision = reg.revision
                 PROVE  View(new) = View(reg)
    OBVIOUS
  <2>2. entry = Get(reg, s)
    BY <1>2, <2>1 DEF Advance, Registry
  <2>3. \A r \in Sources : Get(new, r) = Get(reg, r)
    BY <1>3, <1>4, <2>2
  <2>4. new.control = reg.control /\ new.discovery = reg.discovery
    BY <1>2, <2>2 DEF Advance, Registry
  <2>5. QED
    BY <2>3, <2>4 DEF View
<1>8. SoundRegistry(reg) => SoundRegistry(new)
  <2>1. SUFFICES ASSUME SoundRegistry(reg)
                 PROVE  SoundRegistry(new)
    OBVIOUS
  <2>2. ~(entry.retired /\ entry.enabled)
    BY <2>1, NoneAssumption DEF entry, PatchedEntry, PatchRefused, SoundRegistry
  <2>3. entry.enabled <=> new.control[s] % 2 = 0
    BY <1>1, <1>4, <2>1, ParityStep, GetType
    DEF SoundRegistry, Advance, Registry, Metadata
  <2>4. QED
    BY <1>3, <1>4, <2>1, <2>2, <2>3 DEF SoundRegistry
<1>9. \A r \in Sources : \/ Get(reg, r).enabled = Get(new, r).enabled
                          \/ new.control[r] > reg.control[r]
  <2>1. reg.control[s] \in Nat
    BY DEF Registry
  <2>2. CASE flips
    <3>1. new.control[s] > reg.control[s]
      BY <1>4, <2>1, <2>2
    <3>2. QED
      BY <1>3, <3>1
  <2>3. CASE ~flips
    BY <1>3, <1>4, <2>3
  <2>4. QED
    BY <2>2, <2>3
<1>10. NothingOfAbsent(reg) => NothingOfAbsent(new)
  <2>1. /\ new.entries = [reg.entries EXCEPT ![s] = entry]
        /\ \A r \in Sources \ {s} : /\ new.discovery[r] = reg.discovery[r]
                                    /\ new.control[r] = reg.control[r]
    BY <1>2, <1>3
  <2>2. QED
    BY <1>1, <2>1, EntryMade
<1>11. QED
  BY <1>1, <1>5, <1>6, <1>7, <1>8, <1>9, <1>10 DEF GoodEffect, new

-----------------------------------------------------------------------------
(* The inductive invariant.                                                *)

\* While a change is being saved, it is one that undo can take back.
InFlight ==
  ~Unlocked =>
    /\ Committed \in Registry
    /\ SoundRegistry(Committed)
    /\ NothingOfAbsent(Committed)
    /\ mem.revision >= Committed.revision
    /\ mem.revision = Committed.revision => View(mem) = View(Committed)
    /\ \A s \in Sources :
         \/ Get(Committed, s).enabled = Get(mem, s).enabled
         \/ mem.control[s] > Committed.control[s]
         \/ Get(Committed, s).retired /\ mem.entries[s] = None

\* What a bootstrap has read of sensor s is what is committed.
Agrees(s) ==
  /\ seen.todo[s] # "metadata" =>
       seen.view.metadata[s] = Get(Committed, s)
  /\ seen.todo[s] \in {"discovery", "nothing"} =>
       seen.view.control[s] = Committed.control[s]
  /\ seen.todo[s] = "nothing" =>
       seen.view.discovery[s] = Committed.discovery[s]

\* The bootstraps whose revision says something of what they show: those
\* begun since the last restart and, with a file, the complete ones as well.
Vouched ==
  \/ seen.stage \in {"list", "catalog"}
  \/ seen.stage = "fetched" /\ Persistent /\ Quotes = "bootstrap"

\* No part of a bootstrap is older than its revision.
SeenIsPast ==
  /\ seen.stage = "list" => seen.view = NotFetched.view
  /\ seen.stage = "fetched" => seen.todo = NotFetched.todo
  /\ Vouched => seen.revision <= Committed.revision
  /\ Vouched /\ seen.stage # "list" /\ seen.revision = Committed.revision =>
       \A s \in Sources : Agrees(s)

GuardHeld ==
  Persistent /\ Quotes = "bootstrap" /\ ~Unlocked /\ undo.guarded =>
    seen.view = View(Committed)

SoundView == \A s \in Sources :
  ~(seen.view.metadata[s].retired /\ seen.view.metadata[s].enabled)

RegInv ==
  /\ TypeOK
  /\ SoundRegistry(mem)
  /\ SoundRegistry(disk)
  /\ NothingOfAbsent(mem)
  /\ NothingOfAbsent(disk)
  /\ SoundView
  /\ Persistent => Committed = disk
  /\ InFlight
  /\ SeenIsPast
  /\ GuardHeld

(* What an operator is shown of a sensor is well typed. *)
LEMMA ViewType == ASSUME NEW reg \in Registry PROVE View(reg) \in Views
BY GetType DEF View, Registry, Views

(* Two registries that show the same agree on every sensor. *)
LEMMA SameView ==
  ASSUME NEW reg, NEW new, View(reg) = View(new), NEW s \in Sources
  PROVE  /\ Get(new, s) = Get(reg, s)
         /\ new.control[s] = reg.control[s] /\ new.discovery[s] = reg.discovery[s]
<1>1. /\ View(reg).metadata[s] = Get(reg, s) /\ View(new).metadata[s] = Get(new, s)
      /\ View(reg).control = reg.control /\ View(new).control = new.control
      /\ View(reg).discovery = reg.discovery /\ View(new).discovery = new.discovery
  BY DEF View
<1>2. QED
  BY <1>1

(* A saved rollback is never mistaken for none. *)
LEMMA NoneIsNoUndo == ASSUME NEW u \in Undo PROVE u # None
BY NothingAssumption

(* What is committed is a sound registry, whether or not a change is being *)
(* saved.                                                                  *)
LEMMA CommittedIsSound ==
  ASSUME RegInv
  PROVE  /\ Committed \in Registry
         /\ SoundRegistry(Committed) /\ NothingOfAbsent(Committed)
<1>1. CASE Unlocked
  BY <1>1 DEF RegInv, TypeOK, Committed
<1>2. CASE ~Unlocked
  BY <1>2 DEF RegInv, InFlight
<1>3. QED
  BY <1>1, <1>2

(* The initial state satisfies the invariant. *)
LEMMA InitRegInv == Init => RegInv
<1> SUFFICES ASSUME Init PROVE RegInv
  OBVIOUS
<1>1. EmptyRegistry \in Registry
  BY DEF EmptyRegistry, Registry
<1>2. TypeOK
  <2>1. seen.stage = "none" /\ seen = NotFetched
    BY DEF Init, NotFetched
  <2>2. NotFetched.view \in Views /\ NotFetched.todo \in [Sources -> Reads]
    BY <1>1, ViewType DEF NotFetched, Reads
  <2>3. seen \in Bootstraps
    BY <2>1, <2>2 DEF NotFetched, Bootstraps
  <2>4. QED
    BY <1>1, <2>3 DEF Init, TypeOK
<1>3. \A s \in Sources : /\ Get(EmptyRegistry, s) = DefaultMetadata
                         /\ EmptyRegistry.control[s] = 0
  BY DEF EmptyRegistry, Get
<1>4. DefaultMetadata.enabled /\ ~DefaultMetadata.retired /\ 0 % 2 = 0
  BY DEF DefaultMetadata
<1>5. SoundRegistry(EmptyRegistry) /\ NothingOfAbsent(EmptyRegistry)
  BY <1>3, <1>4 DEF SoundRegistry, NothingOfAbsent, EmptyRegistry
<1>6. SoundView
  BY <1>3, <1>4 DEF SoundView, Init, NotFetched, View
<1>7. InFlight /\ SeenIsPast /\ GuardHeld /\ Committed = disk
  BY DEF InFlight, SeenIsPast, GuardHeld, Init, Unlocked, Committed, NotFetched,
         Vouched
<1>8. QED
  BY <1>2, <1>5, <1>6, <1>7 DEF RegInv, Init

(* A bootstrap that is left as it is stays sound when a change is          *)
(* committed: the revision then is larger, or the change shows nowhere.    *)
LEMMA SeenStaysPast ==
  ASSUME RegInv, seen' = seen, Committed' \in Registry,
         Committed'.revision >= Committed.revision,
         Committed'.revision = Committed.revision => View(Committed') = View(Committed)
  PROVE  SeenIsPast'
<1>1. /\ Committed.revision \in Nat /\ Committed'.revision \in Nat
      /\ seen.revision \in Nat
  BY CommittedIsSound DEF RegInv, TypeOK, Registry, Bootstraps
<1>2. Vouched' = Vouched
  BY DEF Vouched
<1>3. (Vouched => seen.revision <= Committed.revision)'
  BY <1>1, <1>2 DEF RegInv, SeenIsPast
<1>4. ASSUME Vouched, seen.stage # "list", seen.revision = Committed'.revision,
             NEW s \in Sources
      PROVE  Agrees(s)'
  <2>1. seen.revision = Committed.revision /\ View(Committed') = View(Committed)
    BY <1>1, <1>4 DEF RegInv, SeenIsPast
  <2>2. Agrees(s)
    BY <1>4, <2>1 DEF RegInv, SeenIsPast
  <2>3. /\ Get(Committed', s) = Get(Committed, s)
        /\ Committed'.control[s] = Committed.control[s]
        /\ Committed'.discovery[s] = Committed.discovery[s]
    BY <2>1, SameView
  <2>4. QED
    BY <2>2, <2>3 DEF Agrees
<1>5. QED
  BY <1>2, <1>3, <1>4 DEF RegInv, SeenIsPast

(* Every mutator that prepares a write preserves the invariant, and        *)
(* commits nothing yet.                                                    *)
LEMMA BeginRegInv ==
  ASSUME RegInv, NEW op \in {"observe", "register", "retire", "restore",
                             "forget", "patch"},
         NEW s \in Sources, NEW g \in BOOLEAN, NEW effect,
         Begin(op, s, g, effect), GoodEffect(op, s, mem, effect)
  PROVE  RegInv' /\ Committed' = Committed /\ seen' = seen
<1>1. /\ mem \in Registry /\ mem' \in Registry /\ undo = None
      /\ mem' = effect /\ undo' = Locals(op, s, mem, g)
      /\ disk' = disk /\ seen' = seen /\ reply' = reply
  BY DEF RegInv, TypeOK, Begin, GoodEffect, Unlocked
<1>2. Locals(op, s, mem, g) \in Undo
  BY <1>1 DEF Locals, Undo, Registry
<1>3. Unlocked /\ ~Unlocked'
  BY <1>1, <1>2, NoneIsNoUndo DEF Unlocked
<1>4. Committed = mem /\ Committed' = mem
  BY <1>1, <1>3 DEF Committed, GoodEffect
<1>5. TypeOK'
  BY <1>1, <1>2 DEF RegInv, TypeOK
<1>6. /\ SoundRegistry(mem') /\ SoundRegistry(disk')
      /\ NothingOfAbsent(mem') /\ NothingOfAbsent(disk')
      /\ SoundView' /\ (Persistent => Committed' = disk')
  BY <1>1, <1>4 DEF RegInv, GoodEffect, SoundView
<1>7. InFlight'
  BY <1>1, <1>4 DEF InFlight, GoodEffect, RegInv
<1>8. SeenIsPast'
  BY <1>1, <1>4, SeenStaysPast DEF Registry
<1>9. GuardHeld'
  <2>1. SUFFICES ASSUME Persistent, Quotes = "bootstrap", g
                 PROVE  seen.view = View(mem)
    BY <1>1, <1>4 DEF GuardHeld, Locals
  <2>2. seen.stage = "fetched" /\ seen.revision = Committed.revision
    BY <1>4, <2>1 DEF Begin, RevisionExpected
  <2>3. \A r \in Sources : Agrees(r) /\ seen.todo[r] = "nothing"
    BY <2>1, <2>2 DEF RegInv, SeenIsPast, Vouched, NotFetched
  <2>4. \A r \in Sources : /\ seen.view.metadata[r] = Get(mem, r)
                           /\ seen.view.control[r] = mem.control[r]
                           /\ seen.view.discovery[r] = mem.discovery[r]
    BY <1>4, <2>3 DEF Agrees
  <2>5. seen.view \in Views /\ View(mem) \in Views
    BY <1>1, ViewType DEF RegInv, TypeOK, Bootstraps
  <2>6. /\ seen.view.metadata = View(mem).metadata
        /\ seen.view.control = View(mem).control
        /\ seen.view.discovery = View(mem).discovery
    BY <1>1, <2>4, <2>5 DEF Views, View, Registry
  <2>7. QED
    BY <2>5, <2>6 DEF Views
<1>10. RegInv'
  BY <1>5, <1>6, <1>7, <1>8, <1>9 DEF RegInv
<1>11. QED
  BY <1>1, <1>4, <1>10

(* The mutators, one by one, preserve the invariant. *)
LEMMA MutateRegInv ==
  ASSUME RegInv, Mutate
  PROVE  RegInv'
<1>0. mem \in Registry /\ SoundRegistry(mem)
  BY DEF RegInv, TypeOK
<1>1. PICK s \in Sources :
         \/ \E t \in Types, d \in Devices \cup {None} : Observe(s, t, d)
         \/ EnsureRegistered(s)
         \/ \E guarded \in BOOLEAN : Operator(s, guarded)
  BY DEF Mutate
<1>2. ASSUME NEW t \in Types, NEW d \in Devices \cup {None}, Observe(s, t, d)
      PROVE  RegInv'
  BY <1>0, <1>2, ObservedEffect, BeginRegInv DEF Observe
<1>3. CASE EnsureRegistered(s)
  BY <1>0, <1>3, RegisteredEffect, BeginRegInv DEF EnsureRegistered
<1>4. ASSUME NEW g \in BOOLEAN, Retire(s, g) PROVE RegInv'
  BY <1>0, <1>4, RetiredEffect, BeginRegInv DEF Retire
<1>5. ASSUME NEW g \in BOOLEAN, Restore(s, g) PROVE RegInv'
  BY <1>0, <1>5, RestoredEffect, BeginRegInv DEF Restore
<1>6. ASSUME NEW g \in BOOLEAN, Forget(s, g) PROVE RegInv'
  BY <1>0, <1>6, ForgottenEffect, BeginRegInv DEF Forget
<1>7. ASSUME NEW g \in BOOLEAN, NEW m \in Metas \cup {NoMeta, None},
             NEW e \in BOOLEAN \cup {None}, Patch(s, m, e, g)
      PROVE  RegInv'
  BY <1>0, <1>7, PatchedEffect, BeginRegInv DEF Patch
<1>8. QED
  BY <1>1, <1>2, <1>3, <1>4, <1>5, <1>6, <1>7 DEF Operator

(* A write that succeeds commits what is in memory. *)
LEMMA SaveRegInv ==
  ASSUME RegInv, SaveSucceeds
  PROVE  RegInv'
<1>1. /\ mem' = mem /\ undo' = None /\ seen' = seen
      /\ disk' = IF Persistent THEN mem ELSE disk
      /\ ~Unlocked
  BY DEF SaveSucceeds
<1>2. Unlocked' /\ Committed' = mem
  BY <1>1 DEF Unlocked, Committed
<1>3. mem \in Registry /\ mem.revision \in Nat
  BY DEF RegInv, TypeOK, Registry
<1>4. TypeOK'
  <2>1. reply' \in Nat \cup {None}
    BY <1>3 DEF SaveSucceeds, RegInv, TypeOK
  <2>2. QED
    BY <1>1, <2>1 DEF RegInv, TypeOK
<1>5. /\ SoundRegistry(mem') /\ SoundRegistry(disk')
      /\ NothingOfAbsent(mem') /\ NothingOfAbsent(disk')
      /\ SoundView' /\ (Persistent => Committed' = disk')
  BY <1>1, <1>2 DEF RegInv, SoundView
<1>6. InFlight' /\ GuardHeld'
  BY <1>2 DEF InFlight, GuardHeld
<1>7. SeenIsPast'
  BY <1>1, <1>2, <1>3, SeenStaysPast DEF RegInv, InFlight
<1>8. QED
  BY <1>4, <1>5, <1>6, <1>7 DEF RegInv

(* A write that fails leaves what was committed before. *)
LEMMA FailRegInv ==
  ASSUME RegInv, SaveFails
  PROVE  RegInv' /\ Committed' = Committed /\ seen' = seen
<1>1. /\ mem' = Committed /\ undo' = None /\ seen' = seen /\ disk' = disk
      /\ reply' = reply
      /\ ~Unlocked
  BY DEF SaveFails, Committed
<1>2. Unlocked' /\ Committed' = Committed
  BY <1>1 DEF Unlocked, Committed
<1>3. TypeOK'
  BY <1>1, CommittedIsSound DEF RegInv, TypeOK
<1>4. /\ SoundRegistry(mem') /\ SoundRegistry(disk')
      /\ NothingOfAbsent(mem') /\ NothingOfAbsent(disk')
      /\ SoundView' /\ (Persistent => Committed' = disk')
  BY <1>1, <1>2, CommittedIsSound DEF RegInv, SoundView
<1>5. InFlight' /\ GuardHeld'
  BY <1>2 DEF InFlight, GuardHeld
<1>6. SeenIsPast'
  BY <1>1, <1>2, CommittedIsSound, SeenStaysPast DEF Registry
<1>7. QED
  BY <1>1, <1>2, <1>3, <1>4, <1>5, <1>6 DEF RegInv

(* A bootstrap that was not complete when the service died is gone; the    *)
(* others keep to the file.                                                *)
LEMMA RestartRegInv ==
  ASSUME RegInv, CrashAndRestart
  PROVE  RegInv'
<1>1. /\ mem' = disk /\ undo' = None /\ disk' = disk /\ reply' = None
      /\ seen' = IF seen.stage = "fetched" THEN seen ELSE NotFetched
  BY DEF CrashAndRestart
<1>2. Unlocked' /\ Committed' = disk
  BY <1>1 DEF Unlocked, Committed
<1>3. NotFetched.view = View(EmptyRegistry) /\ EmptyRegistry \in Registry
  BY DEF NotFetched, EmptyRegistry, Registry
<1>4. TypeOK'
  <2>1. NotFetched \in Bootstraps
    BY <1>3, ViewType DEF NotFetched, Reads, Bootstraps
  <2>2. QED
    BY <1>1, <2>1 DEF RegInv, TypeOK
<1>5. /\ SoundRegistry(mem') /\ SoundRegistry(disk')
      /\ NothingOfAbsent(mem') /\ NothingOfAbsent(disk')
      /\ (Persistent => Committed' = disk')
  BY <1>1, <1>2 DEF RegInv
<1>6. SoundView'
  <2>1. \A s \in Sources : ~NotFetched.view.metadata[s].retired
    BY DEF NotFetched, View, EmptyRegistry, Get, DefaultMetadata
  <2>2. QED
    BY <1>1, <2>1 DEF RegInv, SoundView
<1>7. InFlight' /\ GuardHeld'
  BY <1>2 DEF InFlight, GuardHeld
<1>8. SeenIsPast'
  <2>1. CASE seen.stage # "fetched"
    <3>1. seen'.stage = "none"
      BY <1>1, <2>1 DEF NotFetched
    <3>2. QED
      BY <3>1 DEF SeenIsPast, Vouched
  <2>2. CASE seen.stage = "fetched" /\ Persistent
    <3>1. seen' = seen /\ Committed' = Committed
      BY <1>1, <1>2, <2>2 DEF RegInv
    <3>2. QED
      BY <3>1, CommittedIsSound, SeenStaysPast DEF Registry
  <2>3. CASE seen.stage = "fetched" /\ ~Persistent
    <3>1. seen' = seen /\ ~Vouched'
      BY <1>1, <2>3 DEF Vouched
    <3>2. QED
      BY <2>3, <3>1 DEF SeenIsPast, RegInv
  <2>4. QED
    BY <2>1, <2>2, <2>3
<1>9. QED
  BY <1>4, <1>5, <1>6, <1>7, <1>8 DEF RegInv

(* A step that changes neither the registry nor a bootstrap. *)
LEMMA IdleRegInv ==
  ASSUME RegInv, UNCHANGED <<mem, disk, undo, seen>>, TypeOK'
  PROVE  RegInv' /\ Committed' = Committed
<1>1. Unlocked' = Unlocked /\ Committed' = Committed
  BY DEF Unlocked, Committed
<1>2. InFlight' /\ GuardHeld' /\ SoundView'
  BY <1>1 DEF RegInv, InFlight, GuardHeld, SoundView
<1>3. SeenIsPast'
  BY <1>1, CommittedIsSound, SeenStaysPast DEF Registry
<1>4. QED
  BY <1>1, <1>2, <1>3 DEF RegInv

(* What one locked read of a bootstrap must make of it.                    *)
LEMMA ReadingRegInv ==
  ASSUME RegInv, NEW stage, NEW new, Reading(stage, new),
         new \in Bootstraps,
         (SoundView /\ SeenIsPast)'
  PROVE  RegInv' /\ Committed' = Committed /\ Committed = mem
<1>1. /\ mem' = mem /\ disk' = disk /\ undo' = undo /\ reply' = reply
      /\ seen' = new /\ Unlocked
  BY DEF Reading
<1>2. Unlocked' /\ Committed' = mem /\ Committed = mem
  BY <1>1 DEF Unlocked, Committed
<1>3. TypeOK'
  BY <1>1 DEF RegInv, TypeOK
<1>4. InFlight' /\ GuardHeld'
  BY <1>2 DEF InFlight, GuardHeld
<1>5. QED
  BY <1>1, <1>2, <1>3, <1>4 DEF RegInv

(* The first read: the revision. *)
LEMMA BootstrapRegInv ==
  ASSUME RegInv, Bootstrap
  PROVE  RegInv' /\ Committed' = Committed /\ seen'.stage = "list"
<1> DEFINE new == [NotFetched EXCEPT !.stage = "list", !.revision = mem.revision]
<1>1. PICK stage \in {"none", "fetched"} : Reading(stage, new)
  BY DEF Bootstrap
<1>2. Unlocked /\ seen' = new /\ mem' = mem /\ undo' = undo
  BY <1>1 DEF Reading
<1>3. mem.revision \in Nat /\ EmptyRegistry \in Registry
  BY DEF RegInv, TypeOK, Registry, EmptyRegistry
<1>4. /\ new.stage = "list" /\ new.revision = mem.revision
      /\ new.view = NotFetched.view
  BY DEF NotFetched
<1>5. NotFetched \in Bootstraps
  BY <1>3, ViewType DEF NotFetched, Reads, Bootstraps
<1>6. new \in Bootstraps
  BY <1>3, <1>5 DEF Bootstraps
<1> HIDE DEF new
<1>7. SoundView'
  <2>1. \A s \in Sources : ~NotFetched.view.metadata[s].retired
    BY DEF NotFetched, View, EmptyRegistry, Get, DefaultMetadata
  <2>2. QED
    BY <1>2, <1>4, <2>1 DEF SoundView
<1>8. SeenIsPast'
  <2>1. Committed' = mem
    BY <1>2 DEF Committed, Unlocked
  <2>2. QED
    BY <1>2, <1>3, <1>4, <2>1 DEF SeenIsPast
<1>9. QED
  BY <1>1, <1>2, <1>4, <1>6, <1>7, <1>8, ReadingRegInv

(* The second: of a sensor that is not listed nothing is kept, so the      *)
(* defaults a UI assumes of it are right.                                  *)
LEMMA ListRegInv ==
  ASSUME RegInv, NEW rows \in SUBSET Sources, ListSources(rows)
  PROVE  RegInv' /\ Committed' = Committed /\ seen'.stage = "catalog"
<1> DEFINE todo == [s \in Sources |-> IF mem.entries[s] # None \/ s \in rows
                                      THEN "metadata" ELSE "nothing"]
           new == [seen EXCEPT !.stage = "catalog", !.todo = todo]
<1>1. Reading("list", new)
  BY DEF ListSources
<1>2. Unlocked /\ seen.stage = "list" /\ seen' = new /\ mem' = mem /\ undo' = undo
  BY <1>1 DEF Reading
<1>3. /\ new.stage = "catalog" /\ new.revision = seen.revision
      /\ new.view = seen.view /\ new.todo = todo
      /\ new \in Bootstraps
  BY DEF RegInv, TypeOK, Bootstraps, Reads
<1>4. \A s \in Sources : new.todo[s] = IF mem.entries[s] # None \/ s \in rows
                                       THEN "metadata" ELSE "nothing"
  BY <1>3
<1> HIDE DEF new, todo
<1>5. Committed' = mem /\ Committed = mem
  BY <1>2 DEF Committed, Unlocked
<1>6. ASSUME NEW s \in Sources PROVE Agrees(s)'
  <2>1. CASE seen'.todo[s] = "metadata"
    BY <2>1 DEF Agrees
  <2>2. CASE seen'.todo[s] # "metadata"
    <3>1. mem.entries[s] = None
      BY <1>2, <1>4, <2>2
    <3>2. /\ Get(mem, s) = DefaultMetadata
          /\ mem.control[s] = 0 /\ mem.discovery[s] = None
      BY <3>1 DEF RegInv, NothingOfAbsent, Get
    <3>3. seen'.view = View(EmptyRegistry)
      BY <1>2, <1>3 DEF RegInv, SeenIsPast, NotFetched
    <3>4. /\ seen'.view.metadata[s] = DefaultMetadata
          /\ seen'.view.control[s] = 0 /\ seen'.view.discovery[s] = None
      BY <3>3 DEF View, EmptyRegistry, Get
    <3>5. QED
      BY <1>5, <3>2, <3>4 DEF Agrees
  <2>3. QED
    BY <2>1, <2>2
<1>7. SeenIsPast'
  BY <1>2, <1>3, <1>5, <1>6 DEF RegInv, SeenIsPast, Vouched
<1>8. SoundView'
  BY <1>2, <1>3 DEF RegInv, SoundView
<1>9. QED
  BY <1>1, <1>2, <1>3, <1>5, <1>7, <1>8, ReadingRegInv

(* One of the reads about sensor s: what it reads is the committed         *)
(* registry, and what has been read of the others is not touched.          *)
LEMMA SensorReadRegInv ==
  ASSUME RegInv, NEW s \in Sources, NEW new,
         Reading("catalog", new),
         new \in Bootstraps,
         new.stage = "catalog", new.revision = seen.revision,
         \A r \in Sources \ {s} : /\ new.todo[r] = seen.todo[r]
                                  /\ new.view.metadata[r] = seen.view.metadata[r]
                                  /\ new.view.control[r] = seen.view.control[r]
                                  /\ new.view.discovery[r] = seen.view.discovery[r],
         new.view.metadata[s] \in {Get(mem, s), seen.view.metadata[s]},
         Agrees(s) => Agrees(s)'
  PROVE  RegInv' /\ Committed' = Committed /\ seen'.stage = "catalog"
<1>1. Unlocked /\ seen.stage = "catalog" /\ seen' = new /\ mem' = mem /\ undo' = undo
  BY DEF Reading
<1>2. Committed' = mem /\ Committed = mem
  BY <1>1 DEF Committed, Unlocked
<1>3. seen.revision = mem.revision => \A r \in Sources : Agrees(r)'
  <2>1. SUFFICES ASSUME seen.revision = mem.revision, NEW r \in Sources
                 PROVE  Agrees(r)'
    OBVIOUS
  <2>2. \A q \in Sources : Agrees(q)
    BY <1>1, <1>2, <2>1 DEF RegInv, SeenIsPast, Vouched
  <2>3. CASE r = s
    BY <2>1, <2>2, <2>3
  <2>4. CASE r # s
    BY <1>1, <1>2, <2>2, <2>4 DEF Agrees
  <2>5. QED
    BY <2>3, <2>4
<1>4. SeenIsPast'
  BY <1>1, <1>2, <1>3 DEF RegInv, SeenIsPast, Vouched
<1>5. SoundView'
  <2>1. ASSUME NEW r \in Sources
        PROVE  seen'.view.metadata[r] \in {Get(mem, r), seen.view.metadata[r]}
    BY <1>1
  <2>2. QED
    BY <2>1 DEF RegInv, SoundRegistry, SoundView
<1>6. QED
  BY <1>1, <1>2, <1>4, <1>5, ReadingRegInv

(* The metadata of a sensor. *)
LEMMA MetadataRegInv ==
  ASSUME RegInv, NEW s \in Sources, ReadMetadata(s)
  PROVE  RegInv' /\ Committed' = Committed /\ seen'.stage = "catalog"
<1> DEFINE new == [seen EXCEPT !.todo[s] = "control",
                               !.view.metadata[s] = Get(mem, s)]
<1>1. Reading("catalog", new) /\ seen.todo[s] = "metadata"
  BY DEF ReadMetadata, Turn
<1>2. Unlocked /\ seen.stage = "catalog" /\ seen' = new /\ mem' = mem /\ undo' = undo
  BY <1>1 DEF Reading
<1>3. Committed' = mem
  BY <1>2 DEF Committed, Unlocked
<1>4. Get(mem, s) \in Metadata
  BY GetType DEF RegInv, TypeOK
<1>5. seen \in Bootstraps
  BY DEF RegInv, TypeOK
<1>6. /\ new \in Bootstraps
      /\ new.stage = "catalog" /\ new.revision = seen.revision
  BY <1>2, <1>4, <1>5 DEF Reads, Views, Bootstraps
<1>7. /\ new.todo = [seen.todo EXCEPT ![s] = "control"]
      /\ new.view.metadata = [seen.view.metadata EXCEPT ![s] = Get(mem, s)]
      /\ new.view.control = seen.view.control
      /\ new.view.discovery = seen.view.discovery
  BY <1>5 DEF Views, Bootstraps
<1> HIDE DEF new
<1>8. new.todo[s] = "control" /\ new.view.metadata[s] = Get(mem, s)
  BY <1>5, <1>7 DEF Views, Bootstraps
<1>9. Agrees(s)'
  BY <1>2, <1>3, <1>8 DEF Agrees
<1>10. QED
  BY <1>1, <1>5, <1>6, <1>7, <1>8, <1>9, SensorReadRegInv DEF Views, Bootstraps

(* Its control state. *)
LEMMA ControlRegInv ==
  ASSUME RegInv, NEW s \in Sources, ReadControl(s)
  PROVE  RegInv' /\ Committed' = Committed /\ seen'.stage = "catalog"
<1> DEFINE new == [seen EXCEPT !.todo[s] = "discovery",
                               !.view.control[s] = mem.control[s]]
<1>1. Reading("catalog", new) /\ seen.todo[s] = "control"
  BY DEF ReadControl, Turn
<1>2. Unlocked /\ seen.stage = "catalog" /\ seen' = new /\ mem' = mem /\ undo' = undo
  BY <1>1 DEF Reading
<1>3. Committed' = mem /\ Committed = mem
  BY <1>2 DEF Committed, Unlocked
<1>4. mem.control[s] \in Nat
  BY DEF RegInv, TypeOK, Registry
<1>5. seen \in Bootstraps
  BY DEF RegInv, TypeOK
<1>6. /\ new \in Bootstraps
      /\ new.stage = "catalog" /\ new.revision = seen.revision
  BY <1>2, <1>4, <1>5 DEF Reads, Views, Bootstraps
<1>7. /\ new.todo = [seen.todo EXCEPT ![s] = "discovery"]
      /\ new.view.control = [seen.view.control EXCEPT ![s] = mem.control[s]]
      /\ new.view.metadata = seen.view.metadata
      /\ new.view.discovery = seen.view.discovery
  BY <1>5 DEF Views, Bootstraps
<1> HIDE DEF new
<1>8. new.todo[s] = "discovery" /\ new.view.control[s] = mem.control[s]
  BY <1>5, <1>7 DEF Views, Bootstraps
<1>9. Agrees(s) => Agrees(s)'
  BY <1>1, <1>2, <1>3, <1>7, <1>8 DEF Agrees
<1>10. QED
  BY <1>1, <1>5, <1>6, <1>7, <1>8, <1>9, SensorReadRegInv DEF Views, Bootstraps

(* Its discovery. *)
LEMMA DiscoveryRegInv ==
  ASSUME RegInv, NEW s \in Sources, ReadDiscovery(s)
  PROVE  RegInv' /\ Committed' = Committed /\ seen'.stage = "catalog"
<1> DEFINE new == [seen EXCEPT !.todo[s] = "nothing",
                               !.view.discovery[s] = mem.discovery[s]]
<1>1. Reading("catalog", new) /\ seen.todo[s] = "discovery"
  BY DEF ReadDiscovery, Turn
<1>2. Unlocked /\ seen.stage = "catalog" /\ seen' = new /\ mem' = mem /\ undo' = undo
  BY <1>1 DEF Reading
<1>3. Committed' = mem /\ Committed = mem
  BY <1>2 DEF Committed, Unlocked
<1>4. mem.discovery[s] \in Discovery \cup {None}
  BY DEF RegInv, TypeOK, Registry
<1>5. seen \in Bootstraps
  BY DEF RegInv, TypeOK
<1>6. /\ new \in Bootstraps
      /\ new.stage = "catalog" /\ new.revision = seen.revision
  BY <1>2, <1>4, <1>5 DEF Reads, Views, Bootstraps
<1>7. /\ new.todo = [seen.todo EXCEPT ![s] = "nothing"]
      /\ new.view.discovery = [seen.view.discovery EXCEPT ![s] = mem.discovery[s]]
      /\ new.view.metadata = seen.view.metadata
      /\ new.view.control = seen.view.control
  BY <1>5 DEF Views, Bootstraps
<1> HIDE DEF new
<1>8. new.todo[s] = "nothing" /\ new.view.discovery[s] = mem.discovery[s]
  BY <1>5, <1>7 DEF Views, Bootstraps
<1>9. Agrees(s) => Agrees(s)'
  BY <1>1, <1>2, <1>3, <1>7, <1>8 DEF Agrees
<1>10. QED
  BY <1>1, <1>5, <1>6, <1>7, <1>8, <1>9, SensorReadRegInv DEF Views, Bootstraps

(* The last: the fleet summary, whose revision is newer than what it is    *)
(* with.  A bootstrap that quotes the revision read first shows the        *)
(* registry if that revision is still the current one.                     *)
LEMMA FleetRegInv ==
  ASSUME RegInv, Fleet
  PROVE  /\ RegInv' /\ Committed' = Committed
         /\ seen.stage = "catalog" /\ seen'.stage = "fetched"
         /\ Quotes = "bootstrap" =>
              /\ seen'.revision <= Committed.revision
              /\ seen'.revision = Committed.revision => seen'.view = View(Committed)
<1> DEFINE revision == IF Quotes = "fleet" THEN mem.revision ELSE seen.revision
           new == [seen EXCEPT !.stage = "fetched", !.revision = revision]
<1>1. Reading("catalog", new) /\ seen.todo = NotFetched.todo
  BY DEF Fleet
<1>2. Unlocked /\ seen.stage = "catalog" /\ seen' = new /\ mem' = mem /\ undo' = undo
  BY <1>1 DEF Reading
<1>3. Committed' = mem /\ Committed = mem
  BY <1>2 DEF Committed, Unlocked
<1>4. /\ seen \in Bootstraps
      /\ mem \in Registry /\ mem.revision \in Nat
  BY DEF RegInv, TypeOK, Registry
<1>5. /\ new \in Bootstraps
      /\ new.stage = "fetched" /\ new.revision = revision
      /\ new.todo = seen.todo /\ new.view = seen.view
  BY <1>4 DEF Bootstraps
<1> HIDE DEF new
<1>6. /\ seen.revision <= mem.revision
      /\ seen.revision = mem.revision => \A s \in Sources : Agrees(s)
  BY <1>2, <1>3 DEF RegInv, SeenIsPast, Vouched
<1>7. SeenIsPast'
  <2>1. ASSUME Quotes = "bootstrap", seen'.revision = mem.revision, NEW s \in Sources
        PROVE  Agrees(s)'
    <3>1. seen.revision = mem.revision
      BY <1>2, <1>5, <2>1
    <3>2. Agrees(s)
      BY <1>6, <3>1
    <3>3. QED
      BY <1>2, <1>3, <1>5, <3>2 DEF Agrees
  <2>2. Quotes = "bootstrap" => seen'.revision <= mem.revision
    BY <1>2, <1>5, <1>6
  <2>3. QED
    BY <1>1, <1>2, <1>3, <1>5, <2>1, <2>2 DEF SeenIsPast, Vouched
<1>8. SoundView'
  BY <1>2, <1>5 DEF RegInv, SoundView
<1>9. ASSUME Quotes = "bootstrap"
      PROVE  /\ seen'.revision <= mem.revision
             /\ seen'.revision = mem.revision => seen'.view = View(mem)
  <2>1. seen'.revision = seen.revision /\ seen'.view = seen.view
    BY <1>2, <1>5, <1>9
  <2>2. SUFFICES ASSUME seen.revision = mem.revision
                 PROVE  seen.view = View(mem)
    BY <1>6, <2>1
  <2>3. \A s \in Sources : /\ seen.view.metadata[s] = Get(mem, s)
                           /\ seen.view.control[s] = mem.control[s]
                           /\ seen.view.discovery[s] = mem.discovery[s]
    BY <1>1, <1>3, <1>6, <2>2 DEF Agrees, NotFetched
  <2>4. seen.view \in Views /\ View(mem) \in Views
    BY <1>4, ViewType DEF Bootstraps
  <2>5. /\ seen.view.metadata = View(mem).metadata
        /\ seen.view.control = View(mem).control
        /\ seen.view.discovery = View(mem).discovery
    BY <1>4, <2>3, <2>4 DEF Views, View, Registry
  <2>6. QED
    BY <2>4, <2>5 DEF Views
<1>10. QED
  BY <1>1, <1>2, <1>3, <1>5, <1>7, <1>8, <1>9, ReadingRegInv

(* The answers to writes. *)
LEMMA IdleStepRegInv ==
  ASSUME RegInv, Respond \/ UNCHANGED vars
  PROVE  RegInv' /\ Committed' = Committed /\ seen' = seen
<1>1. UNCHANGED <<mem, disk, undo, seen>>
  BY DEF Respond, vars
<1>2. TypeOK'
  <2>1. CASE Respond
    BY <1>1, <2>1 DEF Respond, RegInv, TypeOK
  <2>2. CASE UNCHANGED vars
    BY <2>2 DEF vars, RegInv, TypeOK
  <2>3. QED
    BY <2>1, <2>2
<1>3. QED
  BY <1>1, <1>2, IdleRegInv

(* Every step of the registry preserves the invariant. *)
LEMMA StepRegInv == RegInv /\ [Next]_vars => RegInv'
<1> SUFFICES ASSUME RegInv, [Next]_vars PROVE RegInv'
  OBVIOUS
<1>1. CASE ReadCatalog
  <2>1. ASSUME NEW s \in Sources, ReadMetadata(s) \/ ReadControl(s) \/ ReadDiscovery(s)
        PROVE  RegInv'
    BY <2>1, MetadataRegInv, ControlRegInv, DiscoveryRegInv
  <2>2. QED
    BY <1>1, <2>1, BootstrapRegInv, ListRegInv, FleetRegInv DEF ReadCatalog
<1>2. CASE ~ReadCatalog
  BY <1>2, MutateRegInv, SaveRegInv, FailRegInv, RestartRegInv, IdleStepRegInv
     DEF Next
<1>3. QED
  BY <1>1, <1>2

-----------------------------------------------------------------------------
(* The inductive invariant holds in every reachable state, whichever       *)
(* revision a UI keeps.                                                    *)
THEOREM RegistryInvariant == Spec => []RegInv
BY InitRegInv, StepRegInv, PTL DEF Spec

(* Type correctness of the registry, its file and its readers.             *)
THEOREM RegistryTypeOK == Spec => []TypeOK
<1>1. RegInv => TypeOK
  BY DEF RegInv
<1>2. QED
  BY <1>1, RegistryInvariant, PTL

(* A free lock means memory equals the registry file, after any sequence   *)
(* of writes, failed writes and crashes.                                   *)
THEOREM RegistryMemoryIsDurable == Spec => []MemoryIsDurable
<1>1. RegInv => MemoryIsDurable
  BY DEF RegInv, MemoryIsDurable, Committed
<1>2. QED
  BY <1>1, RegistryInvariant, PTL

(* No retired sensor is ever enabled, in memory, in the file or in what a  *)
(* bootstrap has read.                                                     *)
THEOREM RegistryRetiredIsDisabled == Spec => []RetiredIsDisabled
<1>1. RegInv => RetiredIsDisabled
  BY DEF RegInv, RetiredIsDisabled, SoundRegistry, SoundView
<1>2. QED
  BY <1>1, RegistryInvariant, PTL

(* The parity of a control revision is the switch position.                *)
THEOREM RegistrySwitchIsRevisionParity == Spec => []SwitchIsRevisionParity
<1>1. RegInv => SwitchIsRevisionParity
  BY DEF RegInv, SwitchIsRevisionParity, SoundRegistry
<1>2. QED
  BY <1>1, RegistryInvariant, PTL

(* A bootstrap whose revision is the current one shows the registry,       *)
(* although it was read call by call and other requests, failing writes    *)
(* and crashes came in between (sensor_bootstrap_snapshot, api.py).        *)
THEOREM RegistryRevisionNamesState ==
  ASSUME Quotes = "bootstrap"
  PROVE  Spec => []RevisionNamesState
<1>1. RegInv => RevisionNamesState
  <2>1. SUFFICES ASSUME RegInv, Persistent, Unlocked, seen.stage = "fetched"
                 PROVE  /\ seen.revision <= mem.revision
                        /\ seen.revision = mem.revision => seen.view = View(mem)
    BY DEF RevisionNamesState
  <2>2. Committed = mem
    BY <2>1 DEF Committed
  <2>3. /\ seen.revision <= mem.revision
        /\ seen.revision = mem.revision =>
             \A s \in Sources : Agrees(s) /\ seen.todo[s] = "nothing"
    BY <2>1, <2>2 DEF RegInv, SeenIsPast, Vouched, NotFetched
  <2>4. ASSUME seen.revision = mem.revision PROVE seen.view = View(mem)
    <3>1. \A s \in Sources : /\ seen.view.metadata[s] = Get(mem, s)
                             /\ seen.view.control[s] = mem.control[s]
                             /\ seen.view.discovery[s] = mem.discovery[s]
      BY <2>2, <2>3, <2>4 DEF Agrees
    <3>2. mem \in Registry /\ seen.view \in Views /\ View(mem) \in Views
      BY <2>1, ViewType DEF RegInv, TypeOK, Bootstraps
    <3>3. /\ seen.view.metadata = View(mem).metadata
          /\ seen.view.control = View(mem).control
          /\ seen.view.discovery = View(mem).discovery
      BY <3>1, <3>2 DEF Views, View, Registry
    <3>4. QED
      BY <3>2, <3>3 DEF Views
  <2>5. QED
    BY <2>3, <2>4
<1>2. QED
  BY <1>1, RegistryInvariant, PTL

(* A write that names the revision of a bootstrap lands on the state the   *)
(* bootstrap shows, part by part.                                          *)
THEOREM RegistryGuardedWriteIsNotBlind ==
  ASSUME Quotes = "bootstrap"
  PROVE  Spec => []GuardedWriteIsNotBlind
<1>1. RegInv => GuardedWriteIsNotBlind
  BY DEF RegInv, GuardedWriteIsNotBlind, GuardHeld, Committed
<1>2. QED
  BY <1>1, RegistryInvariant, PTL

(* Every durable flip of a switch, forgetting aside, is a new command.     *)
THEOREM RegistryFlipAdvancesControl == Spec => FlipAdvancesControl
<1> DEFINE Flip == [\A s \in Sources :
                      \/ Get(disk, s).enabled = Get(disk', s).enabled
                      \/ disk'.control[s] > disk.control[s]
                      \/ Get(disk, s).retired /\ disk'.entries[s] = None]_disk
<1>1. RegInv /\ [Next]_vars => Flip
  <2> SUFFICES ASSUME RegInv, Next, disk' # disk PROVE Flip
    BY DEF vars
  <2>1. SaveSucceeds /\ Persistent
    BY DEF Next, Mutate, Observe, EnsureRegistered, Operator, Retire, Restore,
           Forget, Patch, Begin, SaveSucceeds, SaveFails, CrashAndRestart,
           ReadCatalog, Reading, Bootstrap, ListSources, ReadMetadata,
           ReadControl, ReadDiscovery, Fleet, Respond
  <2>2. disk' = mem /\ Committed = disk
    BY <2>1 DEF SaveSucceeds, RegInv
  <2>3. QED
    BY <2>1, <2>2 DEF RegInv, InFlight, SaveSucceeds
<1>2. QED
  BY <1>1, RegistryInvariant, PTL DEF Spec, FlipAdvancesControl

-----------------------------------------------------------------------------
(* The refinement: a call is one step of AtomicRegistry, taken when its    *)
(* write succeeds.                                                         *)

\* The change being saved is that of one call on the committed registry, and
\* a registry without a file restarts empty.
AtomicInv ==
  /\ ~Unlocked => \E s \in Sources : Atomic!Makes(s, Committed, mem)
  /\ ~Persistent => disk = EmptyRegistry

(* AtomicRegistry speaks of the same mutators. *)
LEMMA SameMutators ==
  ASSUME NEW old, NEW new, NEW s \in Sources,
         \/ \E t \in Types, d \in Devices \cup {None} :
               ~IdentityConflict(old, s, t) /\ new = Observed(old, s, t, d)
         \/ old.entries[s] = None /\ new = Registered(old, s)
         \/ ~Get(old, s).retired /\ new = Retired(old, s)
         \/ Get(old, s).retired /\ new \in {Restored(old, s), Forgotten(old, s)}
         \/ \E m \in Metas \cup {NoMeta, None}, e \in BOOLEAN \cup {None} :
               ~PatchRefused(old, s, e) /\ new = Patched(old, s, m, e)
  PROVE  Atomic!Makes(s, old, new)
<1>1. /\ Atomic!Get(old, s) = Get(old, s)
      /\ \A t : Atomic!IdentityConflict(old, s, t) = IdentityConflict(old, s, t)
      /\ \A e : Atomic!PatchRefused(old, s, e) = PatchRefused(old, s, e)
  BY DEF Get, DefaultMetadata, IdentityConflict, PatchRefused,
         Atomic!Get, Atomic!DefaultMetadata, Atomic!IdentityConflict,
         Atomic!PatchRefused
<1>2. /\ Atomic!Registered(old, s) = Registered(old, s)
      /\ Atomic!Retired(old, s) = Retired(old, s)
      /\ Atomic!Restored(old, s) = Restored(old, s)
      /\ Atomic!Forgotten(old, s) = Forgotten(old, s)
  BY <1>1 DEF Registered, DefaultMetadata, Retired, Restored, Forgotten, Advance,
         Atomic!Registered, Atomic!DefaultMetadata, Atomic!Retired,
         Atomic!Restored, Atomic!Forgotten, Atomic!Advance
<1>3. \A t, d : Atomic!Observed(old, s, t, d) = Observed(old, s, t, d)
  BY <1>1 DEF Observed, Described, Advance, Atomic!Observed, Atomic!Described,
              Atomic!Advance
<1>4. \A m, e : Atomic!Patched(old, s, m, e) = Patched(old, s, m, e)
  BY <1>1 DEF Patched, PatchedEntry, Advance, Atomic!Patched,
              Atomic!PatchedEntry, Atomic!Advance
<1>5. QED
  BY <1>1, <1>2, <1>3, <1>4 DEF Atomic!Makes

(* What is shown, and the registry without entries, are the same too. *)
LEMMA SameViews ==
  /\ Atomic!EmptyRegistry = EmptyRegistry
  /\ \A reg : Atomic!View(reg) = View(reg)
BY DEF Atomic!EmptyRegistry, EmptyRegistry, Atomic!View, View,
       Atomic!Get, Get, Atomic!DefaultMetadata, DefaultMetadata

(* At first nothing is being saved. *)
LEMMA InitAtomicInv == Init => AtomicInv
BY DEF Init, AtomicInv, Unlocked

(* Beginning a call commits nothing, and what will be committed is that    *)
(* call's change.                                                          *)
LEMMA BeginIsHidden ==
  ASSUME RegInv, AtomicInv,
         NEW op \in {"observe", "register", "retire", "restore", "forget", "patch"},
         NEW s \in Sources, NEW g \in BOOLEAN, NEW effect,
         Begin(op, s, g, effect), GoodEffect(op, s, mem, effect),
         Atomic!Makes(s, mem, effect)
  PROVE  AtomicInv' /\ Committed' = Committed /\ seen' = seen
<1>1. Committed' = Committed /\ seen' = seen
  BY BeginRegInv
<1>2. mem' = effect /\ disk' = disk /\ Committed = mem
  BY DEF Begin, Committed
<1>3. Atomic!Makes(s, Committed', mem')
  BY <1>1, <1>2
<1>4. QED
  BY <1>1, <1>2, <1>3 DEF AtomicInv

(* The same for each mutator. *)
LEMMA MutateIsHidden ==
  ASSUME RegInv, AtomicInv, Mutate
  PROVE  AtomicInv' /\ Committed' = Committed /\ seen' = seen
<1>0. mem \in Registry /\ SoundRegistry(mem)
  BY DEF RegInv, TypeOK
<1>1. PICK s \in Sources :
         \/ \E t \in Types, d \in Devices \cup {None} : Observe(s, t, d)
         \/ EnsureRegistered(s)
         \/ \E guarded \in BOOLEAN : Operator(s, guarded)
  BY DEF Mutate
<1>2. ASSUME NEW t \in Types, NEW d \in Devices \cup {None}, Observe(s, t, d)
      PROVE  AtomicInv' /\ Committed' = Committed /\ seen' = seen
  <2>1. /\ ~IdentityConflict(mem, s, t)
        /\ Begin("observe", s, FALSE, Observed(mem, s, t, d))
    BY <1>2 DEF Observe
  <2>2. Atomic!Makes(s, mem, Observed(mem, s, t, d))
    BY <2>1, SameMutators
  <2>3. QED
    BY <1>0, <2>1, <2>2, ObservedEffect, BeginIsHidden
<1>3. CASE EnsureRegistered(s)
  BY <1>0, <1>3, RegisteredEffect, SameMutators, BeginIsHidden
     DEF EnsureRegistered
<1>4. ASSUME NEW g \in BOOLEAN, Retire(s, g)
      PROVE  AtomicInv' /\ Committed' = Committed /\ seen' = seen
  BY <1>0, <1>4, RetiredEffect, SameMutators, BeginIsHidden DEF Retire
<1>5. ASSUME NEW g \in BOOLEAN, Restore(s, g)
      PROVE  AtomicInv' /\ Committed' = Committed /\ seen' = seen
  BY <1>0, <1>5, RestoredEffect, SameMutators, BeginIsHidden DEF Restore
<1>6. ASSUME NEW g \in BOOLEAN, Forget(s, g)
      PROVE  AtomicInv' /\ Committed' = Committed /\ seen' = seen
  BY <1>0, <1>6, ForgottenEffect, SameMutators, BeginIsHidden DEF Forget
<1>7. ASSUME NEW g \in BOOLEAN, NEW m \in Metas \cup {NoMeta, None},
             NEW e \in BOOLEAN \cup {None}, Patch(s, m, e, g)
      PROVE  AtomicInv' /\ Committed' = Committed /\ seen' = seen
  BY <1>0, <1>7, PatchedEffect, SameMutators, BeginIsHidden DEF Patch
<1>8. QED
  BY <1>1, <1>2, <1>3, <1>4, <1>5, <1>6, <1>7 DEF Operator

(* The end of a call is that call in AtomicRegistry, or nothing if it      *)
(* failed or changed nothing.                                              *)
LEMMA OutcomeIsAtomic ==
  ASSUME RegInv, AtomicInv, SaveSucceeds \/ SaveFails
  PROVE  AtomicInv' /\ [Atomic!Next]_<<Committed, Shown>>
<1>1. ~Unlocked /\ Unlocked' /\ seen' = seen
  BY DEF SaveSucceeds, SaveFails, Unlocked
<1>2. AtomicInv'
  BY <1>1 DEF AtomicInv, SaveSucceeds, SaveFails
<1>3. Shown' = Shown
  BY <1>1 DEF Shown
<1>4. CASE SaveSucceeds
  <2>1. Committed' = mem
    BY <1>1, <1>4 DEF Committed, SaveSucceeds
  <2>2. PICK s \in Sources : Atomic!Makes(s, Committed, mem)
    BY <1>1 DEF AtomicInv
  <2>3. Atomic!Makes(s, Committed, Committed')
    BY <2>1, <2>2
  <2>4. QED
    BY <1>2, <1>3, <2>3 DEF Atomic!Next, Atomic!Call
<1>5. CASE SaveFails
  BY <1>2, <1>3, <1>5, FailRegInv
<1>6. QED
  BY <1>4, <1>5

(* A crash loses the call it interrupts and nothing else, unless there is  *)
(* no file; a bootstrap it interrupts is never shown.                      *)
LEMMA CrashIsAtomic ==
  ASSUME RegInv, AtomicInv, CrashAndRestart
  PROVE  AtomicInv' /\ [Atomic!Next]_<<Committed, Shown>>
<1>1. /\ mem' = disk /\ undo' = None /\ disk' = disk
      /\ seen' = IF seen.stage = "fetched" THEN seen ELSE NotFetched
  BY DEF CrashAndRestart
<1>2. AtomicInv' /\ Committed' = disk
  BY <1>1 DEF AtomicInv, Committed, Unlocked
<1>3. Shown' = Shown
  BY <1>1 DEF Shown, NotFetched
<1>4. CASE Persistent
  BY <1>2, <1>3, <1>4 DEF RegInv
<1>5. CASE ~Persistent
  <2>1. Committed' = Atomic!EmptyRegistry
    BY <1>2, <1>5, SameViews DEF AtomicInv
  <2>2. QED
    BY <1>2, <1>3, <1>5, <2>1 DEF Atomic!Next, Atomic!Restart
<1>6. QED
  BY <1>4, <1>5

(* Until its last read a bootstrap is not shown; then it is delivered.     *)
LEMMA ReadIsAtomic ==
  ASSUME RegInv, AtomicInv, Quotes = "bootstrap", ReadCatalog
  PROVE  AtomicInv' /\ [Atomic!Next]_<<Committed, Shown>>
<1>1. mem' = mem /\ undo' = undo /\ disk' = disk
  BY DEF ReadCatalog, Reading, Bootstrap, ListSources, ReadMetadata, ReadControl,
         ReadDiscovery, Fleet
<1>2. AtomicInv' /\ Committed' = Committed
  BY <1>1 DEF AtomicInv, Committed, Unlocked
<1>3. CASE Bootstrap
  <2>1. Shown' = None
    BY <1>3, BootstrapRegInv DEF Shown
  <2>2. QED
    BY <1>2, <2>1 DEF Atomic!Next, Atomic!Ask
<1>4. ASSUME NEW s \in Sources,
             \/ \E rows \in SUBSET Sources : ListSources(rows)
             \/ ReadMetadata(s) \/ ReadControl(s) \/ ReadDiscovery(s)
      PROVE  [Atomic!Next]_<<Committed, Shown>>
  <2>1. seen.stage \in {"list", "catalog"}
    BY <1>4 DEF ListSources, ReadMetadata, ReadControl, ReadDiscovery, Reading
  <2>2. seen'.stage = "catalog"
    BY <1>4, ListRegInv, MetadataRegInv, ControlRegInv, DiscoveryRegInv
  <2>3. Shown' = None /\ Shown = None
    BY <2>1, <2>2 DEF Shown
  <2>4. QED
    BY <1>2, <2>3
<1>5. CASE \E rows \in SUBSET Sources : ListSources(rows)
  <2>1. seen.stage = "list" /\ seen'.stage = "catalog"
    BY <1>5, ListRegInv DEF ListSources, Reading
  <2>2. Shown' = None /\ Shown = None
    BY <2>1 DEF Shown
  <2>3. QED
    BY <1>2, <2>2
<1>6. CASE Fleet
  <2>1. /\ seen.stage = "catalog" /\ seen'.stage = "fetched" /\ RegInv'
        /\ seen'.revision <= Committed.revision
        /\ seen'.revision = Committed.revision => seen'.view = View(Committed)
    BY <1>6, FleetRegInv
  <2>2. Shown = None /\ Shown' = [revision |-> seen'.revision, view |-> seen'.view]
    BY <2>1 DEF Shown
  <2>3. Shown' # None
    <3>1. seen'.revision \in Nat /\ seen'.view \in Views
      BY <2>1 DEF RegInv, TypeOK, Bootstraps
    <3>2. QED
      BY <2>2, <3>1, NothingAssumption
  <2>4. /\ Shown'.revision <= Committed.revision
        /\ Shown'.revision = Committed.revision => Shown'.view = Atomic!View(Committed)
    BY <2>1, <2>2, SameViews
  <2>5. QED
    BY <1>2, <2>2, <2>3, <2>4 DEF Atomic!Next, Atomic!Deliver
<1>7. QED
  BY <1>2, <1>3, <1>4, <1>5, <1>6 DEF ReadCatalog

(* Every step is one of AtomicRegistry, or changes nothing there. *)
LEMMA StepIsAtomic ==
  ASSUME RegInv, AtomicInv, Quotes = "bootstrap", [Next]_vars
  PROVE  AtomicInv' /\ [Atomic!Next]_<<Committed, Shown>>
<1>1. CASE Mutate
  BY <1>1, MutateIsHidden DEF Shown
<1>2. ASSUME Respond \/ UNCHANGED vars
      PROVE  AtomicInv' /\ [Atomic!Next]_<<Committed, Shown>>
  <2>1. UNCHANGED <<mem, disk, undo, seen>>
    BY <1>2 DEF Respond, vars
  <2>2. Committed' = Committed /\ Shown' = Shown /\ AtomicInv'
    BY <2>1 DEF AtomicInv, Committed, Shown, Unlocked
  <2>3. QED
    BY <2>2
<1>3. QED
  BY <1>1, <1>2, OutcomeIsAtomic, CrashIsAtomic, ReadIsAtomic DEF Next

(* Through any sequence of calls, failed writes, crashes and reads the     *)
(* registry is one that changes by whole calls only (sensor_registry.py:   *)
(* mutators under the lock, _save() and the exception handlers), and a     *)
(* bootstrap shows it as it is if the revision it quotes is still current  *)
(* when the last part has been read.                                       *)
THEOREM RegistryIsAtomic ==
  ASSUME Quotes = "bootstrap"
  PROVE  Spec => AtomicSpec
<1>1. Init => Atomic!Init
  <2>1. Init => Committed = EmptyRegistry /\ Shown = None
    BY DEF Init, Committed, Unlocked, Shown, NotFetched
  <2>2. QED
    BY <2>1, SameViews DEF Atomic!Init
<1>2. RegInv /\ AtomicInv /\ [Next]_vars =>
        AtomicInv' /\ [Atomic!Next]_<<Committed, Shown>>
  BY StepIsAtomic
<1>3. Spec => []AtomicInv
  BY <1>2, InitAtomicInv, RegistryInvariant, PTL DEF Spec
<1>4. QED
  BY <1>1, <1>2, <1>3, RegistryInvariant, PTL DEF Spec, AtomicSpec, Atomic!Spec
=============================================================================
