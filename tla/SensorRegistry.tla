--------------------------- MODULE SensorRegistry ---------------------------
(***************************************************************************)
(* SensorRegistry: every mutator takes the registry lock, checks, changes  *)
(* memory, writes the whole state to a temporary file that replaces the    *)
(* registry file, and puts memory back by hand when the write raises.      *)
(* The process may die anywhere, also between the change and the write.    *)
(*                                                                         *)
(* A mutator is two steps: the change (Observe, Retire, ...), which leaves *)
(* in "undo" what the exception handler will put back, and the outcome of  *)
(* the write (SaveSucceeds or SaveFails).  The lock is held in between, so *)
(* no other operation and no reader sees the half-way state.               *)
(*                                                                         *)
(* A reader holds the lock for one call only.  The bootstrap of a control  *)
(* UI is many calls: the state revision, the list of sensors, then for     *)
(* each sensor its metadata, its control state and its discovery, and last *)
(* the state revision once more, for the fleet summary; other requests     *)
(* change the registry in between.                                         *)
(***************************************************************************)
EXTENDS RegistryOps

CONSTANTS
  Persistent,   \* TRUE when the registry has a file
  Quotes,       \* the revision a UI keeps of a bootstrap: its own, or the
                \* one of the fleet summary in it
  MaxRevision   \* bound on the state revision, for model checking only

ASSUME ConfigurationAssumption ==
  /\ Persistent \in BOOLEAN
  /\ Quotes \in {"bootstrap", "fleet"}
  /\ MaxRevision \in Nat

VARIABLES
  mem,     \* _entries, _discovery, _control_revisions, _state_revision
  disk,    \* what _load() would read
  undo,    \* the locals of the mutator that holds the lock, or None
  seen,    \* the bootstrap an operator has, or what he has of it so far
  reply    \* the revision a write has led to that is yet to be answered

vars == <<mem, disk, undo, seen, reply>>

Unlocked == undo = None

Undo ==
  [op       : {"observe", "register", "retire", "restore", "forget", "patch"},
   source   : Sources,
   entry    : Metadata \cup {None},
   discovery: Discovery \cup {None},
   control  : Nat,
   revision : Nat,
   guarded  : BOOLEAN]

\* What a bootstrap shows of the sensors.
Views ==
  [metadata  : [Sources -> Metadata],
   discovery : [Sources -> Discovery \cup {None}],
   control   : [Sources -> Nat]]

ASSUME NothingAssumption ==
  None \notin Undo /\ None \notin Nat /\ None \notin [revision : Nat, view : Views]

\* What a bootstrap is still to read of a sensor.
Reads == {"metadata", "control", "discovery", "nothing"}

Bootstraps ==
  [stage    : {"none", "list", "catalog", "fetched"},
   revision : Nat,
   todo     : [Sources -> Reads],
   view     : Views]

\* No bootstrap, and the sensors that a bootstrap does not list.
NotFetched ==
  [stage    |-> "none",
   revision |-> 0,
   todo     |-> [s \in Sources |-> "nothing"],
   view     |-> View(EmptyRegistry)]

-----------------------------------------------------------------------------
(* Mutators *)

\* The "previous_..." locals of a mutator.
Locals(op, s, reg, guarded) ==
  [op        |-> op,
   source    |-> s,
   entry     |-> reg.entries[s],
   discovery |-> reg.discovery[s],
   control   |-> reg.control[s],
   revision  |-> reg.revision,
   guarded   |-> guarded]

\* Mutant: the precondition is not looked at.
AnyRevisionExpected(guarded) == TRUE

\* _assert_expected_state_revision: the operator sends the revision of the
\* bootstrap it has, or sends none.
RevisionExpected(guarded) ==
  guarded => seen.stage = "fetched" /\ seen.revision = mem.revision

Begin(op, s, guarded, effect) ==
  /\ Unlocked
  /\ mem.revision < MaxRevision
  /\ RevisionExpected(guarded)
  /\ mem' = effect
  /\ undo' = Locals(op, s, mem, guarded)
  /\ UNCHANGED <<disk, seen, reply>>

Observe(s, t, d) ==
  /\ ~IdentityConflict(mem, s, t)
  /\ Begin("observe", s, FALSE, Observed(mem, s, t, d))

EnsureRegistered(s) ==
  /\ mem.entries[s] = None
  /\ Begin("register", s, FALSE, Registered(mem, s))

Retire(s, guarded) ==
  /\ ~Get(mem, s).retired
  /\ Begin("retire", s, guarded, Retired(mem, s))

Restore(s, guarded) ==
  /\ Get(mem, s).retired
  /\ Begin("restore", s, guarded, Restored(mem, s))

Forget(s, guarded) ==
  /\ Contains(mem, s)
  /\ Get(mem, s).retired
  /\ Begin("forget", s, guarded, Forgotten(mem, s))

Patch(s, m, e, guarded) ==
  /\ ~PatchRefused(mem, s, e)
  /\ Begin("patch", s, guarded, Patched(mem, s, m, e))

-----------------------------------------------------------------------------
(* Persistence *)

\* An operator is told the state revision with the outcome; of several
\* operators waiting for that, the model follows one.
SaveSucceeds ==
  /\ ~Unlocked
  /\ disk' = IF Persistent THEN mem ELSE disk
  /\ undo' = None
  /\ reply' = IF undo.op \in {"observe", "register"} \/ reply # None
              THEN reply ELSE mem.revision
  /\ UNCHANGED <<mem, seen>>

\* Mutant: the exception handler of retire() forgets the control revision.
RolledBackButControl(reg, u) ==
  [entries   |-> [reg.entries EXCEPT ![u.source] = u.entry],
   discovery |-> IF u.op \in {"observe", "forget"}
                 THEN [reg.discovery EXCEPT ![u.source] = u.discovery]
                 ELSE reg.discovery,
   control   |-> IF u.op \in {"patch", "forget"}
                 THEN [reg.control EXCEPT ![u.source] = u.control]
                 ELSE reg.control,
   revision  |-> u.revision]

\* What each mutator's exception handler puts back.
RolledBack(reg, u) ==
  [entries   |-> [reg.entries EXCEPT ![u.source] = u.entry],
   discovery |-> IF u.op \in {"observe", "forget"}
                 THEN [reg.discovery EXCEPT ![u.source] = u.discovery]
                 ELSE reg.discovery,
   control   |-> IF u.op \in {"retire", "patch", "forget"}
                 THEN [reg.control EXCEPT ![u.source] = u.control]
                 ELSE reg.control,
   revision  |-> u.revision]

SaveFails ==
  /\ ~Unlocked
  /\ Persistent
  /\ mem' = RolledBack(mem, undo)
  /\ undo' = None
  /\ UNCHANGED <<disk, seen, reply>>

\* The process dies and starts again: memory is what _load() finds, and the
\* requests it was working on are gone.
CrashAndRestart ==
  /\ mem' = disk
  /\ undo' = None
  /\ seen' = IF seen.stage = "fetched" THEN seen ELSE NotFetched
  /\ reply' = None
  /\ UNCHANGED disk

-----------------------------------------------------------------------------
(* Readers *)

\* One locked read on behalf of a bootstrap in this stage.
Reading(stage, new) ==
  /\ Unlocked
  /\ seen.stage = stage
  /\ seen' = new
  /\ UNCHANGED <<mem, disk, undo, reply>>

\* The state revision comes first.
Bootstrap ==
  \E stage \in {"none", "fetched"} :
    Reading(stage, [NotFetched EXCEPT !.stage = "list", !.revision = mem.revision])

\* The catalog lists the sensors with an entry or a row of the ingress.
ListSources(rows) ==
  Reading("list", [seen EXCEPT
    !.stage = "catalog",
    !.todo  = [s \in Sources |-> IF mem.entries[s] # None \/ s \in rows
                                 THEN "metadata" ELSE "nothing"]])

\* One sensor after the other.
Turn(s, read) ==
  /\ seen.todo[s] = read
  /\ \A r \in Sources \ {s} : seen.todo[r] \in {"metadata", "nothing"}

ReadMetadata(s) ==
  /\ Turn(s, "metadata")
  /\ Reading("catalog", [seen EXCEPT !.todo[s] = "control",
                                     !.view.metadata[s] = Get(mem, s)])

ReadControl(s) ==
  /\ Turn(s, "control")
  /\ Reading("catalog", [seen EXCEPT !.todo[s] = "discovery",
                                     !.view.control[s] = mem.control[s]])

ReadDiscovery(s) ==
  /\ Turn(s, "discovery")
  /\ Reading("catalog", [seen EXCEPT !.todo[s] = "nothing",
                                     !.view.discovery[s] = mem.discovery[s]])

\* Mutant: the bootstrap quotes the revision it has read last.
FleetQuoted ==
  /\ seen.todo = NotFetched.todo
  /\ Reading("catalog", [seen EXCEPT !.stage = "fetched", !.revision = mem.revision])

\* The fleet summary comes last, with a state revision of its own.
Fleet ==
  /\ seen.todo = NotFetched.todo
  /\ Reading("catalog", [seen EXCEPT
       !.stage    = "fetched",
       !.revision = IF Quotes = "fleet" THEN mem.revision ELSE @])

\* The handler of a write asks for the state revision when the write is over.
Respond ==
  /\ Unlocked
  /\ reply # None
  /\ reply' = None
  /\ UNCHANGED <<mem, disk, undo, seen>>

-----------------------------------------------------------------------------
Init ==
  /\ mem = EmptyRegistry
  /\ disk = EmptyRegistry
  /\ undo = None
  /\ seen = NotFetched
  /\ reply = None

Operator(s, guarded) ==
  \/ Retire(s, guarded)
  \/ Restore(s, guarded)
  \/ Forget(s, guarded)
  \/ \E m \in Metas \cup {NoMeta, None}, e \in BOOLEAN \cup {None} :
        Patch(s, m, e, guarded)

Mutate ==
  \E s \in Sources :
    \/ \E t \in Types, d \in Devices \cup {None} : Observe(s, t, d)
    \/ EnsureRegistered(s)
    \/ \E guarded \in BOOLEAN : Operator(s, guarded)

ReadCatalog ==
  \/ Bootstrap
  \/ \E rows \in SUBSET Sources : ListSources(rows)
  \/ \E s \in Sources : ReadMetadata(s) \/ ReadControl(s) \/ ReadDiscovery(s)
  \/ Fleet

Next ==
  \/ Mutate
  \/ SaveSucceeds
  \/ SaveFails
  \/ ReadCatalog
  \/ Respond
  \/ CrashAndRestart

Spec == Init /\ [][Next]_vars

-----------------------------------------------------------------------------
(* Properties *)

TypeOK ==
  /\ mem \in Registry
  /\ disk \in Registry
  /\ undo \in Undo \cup {None}
  /\ seen \in Bootstraps
  /\ reply \in Nat \cup {None}

(* Whenever the lock is free, a persistent registry serves exactly what a  *)
(* restart would load: neither a failed write nor a crash leaves an answer *)
(* in memory that the file does not back (the rollback of each mutator).   *)
MemoryIsDurable == Persistent /\ Unlocked => mem = disk

(* A retired sensor is disabled, in memory, on disk and in every view      *)
(* handed out, so retiring always stops capture and no patch, restore,     *)
(* failed write or restart turns a retired camera on.                      *)
RetiredIsDisabled ==
  \A s \in Sources :
    /\ ~(Get(mem, s).retired /\ Get(mem, s).enabled)
    /\ ~(Get(disk, s).retired /\ Get(disk, s).enabled)
    /\ ~(seen.view.metadata[s].retired /\ seen.view.metadata[s].enabled)

(* The state revision names a state: if the revision that a bootstrap      *)
(* quotes is current when the bootstrap is complete, or at any later time  *)
(* and through any failed write or crash, then what it shows of every      *)
(* sensor is current too, although it was put together call by call while  *)
(* others changed the registry (sensor_bootstrap_snapshot samples the      *)
(* revision before the catalog).                                           *)
RevisionNamesState ==
  Persistent /\ Unlocked /\ seen.stage = "fetched" =>
    /\ seen.revision <= mem.revision
    /\ (seen.revision = mem.revision => seen.view = View(mem))

(* "A stale revision is rejected with HTTP 409 [...] instead of            *)
(* overwriting newer state": a write with a precondition is applied only   *)
(* to the state its author was shown, sensor by sensor.                    *)
GuardedWriteIsNotBlind ==
  Persistent /\ ~Unlocked /\ undo.guarded =>
    View(RolledBack(mem, undo)) = seen.view

(* A sensor is enabled exactly when its control revision is even, also     *)
(* after being retired, restored, forgotten and seen again: equal          *)
(* revisions of a sensor always stand for the same switch position.        *)
SwitchIsRevisionParity ==
  \A s \in Sources :
    /\ Get(mem, s).enabled <=> mem.control[s] % 2 = 0
    /\ Get(disk, s).enabled <=> disk.control[s] % 2 = 0

(* Every durable flip of a sensor's switch, other than forgetting the      *)
(* sensor, is a new command with a larger control revision; the producer's *)
(* acknowledgement of the old one can then not be taken for the new one.   *)
FlipAdvancesControl ==
  [][\A s \in Sources :
       \/ Get(disk, s).enabled = Get(disk', s).enabled
       \/ disk'.control[s] > disk.control[s]
       \/ Get(disk, s).retired /\ disk'.entries[s] = None]_disk

\* The registry without the change that is being saved.
Committed == IF Unlocked THEN mem ELSE RolledBack(mem, undo)

\* The bootstrap an operator has.
Shown ==
  IF seen.stage = "fetched"
  THEN [revision |-> seen.revision, view |-> seen.view] ELSE None

(* A call that returns has made its change at one moment and one that      *)
(* raised or died has made none; a bootstrap may show parts of several     *)
(* states, but not if the revision it quotes is still the current one when *)
(* it is complete.                                                         *)
Atomic == INSTANCE AtomicRegistry WITH reg <- Committed, shown <- Shown

AtomicSpec == Atomic!Spec

(* "Successful writes return the resulting state_revision": the revision   *)
(* in the answer to a write is the one the write has led to.               *)
ReplyIsResulting == [][Respond => mem.revision = reply]_vars
=============================================================================
