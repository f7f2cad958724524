---------------------------- MODULE RegistryOps ----------------------------
(***************************************************************************)
(* The state of the sensor registry and the effect of each of its          *)
(* mutators, as functions from one registry state to the next.  The module *)
(* has no variables: SensorRegistry adds the lock, the file and the        *)
(* failures, ControlPlane adds the HTTP handlers.                          *)
(*                                                                         *)
(* Abstractions.  display_name, location and role behave alike and are one *)
(* value ("meta"); device and capabilities behave alike (a producer that   *)
(* omits one keeps the recorded one) and are one value ("device").         *)
(* Timestamps and the observation counter never influence a decision here  *)
(* and are left out; retired_utc is kept as the flag it is used as.        *)
(***************************************************************************)
EXTENDS Naturals

CONSTANTS
  Sources,   \* sensor source ids
  Types,     \* source_type values
  Devices,   \* device descriptions a producer may announce
  Metas,     \* operator metadata values (display name, location, role)
  NoMeta,    \* the metadata of a sensor nobody described
  None       \* Python's None, and "field not in the patch"

Metadata == [meta : Metas \cup {NoMeta}, enabled : BOOLEAN, retired : BOOLEAN]

Discovery == [type : Types, device : Devices \cup {None}]

ASSUME NoneAssumption ==
  /\ None \notin Metadata
  /\ None \notin Discovery
  /\ None \notin Metas \cup {NoMeta}
  /\ None \notin Devices
  /\ None \notin BOOLEAN

Registry ==
  [entries   : [Sources -> Metadata \cup {None}],
   discovery : [Sources -> Discovery \cup {None}],
   control   : [Sources -> Nat],
   revision  : Nat]

EmptyRegistry ==
  [entries   |-> [s \in Sources |-> None],
   discovery |-> [s \in Sources |-> None],
   control   |-> [s \in Sources |-> 0],
   revision  |-> 0]

DefaultMetadata == [meta |-> NoMeta, enabled |-> TRUE, retired |-> FALSE]

-----------------------------------------------------------------------------
(* Queries *)

Get(reg, s) == IF reg.entries[s] = None THEN DefaultMetadata ELSE reg.entries[s]

Contains(reg, s) == reg.entries[s] # None \/ reg.discovery[s] # None

\* What a client can tell apart through the catalog, registration aside.
View(reg) ==
  [metadata  |-> [s \in Sources |-> Get(reg, s)],
   discovery |-> reg.discovery,
   control   |-> reg.control]

-----------------------------------------------------------------------------
(* Mutators: the memory they leave behind before it is saved.              *)

Advance(n, changed) == IF changed THEN n + 1 ELSE n

\* observe() refuses a source id that is known under another source_type.
IdentityConflict(reg, s, t) ==
  reg.discovery[s] # None /\ reg.discovery[s].type # t

\* The recorded device survives an observation that does not name one.
Described(reg, s, t, d) ==
  [type   |-> t,
   device |-> IF d = None /\ reg.discovery[s] # None
              THEN reg.discovery[s].device ELSE d]

Observed(reg, s, t, d) ==
  LET new == Described(reg, s, t, d)
  IN [entries   |-> [reg.entries EXCEPT ![s] = Get(reg, s)],
      discovery |-> [reg.discovery EXCEPT ![s] = new],
      control   |-> reg.control,
      revision  |-> Advance(reg.revision, \/ reg.entries[s] = None
                                          \/ reg.discovery[s] # new)]

Registered(reg, s) ==
  [entries   |-> [reg.entries EXCEPT ![s] = DefaultMetadata],
   discovery |-> reg.discovery,
   control   |-> reg.control,
   revision  |-> reg.revision + 1]

\* Mutant: retiring disables without issuing a command.
RetiredSilently(reg, s) ==
  [entries   |-> [reg.entries EXCEPT ![s] =
                    [meta    |-> Get(reg, s).meta,
                     enabled |-> FALSE,
                     retired |-> TRUE]],
   discovery |-> reg.discovery,
   control   |-> reg.control,
   revision  |-> reg.revision + 1]

Retired(reg, s) ==
  [entries   |-> [reg.entries EXCEPT ![s] =
                    [meta    |-> Get(reg, s).meta,
                     enabled |-> FALSE,
                     retired |-> TRUE]],
   discovery |-> reg.discovery,
   control   |-> [reg.control EXCEPT ![s] = Advance(@, Get(reg, s).enabled)],
   revision  |-> reg.revision + 1]

\* Mutant: restoring is not counted as a new state.
RestoredUncounted(reg, s) ==
  [entries   |-> [reg.entries EXCEPT ![s] =
                    [meta    |-> Get(reg, s).meta,
                     enabled |-> FALSE,
                     retired |-> FALSE]],
   discovery |-> reg.discovery,
   control   |-> reg.control,
   revision  |-> reg.revision]

Restored(reg, s) ==
  [entries   |-> [reg.entries EXCEPT ![s] =
                    [meta    |-> Get(reg, s).meta,
                     enabled |-> FALSE,
                     retired |-> FALSE]],
   discovery |-> reg.discovery,
   control   |-> reg.control,
   revision  |-> reg.revision + 1]

\* Mutant: no default for a control revision that was popped.
ForgottenWithoutDefault(reg, s) ==
  [entries   |-> [reg.entries EXCEPT ![s] = None],
   discovery |-> [reg.discovery EXCEPT ![s] = None],
   control   |-> [reg.control EXCEPT ![s] = None],
   revision  |-> reg.revision + 1]

Forgotten(reg, s) ==
  [entries   |-> [reg.entries EXCEPT ![s] = None],
   discovery |-> [reg.discovery EXCEPT ![s] = None],
   control   |-> [reg.control EXCEPT ![s] = 0],
   revision  |-> reg.revision + 1]

\* The entry a patch of metadata m and switch e (None: field not set) leaves.
PatchedEntry(reg, s, m, e) ==
  [meta    |-> IF m = None THEN Get(reg, s).meta ELSE m,
   enabled |-> IF e = None THEN Get(reg, s).enabled ELSE e,
   retired |-> Get(reg, s).retired]

\* Mutant: every patch that names the switch is a new command.
PatchedAlwaysCommands(reg, s, m, e) ==
  LET new == PatchedEntry(reg, s, m, e)
  IN [entries   |-> [reg.entries EXCEPT ![s] = new],
      discovery |-> reg.discovery,
      control   |-> [reg.control EXCEPT ![s] = Advance(@, e # None)],
      revision  |-> Advance(reg.revision, new # Get(reg, s))]

\* A patch stores its entry even when it changes nothing; only a change
\* advances the state revision, only a flipped switch the control revision.
Patched(reg, s, m, e) ==
  LET new == PatchedEntry(reg, s, m, e)
  IN [entries   |-> [reg.entries EXCEPT ![s] = new],
      discovery |-> reg.discovery,
      control   |-> [reg.control EXCEPT
                       ![s] = Advance(@, new.enabled # Get(reg, s).enabled)],
      revision  |-> Advance(reg.revision, new # Get(reg, s))]

\* Mutant: a retired sensor may be switched on.
PatchNeverRefused(reg, s, e) == FALSE

\* Enabling a retired sensor is refused.
PatchRefused(reg, s, e) == e # None /\ e /\ Get(reg, s).retired
=============================================================================
