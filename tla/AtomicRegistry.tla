--------------------------- MODULE AtomicRegistry ---------------------------
(***************************************************************************)
(* What SensorRegistry promises its callers: a call that returns has made  *)
(* its whole change at one moment, and one that raises or dies has made    *)
(* none.  A bootstrap is not one moment; but if the revision it quotes is  *)
(* the current one when it is delivered, what it shows is the registry.    *)
(* A registry without a file is empty after a restart.                     *)
(***************************************************************************)
EXTENDS RegistryOps

CONSTANT Persistent   \* TRUE when the registry has a file

VARIABLES
  reg,    \* the registry
  shown   \* the bootstrap an operator has, or None

\* What one call about sensor s may make of the registry.
Makes(s, old, new) ==
  \/ \E t \in Types, d \in Devices \cup {None} :
        ~IdentityConflict(old, s, t) /\ new = Observed(old, s, t, d)
  \/ old.entries[s] = None /\ new = Registered(old, s)
  \/ ~Get(old, s).retired /\ new = Retired(old, s)
  \/ Get(old, s).retired /\ new \in {Restored(old, s), Forgotten(old, s)}
  \/ \E m \in Metas \cup {NoMeta, None}, e \in BOOLEAN \cup {None} :
        ~PatchRefused(old, s, e) /\ new = Patched(old, s, m, e)

Init == reg = EmptyRegistry /\ shown = None

Call ==
  /\ reg' # reg
  /\ \E s \in Sources : Makes(s, reg, reg')
  /\ shown' = shown

\* A new bootstrap begins, or the old one is given up.
Ask == shown' = None /\ reg' = reg

Deliver ==
  /\ reg' = reg
  /\ shown = None
  /\ shown' # None
  /\ shown'.revision <= reg.revision
  /\ shown'.revision = reg.revision => shown'.view = View(reg)

Restart == ~Persistent /\ reg' = EmptyRegistry /\ shown' \in {shown, None}

Next == Call \/ Ask \/ Deliver \/ Restart

Spec == Init /\ [][Next]_<<reg, shown>>
=============================================================================
