-------------------------- MODULE ControlLoopProofs --------------------------
(***************************************************************************)
(* The safety properties of ControlLoop for every registry, every kind of  *)
(* producer and any number of commands, faults and late messages.          *)
(*                                                                         *)
(* The argument.  A report carries the number of the command it answers,   *)
(* numbers only grow until the source is forgotten, and every change of    *)
(* the switch takes a new one.  So what says "off, as of the last command" *)
(* (SaysOff) was said after that command, by a producer that had closed    *)
(* its camera and can only be told "off" since: OffInv, by the state of    *)
(* the producer.                                                           *)
(***************************************************************************)
EXTENDS ControlLoop, RegistryOpsProofs

\* A command number of an epoch that has been given out.
Past(e, n) == e <= epoch /\ (e = epoch => n <= Revision)

\* Command numbers on their way, kept or read are never ahead of the core.
PastInv ==
  /\ \A h \in wire : Past(h.epoch, h.applied)
  /\ desired # None => Past(desired.epoch, desired.revision)
  /\ Told(row) => Past(row.epoch, row.applied)
  /\ look.at # "idle" => Told(look.row) /\ Past(look.row.epoch, look.row.applied)

\* A report that the last command was "off" and has been applied.
SaysOff(r) ==
  ~r.active /\ r.epoch = epoch /\ r.applied = Revision /\ ~Enabled

\* Then the camera is closed, no frame is under way and none was asked for.
Dark == ~open /\ pc # "frame" /\ (desired # None => ~desired.enabled)

OffInv ==
  /\ \A h \in wire : SaysOff(h) => Dark
  /\ Told(row) /\ SaysOff(row) => Dark

\* Where the producer is says what it holds.
ProducerInv ==
  /\ pc \in {"down", "dispatched", "closed"} => ~open
  /\ kind = "android" /\ slot = "free" => pc = "down"
  /\ pc \in {"fetch", "apply", "wait"} => desired # None

RetiredInv == Get(reg, Source).retired => ~Enabled

\* What the catalog read of the switch is still so if the row is up to date.
LookInv ==
  /\ look \in [at : {"idle", "row", "enabled"}, row : Row \cup {None},
               enabled : BOOLEAN]
  /\ look.at = "enabled" /\ look.row.epoch = epoch
       /\ look.row.applied = Revision
     => look.enabled = Enabled

LoopInv ==
  /\ TypeOK /\ RetiredInv /\ PastInv /\ ProducerInv /\ OffInv /\ LookInv

-----------------------------------------------------------------------------
(* What steps do to the switch                                             *)

(* The switch and the number of its last command are typed. *)
LEMMA SwitchIs ==
  ASSUME TypeOK
  PROVE  Enabled \in BOOLEAN /\ Revision \in Nat /\ epoch \in Nat
BY SwitchType, ControlLoopAssumption DEF TypeOK, Enabled, Revision

(* A report or a frame registers its source and leaves the switch alone. *)
LEMMA ObservedKeepsSwitch ==
  ASSUME TypeOK
  PROVE  LET new == Observed(reg, Source, Type, None)
         IN /\ new \in Registry
            /\ Get(new, Source) = Get(reg, Source)
            /\ new.control[Source] = Revision
<1>1. /\ reg \in Registry /\ Source \in Sources /\ Type \in Types
      /\ None \in Devices \cup {None}
  BY ControlLoopAssumption DEF TypeOK
<1>2. QED
  BY <1>1, ObservedIs DEF Revision

(* The reports that are on their way, kept or read are numbered. *)
LEMMA ReportTypes ==
  ASSUME TypeOK, LookInv
  PROVE  /\ \A h \in wire : h.applied \in Nat /\ h.epoch \in Nat
         /\ desired # None =>
              /\ desired.revision \in Nat /\ desired.epoch \in Nat
              /\ desired.enabled \in BOOLEAN
         /\ row # None => row \in Row
         /\ Told(row) => row.applied \in Nat /\ row.epoch \in Nat
         /\ Told(look.row) => look.row.applied \in Nat /\ look.row.epoch \in Nat
<1>1. \A h \in wire : h.applied \in Nat /\ h.epoch \in Nat
  BY DEF TypeOK, Heartbeat
<1>2. desired # None => /\ desired.revision \in Nat /\ desired.epoch \in Nat
                        /\ desired.enabled \in BOOLEAN
  BY DEF TypeOK, Desired
<1>3. row # None => row \in Row
  BY DEF TypeOK
<1>4. \A r \in Row \cup {None} : Told(r) => r.applied \in Nat /\ r.epoch \in Nat
  BY DEF Told, Row
<1>5. QED
  BY <1>1, <1>2, <1>3, <1>4 DEF TypeOK, LookInv

(* A command number given out before stays so, and is not the next one. *)
LEMMA PastGrows ==
  ASSUME NEW e \in Nat, NEW n \in Nat, NEW now \in Nat, NEW r \in Nat,
         NEW r1 \in {r, r + 1}, e <= now /\ (e = now => n <= r)
  PROVE  /\ e <= now /\ (e = now => n <= r1)
         /\ e = now /\ n = r1 => r1 = r
OBVIOUS

-----------------------------------------------------------------------------
(* The operator and the core                                               *)

(* A command leaves what was said before it behind. *)
LEMMA OperateKeeps ==
  ASSUME LoopInv, NEW changed \in Registry, Operate(changed),
         Get(changed, Source).retired => ~Get(changed, Source).enabled,
         \/ /\ Get(changed, Source).enabled = Enabled
            /\ changed.control[Source] = Revision
         \/ changed.control[Source] = Revision + 1
  PROVE  LoopInv'
<1>1. /\ reg' = changed
      /\ UNCHANGED <<row, epoch, network, producer, control, look, faults>>
  BY DEF Operate
<1>2. /\ UNCHANGED <<row, epoch, wire, late, kind, pc, desired, open, slot,
                     cancelled, look, faults>>
      /\ TypeOK /\ LookInv /\ PastInv /\ OffInv
  BY <1>1 DEF network, producer, control, LoopInv
<1>3. TypeOK'
  BY <1>1, <1>2 DEF TypeOK
<1>4. /\ Enabled \in BOOLEAN /\ Revision \in Nat /\ epoch \in Nat
      /\ Revision' \in {Revision, Revision + 1}
      /\ Revision' = Revision => Enabled' = Enabled
  <2>1. Enabled \in BOOLEAN /\ Revision \in Nat /\ epoch \in Nat
    BY <1>2, SwitchIs
  <2>2. Enabled' = Get(changed, Source).enabled /\ Revision' = changed.control[Source]
    BY <1>1 DEF Enabled, Revision
  <2> DEFINE r == Revision
             r1 == Revision'
  <2>3. r \in Nat /\ ((r1 = r /\ Enabled' = Enabled) \/ r1 = r + 1)
    BY <2>1, <2>2
  <2> HIDE DEF r, r1
  <2>4. r1 \in {r, r + 1} /\ (r1 = r => Enabled' = Enabled)
    BY <2>3
  <2>5. QED
    BY <2>1, <2>4 DEF r, r1
<1> DEFINE r == Revision
           r1 == Revision'
<1>5. ASSUME NEW e \in Nat, NEW n \in Nat, Past(e, n)
      PROVE  /\ e <= epoch /\ (e = epoch => n <= r1)
             /\ e = epoch /\ n = r1 => Revision' = Revision /\ Enabled' = Enabled
  <2>1. r \in Nat /\ r1 \in {r, r + 1} /\ e <= epoch /\ (e = epoch => n <= r)
    BY <1>4, <1>5 DEF Past
  <2> HIDE DEF r, r1
  <2>2. /\ e <= epoch /\ (e = epoch => n <= r1)
        /\ e = epoch /\ n = r1 => r1 = r
    BY <1>4, <2>1, PastGrows
  <2>3. QED
    BY <1>4, <2>2 DEF r, r1
<1> HIDE DEF r, r1
<1>6. PastInv'
  <2>1. ASSUME NEW e \in Nat, NEW n \in Nat, Past(e, n)
        PROVE  Past(e, n)'
    BY <1>2, <1>5, <2>1 DEF Past, r1
  <2>2. QED
    BY <1>2, <2>1, ReportTypes DEF PastInv, Told
<1>7. ASSUME NEW b \in wire \cup {row}, b \in wire \/ Told(row), SaysOff(b)'
      PROVE  SaysOff(b)
  <2>1. b.applied \in Nat /\ b.epoch \in Nat /\ Past(b.epoch, b.applied)
    BY <1>2, <1>7, ReportTypes DEF PastInv
  <2>2. b.epoch = epoch /\ b.applied = r1
    BY <1>2, <1>7 DEF SaysOff, r1
  <2>3. Revision' = Revision /\ Enabled' = Enabled
    BY <1>5, <2>1, <2>2
  <2>4. QED
    BY <1>2, <1>7, <2>3 DEF SaysOff
<1>8. OffInv'
  BY <1>2, <1>7 DEF OffInv, Dark, Told
<1>9. LookInv'
  <2>1. SUFFICES ASSUME look.at = "enabled", look.row.epoch = epoch,
                        look.row.applied = Revision'
                 PROVE  look.enabled = Enabled'
    BY <1>2 DEF LookInv
  <2>2. Told(look.row) /\ Past(look.row.epoch, look.row.applied)
    BY <1>2, <2>1 DEF PastInv
  <2>3. Revision' = Revision /\ Enabled' = Enabled
    BY <1>2, <1>5, <2>1, <2>2, ReportTypes DEF r1
  <2>4. QED
    BY <1>2, <2>1, <2>3 DEF LookInv
<1>10. RetiredInv'
  BY <1>1 DEF RetiredInv, Enabled
<1>11. ProducerInv'
  BY <1>2 DEF LoopInv, ProducerInv
<1>12. QED
  BY <1>3, <1>6, <1>8, <1>9, <1>10, <1>11 DEF LoopInv

(* Enabling, disabling, retiring and restoring. *)
LEMMA CommandsKeep ==
  ASSUME LoopInv, (\E e \in BOOLEAN : Command(e)) \/ Retire \/ Restore
  PROVE  LoopInv'
<1>1. /\ reg \in Registry /\ Source \in Sources /\ Enabled \in BOOLEAN
      /\ Get(reg, Source).retired => ~Get(reg, Source).enabled
  BY ControlLoopAssumption, SwitchIs DEF LoopInv, TypeOK, RetiredInv, Enabled
<1>2. ASSUME NEW e \in BOOLEAN, Command(e)
      PROVE  LoopInv'
  <2> DEFINE changed == Patched(reg, Source, None, e)
             entry == PatchedEntry(reg, Source, None, e)
  <2>1. /\ ~PatchRefused(reg, Source, e) /\ e # Enabled /\ Operate(changed)
        /\ e # None
    BY <1>2, NoneAssumption DEF Command
  <2>2. /\ changed \in Registry /\ Get(changed, Source) = entry
        /\ changed.control[Source] =
             IF entry.enabled # Get(reg, Source).enabled
             THEN reg.control[Source] + 1 ELSE reg.control[Source]
    BY <1>1, PatchedIs
  <2>3. entry.enabled = e /\ entry.retired = Get(reg, Source).retired
    BY <2>1 DEF PatchedEntry
  <2> HIDE DEF changed, entry
  <2>4. changed.control[Source] = Revision + 1
    BY <2>1, <2>2, <2>3 DEF Enabled, Revision
  <2>5. Get(changed, Source).retired => ~Get(changed, Source).enabled
    BY <2>1, <2>2, <2>3 DEF PatchRefused
  <2>6. QED
    BY <2>1, <2>2, <2>4, <2>5, OperateKeeps
<1>3. CASE Retire
  <2> DEFINE changed == Retired(reg, Source)
  <2>1. Operate(changed)
    BY <1>3 DEF Retire
  <2>2. /\ changed \in Registry /\ ~Get(changed, Source).enabled
        /\ changed.control[Source] =
             IF Get(reg, Source).enabled THEN reg.control[Source] + 1
             ELSE reg.control[Source]
    BY <1>1, RetiredIs
  <2>3. Get(changed, Source).enabled \in BOOLEAN
    BY <1>1, <2>2, SwitchType
  <2> HIDE DEF changed
  <2>4. \/ /\ Get(changed, Source).enabled = Enabled
           /\ changed.control[Source] = Revision
        \/ changed.control[Source] = Revision + 1
    BY <1>1, <2>2, <2>3 DEF Enabled, Revision
  <2>5. QED
    BY <2>1, <2>2, <2>4, OperateKeeps
<1>4. CASE Restore
  <2> DEFINE changed == Restored(reg, Source)
  <2>1. Operate(changed) /\ ~Enabled
    BY <1>1, <1>4 DEF Restore, Enabled
  <2>2. /\ changed \in Registry /\ ~Get(changed, Source).enabled
        /\ changed.control = reg.control
    BY <1>1, RestoredIs
  <2>3. Get(changed, Source).enabled \in BOOLEAN
    BY <1>1, <2>2, SwitchType
  <2> HIDE DEF changed
  <2>4. /\ Get(changed, Source).enabled = Enabled
        /\ changed.control[Source] = Revision
    BY <1>1, <2>1, <2>2, <2>3 DEF Revision
  <2>5. QED
    BY <2>1, <2>2, <2>4, OperateKeeps
<1>5. QED
  BY <1>2, <1>3, <1>4

(* Forgetting the source starts another epoch of command numbers. *)
LEMMA ForgetKeeps ==
  ASSUME LoopInv, Forget
  PROVE  LoopInv'
<1>1. /\ reg' = Forgotten(reg, Source) /\ row' = None /\ epoch' = epoch + 1
      /\ look' = NoLook
      /\ UNCHANGED <<wire, late, kind, pc, desired, open, slot, cancelled, faults>>
  BY DEF Forget, network, producer, control
<1>2. TypeOK /\ LookInv /\ PastInv /\ epoch \in Nat
  BY SwitchIs DEF LoopInv
<1>3. reg' \in Registry /\ Get(reg', Source) = DefaultMetadata
  BY <1>1, <1>2, ControlLoopAssumption, ForgottenIs DEF TypeOK
<1>4. TypeOK'
  BY <1>1, <1>2, <1>3 DEF TypeOK, NoLook
<1>5. ASSUME NEW e \in Nat, NEW n \in Nat, Past(e, n)
      PROVE  e # epoch' /\ Past(e, n)'
  BY <1>1, <1>2, <1>5 DEF Past
<1>6. PastInv'
  BY <1>1, <1>2, <1>5, ReportTypes DEF PastInv, Told, NoLook
<1>7. OffInv'
  BY <1>1, <1>2, <1>5, ReportTypes DEF PastInv, OffInv, SaysOff, Told
<1>8. LookInv'
  BY <1>1 DEF LookInv, NoLook
<1>9. RetiredInv'
  BY <1>3 DEF RetiredInv, DefaultMetadata
<1>10. ProducerInv'
  BY <1>1 DEF LoopInv, ProducerInv
<1>11. QED
  BY <1>4, <1>6, <1>7, <1>8, <1>9, <1>10 DEF LoopInv

(* After a restart of the core nobody has told it anything. *)
LEMMA CoreRestartKeeps ==
  ASSUME LoopInv, CoreRestart
  PROVE  LoopInv'
<1>1. /\ row' = None /\ faults < MaxFaults /\ faults' = faults + 1
      /\ UNCHANGED <<reg, epoch, wire, late, kind, pc, desired, open, slot,
                     cancelled, look>>
  BY DEF CoreRestart, Fault, network, producer, control
<1>2. TypeOK'
  BY <1>1, ControlLoopAssumption DEF LoopInv, TypeOK
<1>3. Enabled' = Enabled /\ Revision' = Revision
  BY <1>1 DEF Enabled, Revision
<1>4. PastInv'
  BY <1>1, <1>3 DEF LoopInv, PastInv, Past, Told
<1>5. OffInv'
  BY <1>1, <1>3 DEF LoopInv, OffInv, SaysOff, Dark, Told
<1>6. LookInv' /\ RetiredInv' /\ ProducerInv'
  BY <1>1, <1>3 DEF LoopInv, LookInv, RetiredInv, ProducerInv
<1>7. QED
  BY <1>2, <1>4, <1>5, <1>6 DEF LoopInv

-----------------------------------------------------------------------------
(* The producer                                                            *)

(* A step of the producer that tells nobody anything new: it keeps the     *)
(* invariant if it keeps a dark producer dark.                             *)
LEMMA QuietKeeps ==
  ASSUME LoopInv, UNCHANGED <<core, look>>, TypeOK', ProducerInv',
         wire' \subseteq wire, desired' \in {None, desired}, Dark => Dark'
  PROVE  LoopInv'
<1>1. UNCHANGED <<reg, row, epoch, look>>
  BY DEF core
<1>2. Enabled' = Enabled /\ Revision' = Revision
  BY <1>1 DEF Enabled, Revision
<1>3. PastInv'
  BY <1>1, <1>2 DEF LoopInv, PastInv, Past, Told
<1>4. OffInv'
  <2>1. ASSUME NEW b, SaysOff(b)' PROVE SaysOff(b)
    BY <1>1, <1>2, <2>1 DEF SaysOff
  <2>2. ASSUME NEW h \in wire', SaysOff(h)' PROVE Dark'
    BY <2>1, <2>2 DEF LoopInv, OffInv
  <2>3. ASSUME Told(row'), SaysOff(row)' PROVE Dark'
    BY <1>1, <1>2, <2>3 DEF LoopInv, OffInv, SaysOff
  <2>4. QED
    BY <1>1, <2>2, <2>3 DEF OffInv, Told
<1>5. LookInv' /\ RetiredInv'
  BY <1>1, <1>2 DEF LoopInv, LookInv, RetiredInv
<1>6. QED
  BY <1>3, <1>4, <1>5 DEF LoopInv

\* The steps of the producer that send no report and fetch no command.
Quiet ==
  \/ Start \/ Stop \/ Dispatch \/ RefreshFails \/ FetchFails \/ NotDue
  \/ OpenFails \/ BeatFails \/ FrameDropped \/ FrameEnds \/ Sleep \/ Close
  \/ End \/ Die

(* They change nothing of the core and forget commands, never invent one. *)
LEMMA QuietIs ==
  ASSUME LoopInv, Quiet
  PROVE  /\ UNCHANGED <<core, look>>
         /\ wire' \subseteq wire /\ desired' \in {None, desired}
<1> USE DEF Quiet, network, producer, control, Step
<1>1. CASE Start \/ Stop \/ Dispatch \/ RefreshFails \/ FetchFails
  BY <1>1 DEF Start, Stop, Dispatch, RefreshFails, FetchFails
<1>2. CASE NotDue \/ OpenFails \/ FrameDropped \/ FrameEnds
  BY <1>2 DEF NotDue, OpenFails, FrameDropped, FrameEnds
<1>3. CASE BeatFails
  BY <1>3 DEF BeatFails
<1>4. CASE Sleep \/ Close \/ End \/ Die
  BY <1>4 DEF Sleep, Close, End, Die
<1>5. QED
  BY <1>1, <1>2, <1>3, <1>4

(* The producer's own steps keep its state typed. *)
LEMMA QuietTypes ==
  ASSUME LoopInv, Quiet
  PROVE  TypeOK'
<1>1. /\ UNCHANGED <<reg, row, epoch, look>> /\ TypeOK
      /\ wire' \subseteq wire /\ desired' \in {None, desired}
  BY QuietIs DEF core, LoopInv
<1>2. faults' \in 0 .. MaxFaults
  <2>1. faults' = faults \/ Fault
    BY DEF Quiet, Start, Stop, Dispatch, RefreshFails, FetchFails, NotDue,
           OpenFails, BeatFails, FrameDropped, FrameEnds, Sleep, Close, End, Die
  <2>2. QED
    BY <1>1, <2>1, ControlLoopAssumption DEF TypeOK, Fault
<1>3. late' \in 0 .. MaxLate
  <2>1. CASE FrameDropped
    BY <1>1, <2>1, ControlLoopAssumption DEF TypeOK, FrameDropped
  <2>2. CASE ~FrameDropped
    <3>1. late' = late
      BY <2>2 DEF Quiet, network, Step, Start, Stop, Dispatch, RefreshFails,
           FetchFails, NotDue, OpenFails, BeatFails, FrameEnds, Sleep, Close,
           End, Die
    <3>2. QED
      BY <1>1, <3>1 DEF TypeOK
  <2>3. QED
    BY <2>1, <2>2
<1>4. /\ pc' \in Labels /\ open' \in BOOLEAN /\ cancelled' \in BOOLEAN
      /\ slot' \in {"free", "claimed"} /\ kind' = kind
  <2> USE <1>1 DEF TypeOK, Labels, producer, control, network, Step, Goto
  <2>1. CASE Start \/ Stop \/ Dispatch
    BY <2>1 DEF Start, Stop, Dispatch
  <2>2. CASE RefreshFails \/ FetchFails \/ NotDue \/ OpenFails
    BY <2>2 DEF RefreshFails, FetchFails, NotDue, OpenFails
  <2>3. CASE BeatFails \/ FrameDropped \/ FrameEnds
    BY <2>3 DEF BeatFails, FrameDropped, FrameEnds
  <2>4. CASE Sleep \/ Close \/ End \/ Die
    BY <2>4 DEF Sleep, Close, End, Die
  <2>5. QED
    BY <2>1, <2>2, <2>3, <2>4 DEF Quiet
<1>5. QED
  BY <1>1, <1>2, <1>3, <1>4 DEF TypeOK

(* The camera is closed before the slot is given up, and stays closed      *)
(* until the next run.                                                     *)
LEMMA QuietProducer ==
  ASSUME LoopInv, Quiet
  PROVE  ProducerInv' /\ (Dark => Dark')
<1> USE DEF LoopInv, TypeOK, Labels, ProducerInv, Dark, producer, control,
            network, Step, Goto
<1>1. CASE Start
  BY <1>1 DEF Start
<1>2. CASE Stop
  BY <1>2 DEF Stop
<1>3. CASE Dispatch
  BY <1>3 DEF Dispatch
<1>4. CASE RefreshFails
  BY <1>4 DEF RefreshFails
<1>5. CASE FetchFails
  BY <1>5 DEF FetchFails
<1>6. CASE NotDue
  BY <1>6 DEF NotDue
<1>7. CASE OpenFails
  BY <1>7 DEF OpenFails
<1>8. CASE BeatFails
  BY <1>8 DEF BeatFails
<1>9. CASE FrameDropped
  BY <1>9 DEF FrameDropped
<1>10. CASE FrameEnds
  BY <1>10 DEF FrameEnds
<1>11. CASE Sleep
  BY <1>11 DEF Sleep
<1>12. CASE Close
  BY <1>12 DEF Close
<1>13. CASE End
  BY <1>13 DEF End
<1>14. CASE Die
  BY <1>14 DEF Die
<1>15. QED
  BY <1>1, <1>2, <1>3, <1>4, <1>5, <1>6, <1>7, <1>8, <1>9, <1>10, <1>11,
     <1>12, <1>13, <1>14 DEF Quiet

(* So they keep the invariant. *)
LEMMA QuietStepKeeps ==
  ASSUME LoopInv, Quiet
  PROVE  LoopInv'
BY QuietIs, QuietTypes, QuietProducer, QuietKeeps

(* What a fetch brings is the switch and the command number of the core:   *)
(* when the last command was "off" and has been applied, the switch is off *)
(* still.                                                                  *)
LEMMA FetchKeeps ==
  ASSUME LoopInv, FetchEnabled \/ FetchRevision
  PROVE  LoopInv'
<1>1. /\ UNCHANGED <<reg, row, epoch, look, kind, slot, cancelled, wire, late,
                     open, faults>>
      /\ Enabled' = Enabled /\ Revision' = Revision
  BY DEF FetchEnabled, FetchRevision, Step, core, control, network, Enabled,
         Revision
<1>2. /\ TypeOK /\ Enabled \in BOOLEAN /\ Revision \in Nat /\ epoch \in Nat
      /\ ProducerInv /\ OffInv /\ LookInv
  BY SwitchIs DEF LoopInv
<1>3. /\ pc \in {"top", "fetch"} /\ pc' \in {"fetch", "apply"}
      /\ desired' \in Desired /\ desired' # None /\ Past(desired.epoch, desired.revision)'
      /\ desired'.enabled = Enabled \/ (desired # None /\ desired'.enabled = desired.enabled)
  <2>1. CASE FetchEnabled
    <3>1. desired' = [enabled |-> Enabled, revision |-> 0, epoch |-> epoch]
      BY <2>1 DEF FetchEnabled
    <3>2. desired' \in Desired
      BY <1>2, <3>1 DEF Desired
    <3>3. QED
      BY <1>1, <1>2, <2>1, <3>1, <3>2, ControlLoopAssumption
      DEF FetchEnabled, Step, Goto, Past
  <2>2. CASE FetchRevision
    <3>1. /\ desired' = [desired EXCEPT !.revision = Revision, !.epoch = epoch]
          /\ desired \in Desired /\ desired # None
      BY <1>2, <2>2 DEF FetchRevision, Step, ProducerInv, TypeOK
    <3>2. /\ desired' \in Desired /\ desired'.enabled = desired.enabled
          /\ desired'.revision = Revision /\ desired'.epoch = epoch
      BY <1>2, <3>1 DEF Desired
    <3>3. QED
      BY <1>1, <1>2, <2>2, <3>1, <3>2, ControlLoopAssumption
      DEF FetchRevision, Step, Goto, Past
  <2>3. QED
    BY <2>1, <2>2
<1>4. TypeOK'
  BY <1>1, <1>2, <1>3 DEF TypeOK, Labels
<1>5. PastInv'
  BY <1>1, <1>3 DEF LoopInv, PastInv, Past, Told
<1>6. ASSUME Dark, ~Enabled
      PROVE  Dark'
  BY <1>1, <1>3, <1>6 DEF Dark
<1>7. OffInv'
  BY <1>1, <1>2, <1>6 DEF OffInv, SaysOff, Told
<1>8. LookInv' /\ RetiredInv' /\ ProducerInv'
  BY <1>1, <1>3 DEF LoopInv, LookInv, RetiredInv, ProducerInv
<1>9. QED
  BY <1>4, <1>5, <1>7, <1>8 DEF LoopInv

(* The camera is where the report says it is when the report is sent. *)
LEMMA ApplyKeeps ==
  ASSUME LoopInv, Apply
  PROVE  LoopInv'
<1>1. /\ UNCHANGED <<reg, row, epoch, look, kind, slot, cancelled, late, desired,
                     faults>>
      /\ pc = "apply" /\ pc' = "wait" /\ open' = desired.enabled
      /\ wire' = wire \cup {Beat}
      /\ Enabled' = Enabled /\ Revision' = Revision
  BY DEF Apply, Post, Step, Goto, core, control, Enabled, Revision
<1>2. /\ TypeOK /\ ProducerInv /\ OffInv /\ LookInv /\ PastInv
      /\ desired # None /\ desired \in Desired
  BY <1>1 DEF LoopInv, ProducerInv, TypeOK
<1>3. /\ Beat.active = desired.enabled /\ Beat.applied = desired.revision
      /\ Beat.epoch = desired.epoch /\ Beat \in Heartbeat
      /\ desired.enabled \in BOOLEAN
  BY <1>2 DEF Beat, Heartbeat, Desired
<1> HIDE DEF Beat
<1>4. TypeOK'
  BY <1>1, <1>2, <1>3 DEF TypeOK, Labels
<1>5. PastInv'
  BY <1>1, <1>2, <1>3 DEF PastInv, Past, Told
<1>6. ASSUME ~desired.enabled
      PROVE  Dark'
  BY <1>1, <1>6 DEF Dark
<1>7. OffInv'
  <2>1. ASSUME NEW b \in wire' \cup {row}, b \in wire' \/ Told(row), SaysOff(b)'
        PROVE  Dark'
    <3>1. SaysOff(b)
      BY <1>1, <2>1 DEF SaysOff
    <3>2. b = Beat => ~desired.enabled
      BY <1>3, <3>1 DEF SaysOff
    <3>3. b # Beat => Dark
      BY <1>1, <1>2, <2>1, <3>1 DEF OffInv
    <3>4. QED
      BY <1>2, <1>6, <3>2, <3>3 DEF Dark
  <2>2. QED
    BY <1>1, <2>1 DEF OffInv, Told
<1>8. LookInv' /\ RetiredInv' /\ ProducerInv'
  BY <1>1, <1>2 DEF LoopInv, LookInv, RetiredInv, ProducerInv
<1>9. QED
  BY <1>4, <1>5, <1>7, <1>8 DEF LoopInv

-----------------------------------------------------------------------------
(* Reports and frames arrive                                               *)

(* What is recorded of a report or a frame keeps the invariant when it is  *)
(* numbered, does not say "off" of a producer that is not dark, and leaves *)
(* a dark producer dark.                                                   *)
LEMMA ArrivalKeeps ==
  ASSUME LoopInv, reg' = Observed(reg, Source, Type, None),
         UNCHANGED <<epoch, look>>, TypeOK', ProducerInv',
         wire' \subseteq wire, desired' \in {None, desired}, Dark => Dark',
         Told(row') => Past(row'.epoch, row'.applied),
         Told(row') /\ SaysOff(row') => Dark
  PROVE  LoopInv'
<1>1. /\ TypeOK /\ PastInv /\ OffInv /\ LookInv /\ RetiredInv
      /\ epoch' = epoch /\ look' = look
  BY DEF LoopInv
<1>2. /\ Enabled' = Enabled /\ Revision' = Revision
      /\ Get(reg, Source)' = Get(reg, Source)
  BY <1>1, ObservedKeepsSwitch DEF Enabled, Revision
<1>3. \A e, n : Past(e, n)' <=> Past(e, n)
  BY <1>1, <1>2 DEF Past
<1>4. PastInv'
  BY <1>1, <1>3 DEF PastInv, Told
<1>5. OffInv'
  <2>1. \A h \in wire' : SaysOff(h)' => Dark'
    BY <1>1, <1>2 DEF OffInv, SaysOff
  <2>2. Told(row') /\ SaysOff(row)' => Dark'
    BY <1>1, <1>2 DEF SaysOff
  <2>3. QED
    BY <2>1, <2>2 DEF OffInv, Told
<1>6. LookInv' /\ RetiredInv'
  BY <1>1, <1>2 DEF LookInv, RetiredInv
<1>7. QED
  BY <1>4, <1>5, <1>6 DEF LoopInv

(* A report replaces the row, whoever sent it and however late it is. *)
LEMMA DeliverKeeps ==
  ASSUME LoopInv, NEW h \in wire, Deliver(h)
  PROVE  LoopInv'
<1>1. /\ wire' = wire \ {h} /\ row' = Reported(h)
      /\ reg' = Observed(reg, Source, Type, None)
      /\ UNCHANGED <<epoch, look, late, kind, open, slot, cancelled>>
      /\ \/ pc = "wait" /\ desired' = None /\ pc' = AfterBeat /\ faults' = faults
         \/ pc = "wait" /\ desired' = None /\ pc' = "closing" /\ Fault
         \/ UNCHANGED <<pc, desired, faults>>
  BY DEF Deliver, Goto, control
<1>2. TypeOK /\ PastInv /\ OffInv /\ ProducerInv /\ h \in Heartbeat
  BY DEF LoopInv, TypeOK
<1>3. /\ row' \in Row /\ row' # None
      /\ row'.active = h.active /\ row'.applied = h.applied /\ row'.epoch = h.epoch
  BY <1>1, <1>2, ControlLoopAssumption DEF Reported, Heartbeat, Row
<1>4. faults' \in 0 .. MaxFaults
  BY <1>1, <1>2, ControlLoopAssumption DEF Fault, TypeOK
<1>5. AfterBeat \in {"frame", "sleep"} /\ (AfterBeat = "frame" => desired.enabled)
  BY DEF AfterBeat
<1>6. TypeOK'
  <2>1. reg' \in Registry
    BY <1>1, <1>2, ObservedKeepsSwitch
  <2>2. pc' \in Labels /\ desired' \in Desired \cup {None}
    BY <1>1, <1>2, <1>5 DEF TypeOK, Labels
  <2>3. QED
    BY <1>1, <1>2, <1>3, <1>4, <2>1, <2>2 DEF TypeOK
<1>7. ProducerInv'
  BY <1>1, <1>2, <1>5 DEF ProducerInv
<1>8. Dark => Dark'
  <2>1. pc = "wait" => desired # None
    BY <1>2 DEF ProducerInv
  <2>2. QED
    BY <1>1, <1>5, <2>1 DEF Dark
<1>9. Past(row'.epoch, row'.applied)
  BY <1>2, <1>3 DEF PastInv
<1>10. SaysOff(row') => Dark
  BY <1>2, <1>3 DEF OffInv, SaysOff
<1>11. wire' \subseteq wire /\ desired' \in {None, desired}
  BY <1>1
<1>12. QED
  BY <1>1, <1>6, <1>7, <1>8, <1>9, <1>10, <1>11, ArrivalKeeps

(* A frame leaves a row that says the camera is open, and what it says of  *)
(* commands as it was.                                                     *)
LEMMA FrameSeenIs ==
  ASSUME LoopInv
  PROVE  /\ FrameSeen \in Row
         /\ Told(FrameSeen) => Past(FrameSeen.epoch, FrameSeen.applied)
         /\ ~SaysOff(FrameSeen)
<1>1. epoch \in Nat
  BY SwitchIs DEF LoopInv
<1>2. CASE row = None
  <2>1. FrameSeen = [active |-> TRUE, applied |-> None, epoch |-> epoch]
    BY <1>2 DEF FrameSeen
  <2>2. QED
    BY <1>1, <2>1 DEF Row, Told, SaysOff
<1>3. CASE row # None
  <2>1. FrameSeen = [row EXCEPT !.active = TRUE] /\ row \in Row
    BY <1>3 DEF FrameSeen, LoopInv, TypeOK
  <2>2. /\ FrameSeen \in Row /\ FrameSeen.active = TRUE
        /\ FrameSeen.applied = row.applied /\ FrameSeen.epoch = row.epoch
    BY <2>1 DEF Row
  <2>3. QED
    BY <1>3, <2>2 DEF LoopInv, PastInv, Told, SaysOff
<1>4. QED
  BY <1>2, <1>3

(* A frame of the run in progress. *)
LEMMA FrameAcceptedKeeps ==
  ASSUME LoopInv, FrameAccepted
  PROVE  LoopInv'
<1>1. /\ pc = "frame" /\ row' = FrameSeen /\ open' = TRUE /\ pc' = "sleep"
      /\ reg' = Observed(reg, Source, Type, None)
      /\ UNCHANGED <<epoch, wire, late, kind, desired, slot, cancelled, look, faults>>
  BY DEF FrameAccepted, Goto, network, control
<1>2. TypeOK /\ ProducerInv
  BY DEF LoopInv
<1>3. TypeOK'
  BY <1>1, <1>2, FrameSeenIs, ObservedKeepsSwitch DEF TypeOK, Labels
<1>4. ProducerInv'
  BY <1>1, <1>2 DEF ProducerInv
<1>5. ~Dark
  BY <1>1 DEF Dark
<1>6. (Told(row') => Past(row'.epoch, row'.applied)) /\ ~SaysOff(row')
  BY <1>1, FrameSeenIs
<1>7. wire' \subseteq wire /\ desired' \in {None, desired}
  BY <1>1
<1>8. QED
  BY <1>1, <1>3, <1>4, <1>5, <1>6, <1>7, ArrivalKeeps

(* A frame its sender gave up, of this run or of one that is over. *)
LEMMA LateFrameKeeps ==
  ASSUME LoopInv, LateFrame
  PROVE  LoopInv'
<1>1. /\ late > 0 /\ late' = late - 1
      /\ UNCHANGED <<epoch, wire, kind, pc, desired, open, slot, cancelled, look, faults>>
  BY DEF LateFrame, producer, control
<1>2. TypeOK /\ ProducerInv
  BY DEF LoopInv
<1>3. late' \in 0 .. MaxLate
  BY <1>1, <1>2, ControlLoopAssumption DEF TypeOK
<1>4. ProducerInv' /\ (Dark => Dark')
  BY <1>1, <1>2 DEF ProducerInv, Dark
<1>5. CASE UNCHANGED <<row, reg>>
  <2>1. TypeOK'
    BY <1>1, <1>2, <1>3, <1>5 DEF TypeOK
  <2>2. UNCHANGED <<core, look>> /\ wire' \subseteq wire /\ desired' \in {None, desired}
    BY <1>1, <1>5 DEF core
  <2>3. QED
    BY <1>4, <2>1, <2>2, QuietKeeps
<1>6. CASE row' = FrameSeen /\ reg' = Observed(reg, Source, Type, None)
  <2>1. TypeOK'
    BY <1>1, <1>2, <1>3, <1>6, FrameSeenIs, ObservedKeepsSwitch DEF TypeOK
  <2>2. (Told(row') => Past(row'.epoch, row'.applied)) /\ ~SaysOff(row')
    BY <1>6, FrameSeenIs
  <2>3. wire' \subseteq wire /\ desired' \in {None, desired}
    BY <1>1
  <2>4. QED
    BY <1>1, <1>4, <1>6, <2>1, <2>2, <2>3, ArrivalKeeps
<1>7. QED
  BY <1>5, <1>6 DEF LateFrame

-----------------------------------------------------------------------------
(* The catalog and the whole                                               *)

(* What the catalog reads of the switch is current when it reads it. *)
LEMMA LookKeeps ==
  ASSUME LoopInv, LookRow \/ LookEnabled \/ LookRevision
  PROVE  LoopInv'
<1>1. UNCHANGED <<reg, row, epoch, wire, late, kind, pc, desired, open, slot,
                  cancelled, faults>>
  BY DEF LookRow, LookEnabled, LookRevision, core, network, producer, control
<1>2. /\ Enabled' = Enabled /\ Revision' = Revision
      /\ TypeOK /\ LookInv /\ PastInv /\ Enabled \in BOOLEAN
  BY <1>1, SwitchIs DEF LoopInv, Enabled, Revision
<1>3. LookInv' /\ TypeOK' /\ PastInv'
  <2>1. CASE LookRow
    <3>1. look' = [at |-> "row", row |-> row, enabled |-> FALSE] /\ Told(row)
      BY <2>1 DEF LookRow
    <3>2. LookInv'
      BY <1>1, <1>2, <3>1 DEF LookInv, TypeOK
    <3>3. TypeOK' /\ PastInv'
      BY <1>1, <1>2, <3>1 DEF TypeOK, PastInv, Past, Told
    <3>4. QED
      BY <3>2, <3>3
  <2>2. CASE LookEnabled
    <3>1. /\ look.at = "row"
          /\ look' = [look EXCEPT !.at = "enabled", !.enabled = Enabled]
      BY <2>2 DEF LookEnabled
    <3>2. /\ look'.at = "enabled" /\ look'.row = look.row /\ look'.enabled = Enabled
          /\ look' \in [at : {"idle", "row", "enabled"}, row : Row \cup {None},
                        enabled : BOOLEAN]
      BY <1>2, <3>1 DEF LookInv
    <3>3. LookInv'
      BY <1>1, <1>2, <3>2 DEF LookInv
    <3>4. TypeOK' /\ PastInv'
      BY <1>1, <1>2, <3>1, <3>2 DEF TypeOK, PastInv, Past, Told
    <3>5. QED
      BY <3>3, <3>4
  <2>3. CASE LookRevision
    <3>1. look' = [at |-> "idle", row |-> None, enabled |-> FALSE]
      BY <2>3 DEF LookRevision, NoLook
    <3>2. LookInv'
      BY <3>1 DEF LookInv
    <3>3. TypeOK' /\ PastInv'
      BY <1>1, <1>2, <3>1 DEF TypeOK, PastInv, Past, Told
    <3>4. QED
      BY <3>2, <3>3
  <2>4. QED
    BY <2>1, <2>2, <2>3
<1>4. OffInv'
  BY <1>1, <1>2 DEF LoopInv, OffInv, SaysOff, Dark, Told
<1>5. RetiredInv' /\ ProducerInv'
  BY <1>1, <1>2 DEF LoopInv, RetiredInv, ProducerInv
<1>6. QED
  BY <1>3, <1>4, <1>5 DEF LoopInv

(* Nothing is running and nothing has been reported. *)
LEMMA InitLoopInv == Init => LoopInv
<1> SUFFICES ASSUME Init PROVE LoopInv
  OBVIOUS
<1>1. /\ reg = Observed(EmptyRegistry, Source, Type, None)
      /\ row = None /\ epoch = 0 /\ wire = {} /\ late = 0 /\ kind \in Producers
      /\ pc = "down" /\ desired = None /\ open = FALSE /\ slot = "free"
      /\ cancelled = FALSE /\ faults = 0
      /\ look = [at |-> "idle", row |-> None, enabled |-> FALSE]
  BY DEF Init, NoLook
<1>2. /\ EmptyRegistry \in Registry /\ Get(EmptyRegistry, Source) = DefaultMetadata
      /\ Source \in Sources /\ Type \in Types
  BY ControlLoopAssumption DEF EmptyRegistry, Registry, Get
<1>3. reg \in Registry /\ Get(reg, Source) = DefaultMetadata
  <2>1. None \in Devices \cup {None}
    OBVIOUS
  <2>2. QED
    BY <1>1, <1>2, <2>1, ObservedIs
<1>4. TypeOK
  <2>1. late \in 0 .. MaxLate /\ faults \in 0 .. MaxFaults /\ epoch \in Nat
    BY <1>1, ControlLoopAssumption
  <2>2. look.at = "idle" /\ look.row = None
    BY <1>1
  <2>3. {open, cancelled} \subseteq BOOLEAN /\ wire \subseteq Heartbeat
    BY <1>1
  <2>4. QED
    BY <1>1, <1>3, <2>1, <2>2, <2>3 DEF TypeOK, Labels
<1>5. PastInv /\ OffInv /\ ProducerInv
  BY <1>1 DEF PastInv, OffInv, ProducerInv, Told
<1>6. LookInv /\ RetiredInv
  BY <1>1, <1>3 DEF LookInv, RetiredInv, DefaultMetadata
<1>7. QED
  BY <1>4, <1>5, <1>6 DEF LoopInv

(* Every step of the operator, the core, the producer and the catalog keeps *)
(* the invariant.                                                           *)
LEMMA NextLoopInv == LoopInv /\ [Next]_vars => LoopInv'
<1> SUFFICES ASSUME LoopInv, [Next]_vars PROVE LoopInv'
  OBVIOUS
<1>1. CASE (\E e \in BOOLEAN : Command(e)) \/ Retire \/ Restore
  BY <1>1, CommandsKeep
<1>2. CASE Forget \/ CoreRestart
  BY <1>2, ForgetKeeps, CoreRestartKeeps
<1>3. CASE Quiet
  BY <1>3, QuietStepKeeps
<1>4. CASE FetchEnabled \/ FetchRevision \/ Apply
  BY <1>4, FetchKeeps, ApplyKeeps
<1>5. CASE (\E h \in wire : Deliver(h)) \/ FrameAccepted \/ LateFrame
  BY <1>5, DeliverKeeps, FrameAcceptedKeeps, LateFrameKeeps
<1>6. CASE LookRow \/ LookEnabled \/ LookRevision
  BY <1>6, LookKeeps
<1>7. CASE UNCHANGED vars
  <2>1. UNCHANGED <<reg, row, epoch, wire, late, kind, pc, desired, open, slot,
                    cancelled, look, faults>>
    BY <1>7 DEF vars, core, network, producer, control
  <2>2. QED
    BY <2>1 DEF LoopInv, TypeOK, RetiredInv, PastInv, ProducerInv, OffInv,
                LookInv, Past, SaysOff, Dark, Told, Enabled, Revision
<1>8. QED
  BY <1>1, <1>2, <1>3, <1>4, <1>5, <1>6, <1>7 DEF Next, Loop, Quiet

(* The inductive invariant holds of every reachable state. *)
LEMMA LoopInvariant == Spec => []LoopInv
<1>1. QED
  BY InitLoopInv, NextLoopInv, PTL DEF Spec

-----------------------------------------------------------------------------
(* What the loop promises                                                  *)

(* Registry, row, reports under way, the producer's position and what it   *)
(* fetched, slot and catalog request keep their types.                     *)
THEOREM LoopTypes == Spec => []TypeOK
<1>1. LoopInv => TypeOK
  BY DEF LoopInv
<1>2. QED
  BY <1>1, LoopInvariant, PTL

(* A sensor shown as converged on "off" has its camera closed, whatever    *)
(* commands, runs, crashes, late reports and late frames came before.      *)
THEOREM OffIsOff == Spec => []SwitchedOffMeansClosed
<1>1. LoopInv => SwitchedOffMeansClosed
  <2> SUFFICES ASSUME LoopInv, Status(row, Enabled, Revision) = "converged",
                      ~Enabled, row.epoch = epoch
               PROVE  ~open
    BY DEF SwitchedOffMeansClosed
  <2>1. Told(row) /\ row.applied = Revision /\ row.active = Enabled
    BY DEF Status, Told
  <2>2. SaysOff(row)
    BY <2>1 DEF SaysOff
  <2>3. QED
    BY <2>1, <2>2 DEF LoopInv, OffInv, Dark
<1>2. QED
  BY <1>1, LoopInvariant, PTL

(* ProducerRunController: the slot is given up by a job that has closed    *)
(* its camera, so the next start() never finds one open.                   *)
THEOREM FreeSlotIsSafe == Spec => []FreeSlotMeansClosed
<1>1. LoopInv => FreeSlotMeansClosed
  BY DEF LoopInv, ProducerInv, FreeSlotMeansClosed
<1>2. QED
  BY <1>1, LoopInvariant, PTL

(* The catalog reads row, switch and revision one after the other, and     *)
(* what it calls converged is what the operator wants at the last of these *)
(* reads.                                                                  *)
THEOREM CatalogIsCurrent == Spec => CatalogVerdictIsCurrent
<1> DEFINE Verdict == LookRevision
                        /\ Status(look.row, look.enabled, Revision) = "converged"
                        /\ look.row.epoch = epoch
                      => look.row.active = Enabled
<1>1. LoopInv => Verdict
  <2> SUFFICES ASSUME LoopInv, LookRevision, look.row.epoch = epoch,
                      Status(look.row, look.enabled, Revision) = "converged"
               PROVE  look.row.active = Enabled
    OBVIOUS
  <2>1. look.at = "enabled"
    BY DEF LookRevision
  <2>2. look.row.applied = Revision /\ look.row.active = look.enabled
    BY DEF Status
  <2>3. QED
    BY <2>1, <2>2 DEF LoopInv, LookInv
<1>2. QED
  <2>1. LoopInv /\ [Next]_vars => [Verdict]_vars
    BY <1>1
  <2> HIDE DEF Verdict
  <2>2. Spec => [][Verdict]_vars
    BY <2>1, LoopInvariant, PTL DEF Spec
  <2>3. QED
    BY <2>2 DEF CatalogVerdictIsCurrent, Verdict
=============================================================================
